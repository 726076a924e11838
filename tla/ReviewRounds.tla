---------------------------- MODULE ReviewRounds ----------------------------
(***************************************************************************)
(* What the review/fix engine promises the worker: the part of a run that  *)
(* module Pipeline relies on.  A run resolves or escalates only when no    *)
(* answer of a human is waiting; an answer leaves the row only because it  *)
(* has been landed; a run that dies or fails leaves the answer waiting.    *)
(***************************************************************************)

VARIABLES
  waiting,   \* an answer of a human is stored
  at         \* the engine is "out", in its "loop", or has returned

Outcomes == {"resolved", "needsHuman", "stalled", "paused"}

Init == waiting = FALSE /\ at = "out"

Enter == at = "out" /\ at' = "loop" /\ UNCHANGED waiting

LandAnswer == at = "loop" /\ waiting /\ waiting' = FALSE /\ UNCHANGED at

\* the step that lands the answer may be the one that escalates again
Return ==
  /\ at = "loop"
  /\ at' \in Outcomes
  /\ at' = "resolved" => ~waiting
  /\ at' = "needsHuman" => ~waiting'
  /\ waiting' \in {waiting, waiting /\ at' # "needsHuman"}

\* the worker concludes; the engine threw, or its process died
Leave == at # "out" /\ at' = "out" /\ UNCHANGED waiting

Submit == at = "out" /\ waiting' = TRUE /\ UNCHANGED at

Next == Enter \/ LandAnswer \/ Return \/ Leave \/ Submit

Spec == Init /\ [][Next]_<<waiting, at>>
=============================================================================

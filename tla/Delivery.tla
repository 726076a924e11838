------------------------------ MODULE Delivery ------------------------------
(***************************************************************************)
(* What Forgeline promises about a requirement: the ladder of stages it    *)
(* climbs, and who may move it from each one to the next.  The worker does *)
(* the work inside a stage; every outward step (a design, the issues, the  *)
(* implementation, the pull request) is authorised by a human, or by the   *)
(* autonomy policy standing in for one; only a human lets a merge through. *)
(***************************************************************************)

VARIABLES
  stage,   \* how far the requirement has come
  mover    \* who took the last step

Stages == {"review", "confirmed", "design", "awaitingGo", "writing",
           "created", "build", "awaitingPr", "pr", "awaitingMerge", "shipped"}

Movers == {"none", "worker", "autonomy", "human"}

Init ==
  /\ stage \in {"review", "build"}   \* a bare issue starts at its implementation
  /\ mover = "none"

Climb(from, to, who) ==
  /\ stage = from
  /\ stage' = to
  /\ mover' \in who

\* a machine conclusion: the review or the design passed, CI is green, the
\* hardening is verified
Work ==
  \/ Climb("review", "confirmed", {"worker"})
  \/ Climb("design", "awaitingGo", {"worker"})
  \/ Climb("build", "awaitingPr", {"worker"})
  \/ Climb("pr", "awaitingMerge", {"worker"})

\* an authorisation point
Authorise ==
  \/ Climb("confirmed", "design", {"human", "autonomy"})
  \/ Climb("awaitingGo", "writing", {"human", "autonomy"})
  \/ Climb("created", "build", {"human", "autonomy"})
  \/ Climb("awaitingPr", "pr", {"human", "autonomy"})

\* arbitration: the maintainer closes a review, or releases a design
Arbitrate ==
  \/ Climb("review", "confirmed", {"human"})
  \/ Climb("design", "awaitingGo", {"human"})

\* the issues are created, or the attempt failed and waits for another GO
Write ==
  \/ Climb("writing", "created", {"human", "autonomy"})
  \/ Climb("writing", "awaitingGo", {"human", "autonomy"})

\* nothing is ever merged automatically
Ship == Climb("awaitingMerge", "shipped", {"human"})

Within ==
  /\ mover' \in Movers
  /\ UNCHANGED stage

Next == Work \/ Authorise \/ Arbitrate \/ Write \/ Ship \/ Within

Spec == Init /\ [][Next]_<<stage, mover>>
=============================================================================

------------------------- MODULE ReviewFixLoopProofs -------------------------
(***************************************************************************)
(* Proofs about the review/fix engine: its properties follow from one      *)
(* inductive invariant that says, for every point of a run, whether an     *)
(* answer may still be waiting, whether the artefact at hand is the stored *)
(* one, and how many rounds and pauses are accounted for.                  *)
(***************************************************************************)
EXTENDS ReviewFixLoop, TLAPS

\* the points of a run that an answer is applied at
Applying == pc = "fixFirst" \/ (pc \in {"parse", "reEmit", "persist"} /\ job = "answer") \/ pc = "clear"

\* the points a revision passes through
Revising == pc = "revise" \/ (pc \in {"parse", "reEmit", "persist"} /\ job = "revision") \/ pc = "setRound"

AnswerInv ==
  /\ owed => answer
  /\ pc = "fixFirst" => answer
  /\ pc = "clear" => ~owed
  /\ pc \in InRun \ {"returned"} /\ ~Applying => ~answer
  /\ pc = "returned" /\ outcome \in {"resolved", "skipped", "needsHuman"} => ~answer
  /\ pc = "persist" => job # "verdict"
  /\ pc = "returned" => outcome # "none"

ArtefactInv ==
  /\ pc \in InRun \ {"persist", "returned"} => art = stored
  /\ pc \in {"returned", "done"} /\ outcome = "resolved" => approved = stored

RoundInv ==
  /\ Revising => round + 1 < MaxRounds
  /\ pc = "closeBreaker" => round < MaxRounds
  /\ RoundsCapped
  /\ (pc \in {"rest", "failed", "broken"} \cup (InRun \ {"returned"})
      \/ (pc = "returned" /\ outcome = "paused")) => round < MaxRounds + answers + crashes
  /\ RoundsCounted

\* the breaker's worth of pauses that an answer, once it is being applied, grants
Grant == IF answer /\ pc # "broken" /\ ~(Applying /\ pc # "fixFirst") THEN 0 ELSE 1

\* failures in a row that did pause the loop
Failures == IF streak < MaxFixFailures THEN streak ELSE MaxFixFailures - 1

PauseInv ==
  pauses + (IF pc = "closeBreaker" THEN MaxFixFailures ELSE 0)
    <= MaxFixFailures * (round + crashes + Grant) + Failures

IInv == TypeOK /\ AnswerInv /\ ArtefactInv /\ RoundInv /\ PauseInv

-----------------------------------------------------------------------------

(* Every step keeps the types. *)
LEMMA TypeStep ==
  ASSUME TypeOK, [Next]_vars
  PROVE  TypeOK'
<1> USE ReviewFixLoopAssumption DEF TypeOK, columns, repair, calls, ghosts, InRun, OutOfRun, Outcomes
<1>1. CASE Begin
  BY <1>1 DEF Begin, Go
<1>2. CASE Misparses
  BY <1>2 DEF Misparses, Go
<1>3. CASE ReEmit
  BY <1>3 DEF ReEmit, Go, CountCall
<1>4. CASE FixParses
  BY <1>4 DEF FixParses, Go
<1>5. CASE Persist
  BY <1>5 DEF Persist, Go
<1>6. CASE ClearHumanAnswer
  <2>1. answer' = FALSE /\ owed' = owed /\ lost' = lost
    BY <1>6 DEF ClearHumanAnswer
  <2>2. ticks' \in Nat
    BY <1>6 DEF ClearHumanAnswer
  <2>3. pc' \in InRun \cup OutOfRun /\ outcome' \in Outcomes
    BY <1>6 DEF ClearHumanAnswer, Returns, Go
  <2>4. QED
    BY <1>6, <2>1, <2>2, <2>3 DEF ClearHumanAnswer
<1>7. CASE SetRound
  BY <1>7 DEF SetRound, Go
<1>8. CASE CloseBreaker
  BY <1>8 DEF CloseBreaker, Returns, Go
<1>9. CASE Review
  BY <1>9 DEF Review, Returns, Go
<1>10. CASE Clean
  BY <1>10 DEF Clean, Returns, Go
<1>11. CASE ChangesRequested
  BY <1>11 DEF ChangesRequested, Returns, Go
<1>12. CASE Conclude
  BY <1>12 DEF Conclude, Go
<1>13. CASE AutoRetry
  BY <1>13 DEF AutoRetry, Go
<1>14. CASE ManualRetry
  BY <1>14 DEF ManualRetry, Go
<1>15. CASE SubmitAnswers
  BY <1>15 DEF SubmitAnswers, Go
<1>16. CASE Crash
  BY <1>16 DEF Crash
<1>17. ASSUME NEW from \in {"fixFirst", "revise"}, FixFails(from)
     PROVE  TypeOK'
  BY <1>17 DEF FixFails, Fix, Returns, Go
<1>18. ASSUME NEW from \in {"fixFirst", "revise"}, FixThrows(from)
     PROVE  TypeOK'
  BY <1>18 DEF FixThrows, Fix
<1>19. ASSUME NEW from \in {"fixFirst", "revise"}, FixReplies(from)
     PROVE  TypeOK'
  BY <1>19 DEF FixReplies, Fix
<1>20. CASE UNCHANGED vars
  BY <1>20 DEF vars
<1>21. QED
  BY <1>1, <1>2, <1>3, <1>4, <1>5, <1>6, <1>7, <1>8, <1>9, <1>10, <1>11, <1>12, <1>13, <1>14, <1>15, <1>16, <1>17, <1>18, <1>19, <1>20 DEF Next, Run

(* An answer that is owed stays stored; no verdict is reached over it. *)
LEMMA AnswerStep ==
  ASSUME TypeOK, AnswerInv, [Next]_vars
  PROVE  AnswerInv'
<1> USE ReviewFixLoopAssumption DEF TypeOK, AnswerInv, Applying, columns, repair, calls, ghosts, InRun, OutOfRun, Outcomes
<1>1. CASE Begin
  BY <1>1 DEF Begin, Go
<1>2. CASE Misparses
  BY <1>2 DEF Misparses, Go
<1>3. CASE ReEmit
  BY <1>3 DEF ReEmit, Go, CountCall
<1>4. CASE FixParses
  BY <1>4 DEF FixParses, Go
<1>5. CASE Persist
  BY <1>5 DEF Persist, Go
<1>6. CASE ClearHumanAnswer
  BY <1>6 DEF ClearHumanAnswer, Returns, Go
<1>7. CASE SetRound
  BY <1>7 DEF SetRound, Go
<1>8. CASE CloseBreaker
  BY <1>8 DEF CloseBreaker, Returns, Go
<1>9. CASE Review
  BY <1>9 DEF Review, Returns, Go
<1>10. CASE Clean
  BY <1>10 DEF Clean, Returns, Go
<1>11. CASE ChangesRequested
  BY <1>11 DEF ChangesRequested, Returns, Go
<1>12. CASE Conclude
  BY <1>12 DEF Conclude, Go
<1>13. CASE AutoRetry
  BY <1>13 DEF AutoRetry, Go
<1>14. CASE ManualRetry
  BY <1>14 DEF ManualRetry, Go
<1>15. CASE SubmitAnswers
  BY <1>15 DEF SubmitAnswers, Go
<1>16. CASE Crash
  BY <1>16 DEF Crash
<1>17. ASSUME NEW from \in {"fixFirst", "revise"}, FixFails(from)
     PROVE  AnswerInv'
  BY <1>17 DEF FixFails, Fix, Returns, Go
<1>18. ASSUME NEW from \in {"fixFirst", "revise"}, FixThrows(from)
     PROVE  AnswerInv'
  BY <1>18 DEF FixThrows, Fix
<1>19. ASSUME NEW from \in {"fixFirst", "revise"}, FixReplies(from)
     PROVE  AnswerInv'
  BY <1>19 DEF FixReplies, Fix
<1>20. CASE UNCHANGED vars
  BY <1>20 DEF vars
<1>21. QED
  BY <1>1, <1>2, <1>3, <1>4, <1>5, <1>6, <1>7, <1>8, <1>9, <1>10, <1>11, <1>12, <1>13, <1>14, <1>15, <1>16, <1>17, <1>18, <1>19, <1>20 DEF Next, Run

(* A run works on the stored artefact except while it persists a new one. *)
LEMMA ArtefactStep ==
  ASSUME TypeOK, AnswerInv, ArtefactInv, [Next]_vars
  PROVE  ArtefactInv'
<1> USE ReviewFixLoopAssumption DEF TypeOK, AnswerInv, ArtefactInv, Applying, columns, repair, calls, ghosts, InRun, OutOfRun, Outcomes
<1>1. CASE Begin
  BY <1>1 DEF Begin, Go
<1>2. CASE Misparses
  BY <1>2 DEF Misparses, Go
<1>3. CASE ReEmit
  BY <1>3 DEF ReEmit, Go, CountCall
<1>4. CASE FixParses
  BY <1>4 DEF FixParses, Go
<1>5. CASE Persist
  BY <1>5 DEF Persist, Go
<1>6. CASE ClearHumanAnswer
  BY <1>6 DEF ClearHumanAnswer, Returns, Go
<1>7. CASE SetRound
  BY <1>7 DEF SetRound, Go
<1>8. CASE CloseBreaker
  BY <1>8 DEF CloseBreaker, Returns, Go
<1>9. CASE Review
  BY <1>9 DEF Review, Returns, Go
<1>10. CASE Clean
  BY <1>10 DEF Clean, Returns, Go
<1>11. CASE ChangesRequested
  BY <1>11 DEF ChangesRequested, Returns, Go
<1>12. CASE Conclude
  BY <1>12 DEF Conclude, Go
<1>13. CASE AutoRetry
  BY <1>13 DEF AutoRetry, Go
<1>14. CASE ManualRetry
  BY <1>14 DEF ManualRetry, Go
<1>15. CASE SubmitAnswers
  BY <1>15 DEF SubmitAnswers, Go
<1>16. CASE Crash
  BY <1>16 DEF Crash
<1>17. ASSUME NEW from \in {"fixFirst", "revise"}, FixFails(from)
     PROVE  ArtefactInv'
  BY <1>17 DEF FixFails, Fix, Returns, Go
<1>18. ASSUME NEW from \in {"fixFirst", "revise"}, FixThrows(from)
     PROVE  ArtefactInv'
  BY <1>18 DEF FixThrows, Fix
<1>19. ASSUME NEW from \in {"fixFirst", "revise"}, FixReplies(from)
     PROVE  ArtefactInv'
  BY <1>19 DEF FixReplies, Fix
<1>20. CASE UNCHANGED vars
  BY <1>20 DEF vars
<1>21. QED
  BY <1>1, <1>2, <1>3, <1>4, <1>5, <1>6, <1>7, <1>8, <1>9, <1>10, <1>11, <1>12, <1>13, <1>14, <1>15, <1>16, <1>17, <1>18, <1>19, <1>20 DEF Next, Run

(* Rounds are counted after what they stand for, and not past the cap. *)
LEMMA RoundStep ==
  ASSUME TypeOK, AnswerInv, RoundInv, [Next]_vars
  PROVE  RoundInv'
<1> USE ReviewFixLoopAssumption DEF TypeOK, RoundInv, Revising, RoundsCapped, RoundsCounted, columns, repair, calls, ghosts, InRun, OutOfRun, Outcomes
<1>1. CASE Begin
  BY <1>1 DEF Begin, Go
<1>2. CASE Misparses
  BY <1>2 DEF Misparses, Go
<1>3. CASE ReEmit
  <2>1. CASE Go("reEmit", "parse")
    BY <1>3, <2>1 DEF ReEmit, Go
  <2>2. CASE Go("reEmit", "reEmit")
    BY <1>3, <2>2 DEF ReEmit, Go
  <2>3. CASE Go("reEmit", "broken")
    BY <1>3, <2>3 DEF ReEmit, Go
  <2>4. QED
    BY <1>3, <2>1, <2>2, <2>3 DEF ReEmit
<1>4. CASE FixParses
  BY <1>4 DEF FixParses, Go
<1>5. CASE Persist
  <2>1. CASE job = "revision"
    BY <1>5, <2>1 DEF Persist, Go
  <2>2. CASE job = "answer"
    BY <1>5, <2>2 DEF Persist, Go
  <2>3. QED
    BY <1>5, <2>1, <2>2 DEF Persist, Go, AnswerInv
<1>6. CASE ClearHumanAnswer
  BY <1>6 DEF ClearHumanAnswer, Returns, Go
<1>7. CASE SetRound
  BY <1>7 DEF SetRound, Go
<1>8. CASE CloseBreaker
  BY <1>8 DEF CloseBreaker, Returns, Go
<1>9. CASE Review
  BY <1>9 DEF Review, Returns, Go
<1>10. CASE Clean
  BY <1>10 DEF Clean, Returns, Go
<1>11. CASE ChangesRequested
  BY <1>11 DEF ChangesRequested, Returns, Go
<1>12. CASE Conclude
  BY <1>12 DEF Conclude, Go
<1>13. CASE AutoRetry
  BY <1>13 DEF AutoRetry, Go
<1>14. CASE ManualRetry
  BY <1>14 DEF ManualRetry, Go
<1>15. CASE SubmitAnswers
  BY <1>15 DEF SubmitAnswers, Go
<1>16. CASE Crash
  BY <1>16 DEF Crash
<1>17. ASSUME NEW from \in {"fixFirst", "revise"}, FixFails(from)
     PROVE  RoundInv'
  BY <1>17 DEF FixFails, Fix, Returns, Go
<1>18. ASSUME NEW from \in {"fixFirst", "revise"}, FixThrows(from)
     PROVE  RoundInv'
  BY <1>18 DEF FixThrows, Fix
<1>19. ASSUME NEW from \in {"fixFirst", "revise"}, FixReplies(from)
     PROVE  RoundInv'
  BY <1>19 DEF FixReplies, Fix
<1>20. CASE UNCHANGED vars
  BY <1>20 DEF vars
<1>21. QED
  BY <1>1, <1>2, <1>3, <1>4, <1>5, <1>6, <1>7, <1>8, <1>9, <1>10, <1>11, <1>12, <1>13, <1>14, <1>15, <1>16, <1>17, <1>18, <1>19, <1>20 DEF Next, Run

(* Each pause is paid for by a round, a failure in a row, an answer or a crash. *)
LEMMA PauseStep ==
  ASSUME TypeOK, AnswerInv, RoundInv, PauseInv, [Next]_vars
  PROVE  PauseInv'
<1> USE ReviewFixLoopAssumption DEF TypeOK, AnswerInv, PauseInv, Applying, Grant, Failures, columns, repair, calls, ghosts, InRun, OutOfRun, Outcomes
<1>1. CASE Begin
  BY <1>1 DEF Begin, Go
<1>2. CASE Misparses
  BY <1>2 DEF Misparses, Go
<1>3. CASE ReEmit
  BY <1>3 DEF ReEmit, Go, CountCall
<1>4. CASE FixParses
  BY <1>4 DEF FixParses, Go
<1>5. CASE Persist
  BY <1>5 DEF Persist, Go
<1>6. CASE ClearHumanAnswer
  BY <1>6 DEF ClearHumanAnswer, Returns, Go
<1>7. CASE SetRound
  BY <1>7 DEF SetRound, Go
<1>8. CASE CloseBreaker
  BY <1>8 DEF CloseBreaker, Returns, Go
<1>9. CASE Review
  BY <1>9 DEF Review, Returns, Go
<1>10. CASE Clean
  BY <1>10 DEF Clean, Returns, Go
<1>11. CASE ChangesRequested
  BY <1>11 DEF ChangesRequested, Returns, Go
<1>12. CASE Conclude
  BY <1>12 DEF Conclude, Go
<1>13. CASE AutoRetry
  BY <1>13 DEF AutoRetry, Go
<1>14. CASE ManualRetry
  BY <1>14 DEF ManualRetry, Go
<1>15. CASE SubmitAnswers
  BY <1>15 DEF SubmitAnswers, Go
<1>16. CASE Crash
  BY <1>16 DEF Crash
<1>17. ASSUME NEW from \in {"fixFirst", "revise"}, FixFails(from)
     PROVE  PauseInv'
  BY <1>17 DEF FixFails, Fix, Returns, Go
<1>18. ASSUME NEW from \in {"fixFirst", "revise"}, FixThrows(from)
     PROVE  PauseInv'
  BY <1>18 DEF FixThrows, Fix
<1>19. ASSUME NEW from \in {"fixFirst", "revise"}, FixReplies(from)
     PROVE  PauseInv'
  <2>1. CASE from = "fixFirst"
    <3>1. Failures <= MaxFixFailures /\ Failures' = 0
      BY <1>19, <2>1 DEF FixReplies, Fix, Failures
    <3>2. Grant = 0 /\ Grant' = 1
      BY <1>19, <2>1 DEF FixReplies, Fix
    <3>3. MaxFixFailures * (round + crashes + 1) = MaxFixFailures * (round + crashes + 0) + MaxFixFailures
      BY DEF TypeOK
    <3>4. QED
      BY <1>19, <2>1, <3>1, <3>2, <3>3 DEF FixReplies, Fix
  <2>2. CASE from = "revise"
    BY <1>19, <2>2 DEF FixReplies, Fix
  <2>3. QED
    BY <1>19, <2>1, <2>2
<1>20. CASE UNCHANGED vars
  BY <1>20 DEF vars
<1>21. QED
  BY <1>1, <1>2, <1>3, <1>4, <1>5, <1>6, <1>7, <1>8, <1>9, <1>10, <1>11, <1>12, <1>13, <1>14, <1>15, <1>16, <1>17, <1>18, <1>19, <1>20 DEF Next, Run

(* The invariant is inductive. *)
THEOREM Inductive == Spec => []IInv
<1>1. ASSUME Init
      PROVE  IInv
  <2> USE <1>1, ReviewFixLoopAssumption DEF Init
  <2>1. TypeOK
    <3>1. answer \in BOOLEAN /\ owed \in BOOLEAN /\ lost \in BOOLEAN
      BY Zenon
    <3>2. /\ pc \in OutOfRun /\ outcome \in Outcomes
          /\ attempt \in 0..MaxRepairs /\ call \in 0..ReEmitRetries
          /\ answers \in 0..MaxAnswers /\ crashes \in 0..MaxCrashes
      BY DEF OutOfRun, Outcomes
    <3>3. QED
      BY <3>1, <3>2 DEF TypeOK
  <2>2. AnswerInv
    BY DEF InRun, AnswerInv, Applying
  <2>3. ArtefactInv
    BY DEF InRun, ArtefactInv
  <2>4. RoundInv
    BY DEF InRun, RoundInv, Revising, RoundsCapped, RoundsCounted
  <2>5. Grant = 1 /\ Failures = 0
    BY DEF Grant, Failures
  <2>6. PauseInv
    BY <2>5 DEF PauseInv
  <2>7. QED
    BY <2>1, <2>2, <2>3, <2>4, <2>6 DEF IInv
<1>2. IInv /\ [Next]_vars => IInv'
  BY TypeStep, AnswerStep, ArtefactStep, RoundStep, PauseStep DEF IInv
<1>3. QED
  BY <1>1, <1>2, PTL DEF Spec

(* The columns and the bookkeeping of a run keep their types. *)
THEOREM TypeCorrect == Spec => []TypeOK
<1>1. IInv => TypeOK
  BY DEF IInv
<1>2. QED
  BY <1>1, Inductive, PTL

(* An answer stays in the row until the artefact on disk holds it, however *)
(* many failures and crashes fall between the two writes.                  *)
THEOREM AnswersAreKept == Spec => []AnswerKept
<1>1. IInv => AnswerKept
  BY DEF IInv, AnswerInv, AnswerKept
<1>2. QED
  BY <1>1, Inductive, PTL

(* No run resolves or escalates while an answer has not been applied.      *)
THEOREM AnswersComeFirst == Spec => []AnswerBeforeVerdict
<1>1. IInv => AnswerBeforeVerdict
  BY DEF IInv, TypeOK, AnswerInv, AnswerBeforeVerdict
<1>2. QED
  BY <1>1, Inductive, PTL

(* What a resolved loop leaves on disk is what the reviewer found clean.   *)
THEOREM StoredIsApproved == Spec => []ApprovedIsStored
<1>1. IInv => ApprovedIsStored
  BY DEF IInv, ArtefactInv, ApprovedIsStored
<1>2. QED
  BY <1>1, Inductive, PTL

(* Every persisted revision counts as a round, and rounds stop at the cap. *)
THEOREM RoundsAreBounded == Spec => [](RoundsCounted /\ RoundsCapped)
<1>1. IInv => RoundsCounted /\ RoundsCapped
  BY DEF IInv, RoundInv
<1>2. QED
  BY <1>1, Inductive, PTL

(* A loop that only ever fails pauses a bounded number of times before a   *)
(* human hears of it.                                                      *)
THEOREM PausesAreBounded == Spec => []PausesBounded
<1>1. ASSUME IInv
      PROVE  PausesBounded
  <2>1. round \in Nat /\ crashes \in Nat /\ pauses \in Nat /\ streak \in Nat
    BY <1>1, ReviewFixLoopAssumption DEF IInv, TypeOK
  <2>2. Grant \in {0, 1} /\ Failures \in 0..MaxFixFailures
    BY <2>1, ReviewFixLoopAssumption DEF Grant, Failures
  <2>3. pauses <= MaxFixFailures * (round + crashes + Grant) + Failures
    BY <1>1, <2>1, <2>2, ReviewFixLoopAssumption DEF IInv, PauseInv
  <2>4. MaxFixFailures * (round + crashes + Grant) <= MaxFixFailures * (round + crashes + 1)
    BY <2>1, <2>2, ReviewFixLoopAssumption
  <2>5. MaxFixFailures * (round + crashes + 2) = MaxFixFailures * (round + crashes + 1) + MaxFixFailures
    BY <2>1, ReviewFixLoopAssumption
  <2>6. QED
    BY <2>1, <2>2, <2>3, <2>4, <2>5, ReviewFixLoopAssumption DEF PausesBounded
<1>2. QED
  BY <1>1, Inductive, PTL

(* An answer is kept, comes before the verdict, and is in what is stored.  *)
THEOREM AnswersHold == Spec => []AnswersLand
BY AnswersAreKept, AnswersComeFirst, StoredIsApproved, PTL DEF AnswersLand

(* A loop's rounds and pauses are bounded, for every limit.                *)
THEOREM LoopsEnd == Spec => []LoopEnds
BY RoundsAreBounded, PausesAreBounded, PTL DEF LoopEnds

-----------------------------------------------------------------------------
\* the calls one fix or one review may cost, and those of the parse at hand
Block == 1 + MaxRepairs * (1 + ReEmitRetries)
Part == IF pc = "reEmit" THEN 1 + (attempt - 1) * (1 + ReEmitRetries) + call
                         ELSE 1 + attempt * (1 + ReEmitRetries)

Parsing(what) == pc \in {"parse", "reEmit"} /\ job = what
\* where a run is: an answer is in, a revision is in, a verdict asks for one, a round is on
Landed  == (pc = "persist" /\ job = "answer") \/ pc = "clear"
Revised == (pc = "persist" /\ job = "revision") \/ pc \in {"setRound", "closeBreaker"}
Judged  == pc = "revise" \/ Parsing("revision") \/ Revised
Looping == pc = "review" \/ Parsing("verdict") \/ Judged

\* what a run has called so far, at each point of it
CallInv ==
  /\ pc = "reEmit" => attempt >= 1
  /\ (pc = "fixFirst" \/ Parsing("answer") \/ Landed) => (ticks = 0 /\ reviews = 0)
  /\ pc = "fixFirst" => fixes = 0
  /\ Parsing("answer") => fixes <= Part
  /\ Landed => fixes <= Block
  /\ Looping => (ticks <= 1 \/ ticks < MaxRoundsPerTick)
  /\ (pc \in {"review", "revise"} \/ Parsing("verdict")) => fixes <= ticks * Block
  /\ Parsing("revision") => fixes <= ticks * Block + Part
  /\ Revised => fixes <= (ticks + 1) * Block
  /\ pc = "review" => (reviews <= ticks * Block /\ reviews <= (MaxRoundsPerTick - 1) * Block)
  /\ Parsing("verdict") => (/\ reviews <= ticks * Block + Part
                            /\ reviews <= (MaxRoundsPerTick - 1) * Block + Part)
  /\ Judged => (reviews <= (ticks + 1) * Block)
  /\ CallsBounded

\* the fixes of a run, in blocks
FixBlocks == IF MaxRoundsPerTick = 1 THEN 2 ELSE MaxRoundsPerTick

\* products grow with their factors
LEMMA Grows ==
  ASSUME NEW a \in Nat, NEW b \in Nat, NEW c \in Nat, a <= b
  PROVE  a * c \in Nat /\ a * c <= b * c
OBVIOUS

\* a parse never costs more than a block
LEMMA Blocks ==
  ASSUME TypeOK, CallInv
  PROVE  /\ Block \in Nat /\ Part \in Nat /\ Part <= Block /\ 1 <= Part
         /\ ticks * Block \in Nat /\ (ticks + 1) * Block = ticks * Block + Block
         /\ (MaxRoundsPerTick - 1) * Block + Block = MaxRoundsPerTick * Block
         /\ MaxRoundsPerTick * Block \in Nat /\ FixBlocks * Block \in Nat
         /\ (MaxRoundsPerTick - 1) * Block \in Nat
         /\ Looping => (ticks + 1) * Block <= FixBlocks * Block
         /\ Block <= FixBlocks * Block
         /\ ticks < MaxRoundsPerTick => ticks * Block <= (MaxRoundsPerTick - 1) * Block
         /\ ticks + 1 < MaxRoundsPerTick
              => (ticks + 1) * Block <= (MaxRoundsPerTick - 1) * Block
<1> USE ReviewFixLoopAssumption DEF TypeOK
<1> DEFINE K == 1 + ReEmitRetries
<1>1. /\ K \in Nat /\ attempt * K \in Nat /\ attempt * K <= MaxRepairs * K
      /\ MaxRepairs * K \in Nat
  BY Grows
<1>2. Block \in Nat /\ Block = 1 + MaxRepairs * K
  BY <1>1 DEF Block
<1>3. pc = "reEmit" => (attempt - 1) * K \in Nat /\ (attempt - 1) * K + K = attempt * K
  <2> SUFFICES ASSUME pc = "reEmit" PROVE (attempt - 1) * K \in Nat /\ (attempt - 1) * K + K = attempt * K
    OBVIOUS
  <2>1. attempt - 1 \in Nat BY DEF CallInv
  <2> QED BY <2>1, <1>1
<1>4. Part \in Nat /\ Part <= Block /\ 1 <= Part
  BY <1>1, <1>2, <1>3 DEF Part
<1>5. MaxRoundsPerTick - 1 \in Nat /\ FixBlocks \in Nat /\ FixBlocks >= 1
  BY DEF FixBlocks
<1> HIDE DEF K
<1>6. ticks * Block \in Nat /\ (ticks + 1) * Block = ticks * Block + Block
  BY <1>2
<1>7. /\ (MaxRoundsPerTick - 1) * Block + Block = MaxRoundsPerTick * Block
      /\ MaxRoundsPerTick * Block \in Nat /\ FixBlocks * Block \in Nat
      /\ (MaxRoundsPerTick - 1) * Block \in Nat
  BY <1>2, <1>5
<1>8. Looping => (ticks + 1) * Block <= FixBlocks * Block
  <2>1. Looping => ticks + 1 <= FixBlocks BY DEF CallInv, FixBlocks
  <2> QED BY <1>2, <1>5, <2>1, Grows
<1>9. Block <= FixBlocks * Block
  <2>1. 1 * Block <= FixBlocks * Block BY <1>2, <1>5, Grows
  <2> QED BY <2>1, <1>2
<1>10. ticks < MaxRoundsPerTick => ticks * Block <= (MaxRoundsPerTick - 1) * Block
  BY <1>2, <1>5, Grows
<1>11. ticks + 1 < MaxRoundsPerTick => (ticks + 1) * Block <= (MaxRoundsPerTick - 1) * Block
  BY <1>2, <1>5, Grows
<1> QED BY <1>2, <1>4, <1>6, <1>7, <1>8, <1>9, <1>10, <1>11

\* what a parse has cost when it goes on
LEMMA PartGrows ==
  ASSUME TypeOK, CallInv
  PROVE  /\ Misparses /\ pc' = "reEmit" => (Part' = Part /\ attempt' >= 1)
         /\ ReEmit /\ pc' \in {"parse", "reEmit"} => (Part' \in Nat /\ Part' >= Part + 1 /\ Part' <= Block)
         /\ ReEmit /\ pc' = "broken" => Part + 1 <= Block
         /\ pc' = "parse" /\ attempt' = 0 => Part' = 1
<1> USE ReviewFixLoopAssumption DEF TypeOK
<1> DEFINE K == 1 + ReEmitRetries
<1>1. K \in Nat /\ attempt * K \in Nat /\ MaxRepairs * K \in Nat /\ attempt * K <= MaxRepairs * K
  BY Grows
<1>2. pc = "reEmit" => /\ (attempt - 1) * K \in Nat /\ (attempt - 1) * K + K = attempt * K
                       /\ Part = 1 + (attempt - 1) * K + call
  <2> SUFFICES ASSUME pc = "reEmit"
               PROVE  /\ (attempt - 1) * K \in Nat /\ (attempt - 1) * K + K = attempt * K
                      /\ Part = 1 + (attempt - 1) * K + call
    OBVIOUS
  <2>1. attempt - 1 \in Nat BY DEF CallInv
  <2> QED BY <2>1, <1>1 DEF Part
<1>3. ASSUME Misparses, pc' = "reEmit" PROVE Part' = Part /\ attempt' >= 1
  <2>1. pc = "parse" /\ attempt' = attempt + 1 /\ call' = 0
    BY <1>3 DEF Misparses, Go
  <2> QED BY <1>1, <1>3, <2>1 DEF Part
<1>4. ASSUME ReEmit, pc' = "parse" PROVE Part' \in Nat /\ Part' >= Part + 1 /\ Part' <= Block
  <2>1. pc = "reEmit" /\ attempt' = attempt BY <1>4 DEF ReEmit, Go
  <2>2. Part' = 1 + attempt * K BY <1>4, <2>1 DEF Part
  <2> HIDE DEF K
  <2>3. K = 1 + ReEmitRetries BY DEF K
  <2>4. Block = 1 + MaxRepairs * K BY DEF Block, K
  <2> QED BY <1>1, <1>2, <2>1, <2>2, <2>3, <2>4
<1>5. ASSUME ReEmit, pc' = "reEmit" PROVE Part' \in Nat /\ Part' >= Part + 1 /\ Part' <= Block
  <2>1. pc = "reEmit" /\ attempt' = attempt /\ call' = call + 1 BY <1>5 DEF ReEmit, Go
  <2>2. Part' = Part + 1 BY <1>2, <1>5, <2>1 DEF Part
  <2>3. Part \in Nat BY Blocks
  <2>4. Part + 1 <= Block
    <3>1. Block = 1 + MaxRepairs * K BY DEF Block
    <3>2. call < ReEmitRetries BY <1>5, <2>1 DEF ReEmit, Go
    <3>3. K = 1 + ReEmitRetries OBVIOUS
    <3> HIDE DEF K
    <3> QED BY <1>1, <1>2, <2>1, <3>1, <3>2, <3>3
  <2> QED BY <2>2, <2>3, <2>4
<1>6. ASSUME ReEmit, pc' = "broken" PROVE Part + 1 <= Block
  <2>1. pc = "reEmit" /\ call = ReEmitRetries BY <1>6 DEF ReEmit, Go
  <2>2. Block = 1 + MaxRepairs * K BY DEF Block
  <2> HIDE DEF K
  <2>3. K = 1 + ReEmitRetries BY DEF K
  <2> QED BY <1>1, <1>2, <2>1, <2>2, <2>3
<1>7. ASSUME pc' = "parse", attempt' = 0 PROVE Part' = 1
  BY <1>1, <1>7 DEF Part
<1> QED BY <1>3, <1>4, <1>5, <1>6, <1>7

\* each call of a driver is paid for by the round it belongs to
LEMMA CallStep ==
  ASSUME TypeOK, TypeOK', AnswerInv, RoundInv, CallInv, [Next]_vars
  PROVE  CallInv'
<1> DEFINE B == Block
           P == Part
           T == ticks * Block
           M == MaxRoundsPerTick * Block
           L == (MaxRoundsPerTick - 1) * Block
           F == FixBlocks * Block
<1>now. CallsBounded <=> fixes <= F /\ reviews <= M
  BY DEF CallsBounded, FixBlocks, Block
<1>next. CallsBounded' <=> fixes' <= F /\ reviews' <= M
  BY DEF CallsBounded, FixBlocks, Block
<1>sizes.
  /\ B \in Nat /\ P \in Nat /\ P <= B /\ 1 <= P /\ T \in Nat /\ M \in Nat /\ L \in Nat /\ F \in Nat
  /\ (ticks + 1) * Block = T + B /\ L + B = M
  /\ Looping => T + B <= F
  /\ B <= F
  /\ ticks < MaxRoundsPerTick => T <= L
  /\ ticks + 1 < MaxRoundsPerTick => T + B <= L
  BY Blocks
<1>still. UNCHANGED ticks => ticks' * Block' = T /\ (ticks' + 1) * Block' = T + B
  BY <1>sizes DEF Block
<1>more. ticks' = ticks + 1 => ticks' * Block' = T + B
  BY <1>sizes DEF Block
<1>constant. Block' = Block /\ ((MaxRoundsPerTick - 1) * Block)' = L
  BY DEF Block
<1>goal.
  /\ CallInv' <=>
       /\ pc' = "reEmit" => attempt' >= 1
       /\ (pc' = "fixFirst" \/ Parsing("answer")' \/ Landed') => (ticks' = 0 /\ reviews' = 0)
       /\ pc' = "fixFirst" => fixes' = 0
       /\ Parsing("answer")' => fixes' <= Part'
       /\ Landed' => fixes' <= B
       /\ Looping' => (ticks' <= 1 \/ ticks' < MaxRoundsPerTick)
       /\ (pc' \in {"review", "revise"} \/ Parsing("verdict")') => fixes' <= ticks' * B
       /\ Parsing("revision")' => fixes' <= ticks' * B + Part'
       /\ Revised' => fixes' <= (ticks' + 1) * B
       /\ pc' = "review" => (reviews' <= ticks' * B /\ reviews' <= L)
       /\ Parsing("verdict")' => (reviews' <= ticks' * B + Part' /\ reviews' <= L + Part')
       /\ Judged' => (reviews' <= (ticks' + 1) * B)
       /\ fixes' <= F /\ reviews' <= M
  BY <1>next, <1>constant DEF CallInv
<1>part.
  /\ Misparses /\ pc' = "reEmit" => (Part' = P /\ attempt' >= 1)
  /\ ReEmit /\ pc' \in {"parse", "reEmit"} => (Part' \in Nat /\ Part' >= P + 1 /\ Part' <= B)
  /\ ReEmit /\ pc' = "broken" => P + 1 <= B
  /\ pc' = "parse" /\ attempt' = 0 => Part' = 1
  BY PartGrows
<1>before.
  /\ pc = "reEmit" => attempt >= 1
  /\ (pc = "fixFirst" \/ Parsing("answer") \/ Landed) => (ticks = 0 /\ reviews = 0)
  /\ pc = "fixFirst" => fixes = 0
  /\ Parsing("answer") => fixes <= P
  /\ Landed => fixes <= B
  /\ Looping => (ticks <= 1 \/ ticks < MaxRoundsPerTick)
  /\ (pc \in {"review", "revise"} \/ Parsing("verdict")) => fixes <= T
  /\ Parsing("revision") => fixes <= T + P
  /\ Revised => fixes <= T + B
  /\ pc = "review" => (reviews <= T /\ reviews <= L)
  /\ Parsing("verdict") => (reviews <= T + P /\ reviews <= L + P)
  /\ Judged => (reviews <= T + B)
  /\ fixes <= F /\ reviews <= M
  BY <1>now, <1>sizes DEF CallInv
<1>small. 0 * B = 0 /\ (0 + 1) * B = B /\ 1 * B = B
  BY <1>sizes
<1>ticked.
  /\ UNCHANGED ticks => ticks' * B = T /\ (ticks' + 1) * B = T + B
  /\ ticks' = ticks + 1 => ticks' * B = T + B
  BY <1>still, <1>more, <1>constant
<1> HIDE DEF B, P, T, M, L, F
<1> USE <1>sizes, <1>goal, <1>part, <1>before, <1>small, <1>ticked, ReviewFixLoopAssumption
    DEF TypeOK, Parsing, Landed, Revised, Judged, Looping, columns, repair, calls, ghosts, InRun, OutOfRun
<1>1. CASE Begin
  BY <1>1 DEF Begin, Go
<1>2. CASE Misparses
  BY <1>2 DEF Misparses, Go
<1>3. CASE ReEmit
  <2>0. pc = "reEmit" /\ UNCHANGED <<job, ticks>>
        /\ (job = "verdict" => reviews' = reviews + 1 /\ fixes' = fixes)
        /\ (job # "verdict" => fixes' = fixes + 1 /\ reviews' = reviews)
    BY <1>3 DEF ReEmit, Go, CountCall
  <2>1. CASE pc' = "parse"
    <3>1. PICK q \in Nat : q = Part' /\ q >= P + 1 /\ q <= B
      BY <1>part, <1>3, <2>1
    <3>2. q = Part'
      BY <3>1
    <3>3. q >= P + 1 /\ q <= B
      BY <3>1
    <3>4. ticks' = ticks /\ job' = job /\ fixes \in Nat /\ reviews \in Nat
      BY <2>0
    <3>5. T = ticks' * B /\ T + B = (ticks' + 1) * B
      BY <1>ticked, <3>4
    <3> HIDE <1>ticked, <3>1
    <3>6. CASE job = "answer"
      <4>1. fixes <= P /\ fixes' = fixes + 1 /\ reviews' = reviews /\ ticks = 0 /\ reviews = 0
        BY <2>0, <3>6
      <4>2. fixes' <= q /\ fixes' <= F
        BY ONLY <1>sizes, <3>3, <3>4, <4>1, q \in Nat
      <4>3. fixes' <= Part'
        BY <4>2, <3>2
      <4> QED BY <2>0, <2>1, <3>4, <3>6, <4>1, <4>2, <4>3
    <3>7. CASE job = "verdict"
      <4>1. /\ fixes' = fixes /\ fixes <= T /\ fixes <= F
            /\ reviews' = reviews + 1 /\ reviews <= T + P /\ reviews <= L + P
            /\ ticks <= 1 \/ ticks < MaxRoundsPerTick
        BY <2>0, <3>7
      <4>2. fixes' <= T /\ fixes' <= F /\ reviews' <= T + q /\ reviews' <= L + q /\ reviews' <= M
        BY ONLY <1>sizes, <3>3, <3>4, <4>1, q \in Nat
      <4>3. reviews' <= T + Part' /\ reviews' <= L + Part'
        BY <4>2, <3>2
      <4> QED BY <2>0, <2>1, <3>4, <3>5, <3>7, <4>1, <4>2, <4>3
    <3>8. CASE job = "revision"
      <4>1. /\ fixes' = fixes + 1 /\ fixes <= T + P /\ T + B <= F
            /\ reviews' = reviews /\ reviews <= T + B /\ reviews <= M
            /\ ticks <= 1 \/ ticks < MaxRoundsPerTick
        BY <2>0, <3>8
      <4>2. fixes' <= T + q /\ fixes' <= F /\ reviews' <= T + B /\ reviews' <= M
        BY ONLY <1>sizes, <3>3, <3>4, <4>1, q \in Nat
      <4>3. fixes' <= T + Part'
        BY <4>2, <3>2
      <4> QED BY <2>0, <2>1, <3>4, <3>5, <3>8, <4>1, <4>2, <4>3
    <3> QED BY <3>6, <3>7, <3>8
  <2>2. CASE pc' = "reEmit"
    <3>0. attempt' >= 1
      BY <1>3, <2>0 DEF ReEmit
    <3>1. PICK q \in Nat : q = Part' /\ q >= P + 1 /\ q <= B
      BY <1>part, <1>3, <2>2
    <3>2. q = Part'
      BY <3>1
    <3>3. q >= P + 1 /\ q <= B
      BY <3>1
    <3>4. ticks' = ticks /\ job' = job /\ fixes \in Nat /\ reviews \in Nat
      BY <2>0
    <3>5. T = ticks' * B /\ T + B = (ticks' + 1) * B
      BY <1>ticked, <3>4
    <3> HIDE <1>ticked, <3>1
    <3>6. CASE job = "answer"
      <4>1. fixes <= P /\ fixes' = fixes + 1 /\ reviews' = reviews /\ ticks = 0 /\ reviews = 0
        BY <2>0, <3>6
      <4>2. fixes' <= q /\ fixes' <= F
        BY ONLY <1>sizes, <3>3, <3>4, <4>1, q \in Nat
      <4>3. fixes' <= Part'
        BY <4>2, <3>2
      <4> QED BY <2>0, <2>2, <3>0, <3>4, <3>6, <4>1, <4>2, <4>3
    <3>7. CASE job = "verdict"
      <4>1. /\ fixes' = fixes /\ fixes <= T /\ fixes <= F
            /\ reviews' = reviews + 1 /\ reviews <= T + P /\ reviews <= L + P
            /\ ticks <= 1 \/ ticks < MaxRoundsPerTick
        BY <2>0, <3>7
      <4>2. fixes' <= T /\ fixes' <= F /\ reviews' <= T + q /\ reviews' <= L + q /\ reviews' <= M
        BY ONLY <1>sizes, <3>3, <3>4, <4>1, q \in Nat
      <4>3. reviews' <= T + Part' /\ reviews' <= L + Part'
        BY <4>2, <3>2
      <4> QED BY <2>0, <2>2, <3>0, <3>4, <3>5, <3>7, <4>1, <4>2, <4>3
    <3>8. CASE job = "revision"
      <4>1. /\ fixes' = fixes + 1 /\ fixes <= T + P /\ T + B <= F
            /\ reviews' = reviews /\ reviews <= T + B /\ reviews <= M
            /\ ticks <= 1 \/ ticks < MaxRoundsPerTick
        BY <2>0, <3>8
      <4>2. fixes' <= T + q /\ fixes' <= F /\ reviews' <= T + B /\ reviews' <= M
        BY ONLY <1>sizes, <3>3, <3>4, <4>1, q \in Nat
      <4>3. fixes' <= T + Part'
        BY <4>2, <3>2
      <4> QED BY <2>0, <2>2, <3>0, <3>4, <3>5, <3>8, <4>1, <4>2, <4>3
    <3> QED BY <3>6, <3>7, <3>8
  <2>3. CASE pc' = "broken"
    BY <1>3, <2>0, <2>3
  <2> QED BY <1>3, <2>1, <2>2, <2>3 DEF ReEmit, Go
<1>4. CASE FixParses
  BY <1>4 DEF FixParses, Go
<1>5. CASE Persist
  BY <1>5 DEF Persist, Go, AnswerInv
<1>6. CASE ClearHumanAnswer
  <2>0. pc = "clear" /\ UNCHANGED <<calls, repair>> /\ ticks = 0 /\ reviews = 0
    BY <1>6 DEF ClearHumanAnswer, Returns, Go
  <2>1. CASE pc' = "returned"
    BY <2>0, <2>1
  <2>2. CASE pc' = "review" /\ ticks' = ticks + 1
    BY <2>0, <2>2
  <2> QED BY <1>6, <2>1, <2>2 DEF ClearHumanAnswer, Returns, Go
<1>7. CASE SetRound
  BY <1>7 DEF SetRound, Go
<1>8. CASE CloseBreaker
  <2>0. pc = "closeBreaker" /\ UNCHANGED <<calls, repair>> /\ round < MaxRounds
    BY <1>8 DEF CloseBreaker, Returns, Go, RoundInv
  <2>1. CASE pc' = "returned"
    BY <2>0, <2>1
  <2>2. CASE pc' = "review" /\ ticks' = ticks + 1 /\ ticks + 1 < MaxRoundsPerTick
    BY <2>0, <2>2
  <2> QED BY <1>8, <2>0, <2>1, <2>2 DEF CloseBreaker, Returns, Go
<1>9. CASE Review
  BY <1>9 DEF Review, Returns, Go
<1>10. CASE Clean
  BY <1>10 DEF Clean, Returns, Go
<1>11. CASE ChangesRequested
  BY <1>11 DEF ChangesRequested, Returns, Go
<1>12. CASE Conclude
  BY <1>12 DEF Conclude, Go
<1>13. CASE AutoRetry
  BY <1>13 DEF AutoRetry, Go
<1>14. CASE ManualRetry
  BY <1>14 DEF ManualRetry, Go
<1>15. CASE SubmitAnswers
  BY <1>15 DEF SubmitAnswers, Go
<1>16. CASE Crash
  BY <1>16 DEF Crash
<1>17. ASSUME NEW from \in {"fixFirst", "revise"}, FixFails(from) PROVE CallInv'
  BY <1>17 DEF FixFails, Fix, Returns, Go
<1>18. ASSUME NEW from \in {"fixFirst", "revise"}, FixThrows(from) PROVE CallInv'
  BY <1>18 DEF FixThrows, Fix
<1>19. ASSUME NEW from \in {"fixFirst", "revise"}, FixReplies(from) PROVE CallInv'
  BY <1>19 DEF FixReplies, Fix
<1>20. CASE UNCHANGED vars
  <2>1. Part' = P /\ UNCHANGED <<pc, calls, repair, ticks>> BY <1>20 DEF vars, Part, P
  <2> QED BY <2>1
<1>21. QED
  BY <1>1, <1>2, <1>3, <1>4, <1>5, <1>6, <1>7, <1>8, <1>9, <1>10, <1>11, <1>12, <1>13, <1>14, <1>15, <1>16, <1>17, <1>18, <1>19, <1>20 DEF Next, Run

(* A run calls its drivers at most one block of repairs and repeated calls *)
(* per round of a tick, whatever the limits are: what lockMaxHoldSec takes *)
(* a lock's hold to be made of.                                            *)
THEOREM CallsAreBounded == Spec => []CallsBounded
<1>1. ASSUME Init
      PROVE  CallInv
  <2>1. Block \in Nat /\ FixBlocks \in Nat /\ FixBlocks * Block \in Nat
        /\ MaxRoundsPerTick * Block \in Nat
    <3>1. MaxRepairs * (1 + ReEmitRetries) \in Nat
      BY ReviewFixLoopAssumption
    <3>2. Block \in Nat /\ FixBlocks \in Nat /\ MaxRoundsPerTick \in Nat
      BY <3>1, ReviewFixLoopAssumption DEF Block, FixBlocks
    <3> QED BY <3>2
  <2>2. CallsBounded
    <3>1. 0 <= FixBlocks * Block /\ 0 <= MaxRoundsPerTick * Block
      BY <2>1
    <3> QED BY <1>1, <3>1 DEF Init, CallsBounded, FixBlocks, Block
  <2> QED BY <1>1, <2>2 DEF Init, CallInv, Parsing, Landed, Revised, Judged, Looping
<1>2. ASSUME IInv, IInv', CallInv, [Next]_vars
      PROVE  CallInv'
  BY <1>2, CallStep DEF IInv
<1>3. CallInv => CallsBounded
  BY DEF CallInv
<1> QED BY <1>1, <1>2, <1>3, Inductive, PTL DEF Spec

-----------------------------------------------------------------------------
(* Every step of the engine is a step of its contract, or none. *)
THEOREM ImplementsRounds == Spec => RefinesRounds
<1>1. Init => R!Init
  BY DEF Init, R!Init, At, OutOfRun
<1>2. ASSUME IInv, [Next]_vars
      PROVE  [R!Next]_<<answer, At>>
  <2> USE <1>2 DEF IInv, TypeOK, AnswerInv, Applying, InRun, OutOfRun, Outcomes, At,
                   R!Next, R!Enter, R!LandAnswer, R!Return, R!Leave, R!Submit, R!Outcomes, columns
  <2>1. CASE Begin
    BY <2>1 DEF Begin, Go
  <2>2. CASE Misparses
    BY <2>2 DEF Misparses, Go
  <2>3. CASE ReEmit
    BY <2>3 DEF ReEmit, Go, CountCall
  <2>4. CASE FixParses
    BY <2>4 DEF FixParses, Go
  <2>5. CASE Persist
    BY <2>5 DEF Persist, Go
  <2>6. CASE ClearHumanAnswer
    BY <2>6 DEF ClearHumanAnswer, Returns, Go
  <2>7. CASE SetRound
    BY <2>7 DEF SetRound, Go
  <2>8. CASE CloseBreaker
    BY <2>8 DEF CloseBreaker, Returns, Go
  <2>9. CASE Review
    BY <2>9 DEF Review, Returns, Go
  <2>10. CASE Clean
    BY <2>10 DEF Clean, Returns, Go
  <2>11. CASE ChangesRequested
    BY <2>11 DEF ChangesRequested, Returns, Go
  <2>12. CASE Conclude
    BY <2>12 DEF Conclude, Go
  <2>13. CASE AutoRetry
    BY <2>13 DEF AutoRetry, Go
  <2>14. CASE ManualRetry
    BY <2>14 DEF ManualRetry, Go
  <2>15. CASE SubmitAnswers
    BY <2>15 DEF SubmitAnswers, Go
  <2>16. CASE Crash
    BY <2>16 DEF Crash
  <2>17. ASSUME NEW from \in {"fixFirst", "revise"}, FixFails(from)
        PROVE  [R!Next]_<<answer, At>>
    BY <2>17 DEF FixFails, Fix, Returns, Go
  <2>18. ASSUME NEW from \in {"fixFirst", "revise"}, FixThrows(from)
        PROVE  [R!Next]_<<answer, At>>
    BY <2>18 DEF FixThrows, Fix
  <2>19. ASSUME NEW from \in {"fixFirst", "revise"}, FixReplies(from)
        PROVE  [R!Next]_<<answer, At>>
    BY <2>19 DEF FixReplies, Fix
  <2>20. CASE UNCHANGED vars
    BY <2>20 DEF vars
  <2>21. QED
    BY <2>1, <2>2, <2>3, <2>4, <2>5, <2>6, <2>7, <2>8, <2>9, <2>10, <2>11, <2>12, <2>13, <2>14, <2>15, <2>16, <2>17, <2>18, <2>19, <2>20 DEF Next, Run
<1>3. QED
  BY <1>1, <1>2, Inductive, PTL DEF Spec, RefinesRounds, R!Spec
=============================================================================

--------------------------- MODULE PipelineProofs ---------------------------
(***************************************************************************)
(* The type correctness and the safety properties of module Pipeline, for  *)
(* any number of legs, any caps on rounds, retries, reclaims and pauses,   *)
(* any number of crashes and any autonomy level.                           *)
(*                                                                         *)
(* Each part of TypeOK is inductive by itself, so each has its own lemma,  *)
(* which takes the actions in the order of Next.  One more inductive       *)
(* invariant carries the rest.  Its parts say where the worker can be in   *)
(* which state (Placed), what each state has behind it (ThreadInv,         *)
(* TreeInv, OwedInv), and how a session that keeps dying is counted        *)
(* (DeadInv, DeathInv).                                                    *)
(***************************************************************************)
EXTENDS PipelineProperties, TLAPS

USE DEF Move, Stay, Go

\* the domain of the transition table, spelled out
LEMMA StateSet ==
  STATES = {"INTAKE", "GATE_A_RUNNING", "AWAITING_PM_CONFIRM", "GATE_A_REVISION_REQUESTED",
    "GATE_A_ADVERSARIAL", "GATE_A_STALLED", "CONFIRMED", "GATE_B_REQUESTED", "GATE_B_RUNNING",
    "ADVERSARIAL_LOOP", "AWAITING_GATE_B_INPUT", "GATE_B_REVISION_REQUESTED", "GATE_B_STALLED",
    "AWAITING_GO", "WRITING", "DONE", "GATE_C_REQUESTED", "GATE_C_RUNNING", "GATE_C_LOOP",
    "AWAITING_GATE_C_INPUT", "GATE_C_REVISION_REQUESTED", "GATE_C_STALLED", "AWAITING_GATE_D",
    "GATE_D_REQUESTED", "GATE_D_LOOP", "AWAITING_GATE_D_INPUT", "GATE_D_REVISION_REQUESTED",
    "GATE_D_HARDENING", "GATE_D_STALLED", "AWAITING_HUMAN_MERGE", "SHIPPED", "GATE_A_FAILED",
    "GATE_B_FAILED", "GATE_C_FAILED", "GATE_D_FAILED", "GO_DENIED", "WRITE_FAILED"}
  BY DEF STATES, ALLOWED

\* the tables of gates name states of the session
LEMMA Targets ==
  /\ \A g \in Gates : {Loop[g], Revision[g], Failed[g], Stalled[g]} \subseteq STATES
  /\ \A g \in Gates \ {"A"} : Input[g] \in STATES
  BY StateSet DEF Gates, Loop, Revision, Failed, Stalled, Input

\* a retry and a reclaim put the session back into a state there is
LEMMA RetryTargets ==
  /\ state \in FAILED_STATES => RetryTarget \in STATES
  /\ state \in STATES => ReclaimTarget \in STATES
  BY StateSet DEF RetryTarget, ReclaimTarget, FAILED_STATES, Gates, Loop, Revision, Failed

\* every step leaves the session in a state and the worker at a point there is
LEMMA ControlStep == ASSUME ControlOK, [Next]_vars PROVE ControlOK'
<1> USE StateSet DEF ControlOK, Points, Guarded, gateB, work, row
<1>1. CASE Step
  <2>1. CASE StepIntake \/ StepRevisionA \/ StepGateB \/ StepSetup \/ StepOpenPr \/ StepHarden
    BY <2>1 DEF StepIntake, StepRevisionA, StepGateB, StepSetup, StepOpenPr, StepHarden, Start
  <2>2. ASSUME NEW g \in Gates, StepLoop(g) \/ StepRevision(g) PROVE ControlOK'
    BY <2>2, Targets DEF StepLoop, StepRevision, Start, Entry
  <2> QED BY <1>1, <2>1, <2>2 DEF Step
<1>2. CASE afterGateA \/ runGateA \/ runGateARevision
  BY <1>2 DEF afterGateA, ReviewResolved, ReviewOpen, runGateA, runGateARevision
<1>3. CASE Prepare
  BY <1>3 DEF Prepare, runGateB, runGateCSetup, openReviewPr, EnterLoopB, EnterLoopC,
         EnterLoopD, Loop
<1>4. CASE Engine
  BY <1>4 DEF Engine, recoverPendingRollback, LandAnswer, Review, LoopReturns
<1>5. CASE afterLoop
  <2>1. ASSUME NEW g \in Gates, LoopStalled(g) PROVE ControlOK'
    BY <2>1, Targets DEF LoopStalled
  <2>2. ASSUME NEW g \in Gates, LoopNeedsHuman(g) PROVE ControlOK'
    BY <2>2, Targets DEF LoopNeedsHuman
  <2>3. CASE LoopPaused \/ ReopenQuestions \/ AutoConfirm \/ DesignPassed
    BY <2>3 DEF LoopPaused, ReopenQuestions, AutoConfirm, DesignPassed
  <2>4. CASE NextLegGreen \/ AllLegsGreen \/ PinGreen
    BY <2>4 DEF NextLegGreen, AllLegsGreen, PinGreen
  <2> QED BY <1>5, <2>1, <2>2, <2>3, <2>4 DEF afterLoop
<1>6. CASE Harden
  BY <1>6 DEF Harden, HardenAgain, Repush, HardenGreen, NextLegHardened, ReviewNextLeg, MergeReady
<1>7. CASE parkFailure
  <2>1. ASSUME NEW g \in Gates, ScheduleRetry(g) \/ Park(g) PROVE ControlOK'
    <3>1. state' = Failed[g] /\ mover' = "worker" /\ at' \in {"idle", "alarm"}
      BY <2>1 DEF ScheduleRetry, Park
    <3>2. UNCHANGED <<writer, thread>>
      BY <2>1 DEF ScheduleRetry, Park, Throws
    <3> QED BY <3>1, <3>2, Targets
  <2> QED BY <1>7, <2>1 DEF parkFailure
<1>8. CASE Finish \/ remindStuck
  BY <1>8 DEF Finish, Notify, clearRetry, remindStuck
<1>9. CASE AutoRetry
  BY <1>9, RetryTargets DEF AutoRetry, planRetry
<1>10. CASE reclaimOrphans
  BY <1>10, Targets, RetryTargets DEF reclaimOrphans, ReclaimBack, reclaimOne
<1>11. CASE applyAutonomy
  BY <1>11 DEF applyAutonomy, AutoGo, StartWriting, requestGateB, requestGateC,
         requestReviewPr, Act
<1>12. CASE HumanAction
  <2>1. ASSUME NEW g \in Gates, submitAnswers(g) PROVE ControlOK'
    BY <2>1, Targets DEF submitAnswers
  <2>2. CASE retry
    BY <2>2, RetryTargets DEF retry, planRetry
  <2>3. CASE submitPmAnswers
    BY <2>3, Targets DEF submitPmAnswers, Gates
  <2>4. CASE requestGateB("human")
    BY <2>4 DEF requestGateB
  <2>5. CASE confirm \/ forceGateBGo \/ requestGateC("human") \/ requestReviewPr("human")
           \/ deny \/ ackMerged
    BY <2>5 DEF confirm, forceGateBGo, requestGateC, requestReviewPr, deny, ackMerged, Human, Act
  <2> QED BY <1>12, <2>1, <2>2, <2>3, <2>4, <2>5 DEF HumanAction
<1>13. CASE go \/ ReopenDenied \/ Writer
  BY <1>13 DEF go, StartWriting, ReopenDenied, Writer, WriteReopened, WritesEnd, WriterTells
<1>14. CASE Crash \/ WriterDies
  BY <1>14 DEF Crash, WriterDies
<1>15. CASE UNCHANGED vars
  BY <1>15 DEF vars
<1> QED
  BY <1>1, <1>2, <1>3, <1>4, <1>5, <1>6, <1>7, <1>8, <1>9, <1>10, <1>11, <1>12,
     <1>13, <1>14, <1>15 DEF Next, Worker

\* pointing the session at a leg gives it a fresh loop state ...
LEMMA Activated ==
  ASSUME NEW l, activateLeg(l)
  PROVE  rollback' = FALSE /\ green' = FALSE /\ hardening' = FALSE /\ verified' = FALSE
  BY DEF activateLeg

\* ... and a fresh budget of pauses
LEMMA LegPointed ==
  ASSUME NEW l, activateLeg(l)
  PROVE  leg' = l /\ pauses' = 0
  BY DEF activateLeg

\* every step keeps the flags of the row Boolean
LEMMA FlagsStep == ASSUME FlagsOK, [Next]_vars PROVE FlagsOK'
<1> USE Activated DEF FlagsOK, row, book, work, gateA, gateB, tree
<1>1. CASE Step
  <2>1. CASE StepIntake \/ StepRevisionA \/ StepGateB \/ StepSetup \/ StepOpenPr \/ StepHarden
    BY <2>1 DEF StepIntake, StepRevisionA, StepGateB, StepSetup, StepOpenPr, StepHarden, Start
  <2>2. ASSUME NEW g \in Gates, StepLoop(g) PROVE FlagsOK'
    BY <2>2 DEF StepLoop, Start
  <2>3. ASSUME NEW g \in Gates, StepRevision(g) PROVE FlagsOK'
    BY <2>3 DEF StepRevision
  <2> QED BY <1>1, <2>1, <2>2, <2>3 DEF Step
<1>2. CASE afterGateA \/ runGateA \/ runGateARevision
  <2>1. CASE ReviewResolved \/ ReviewOpen
    BY <2>1 DEF ReviewResolved, ReviewOpen
  <2>2. CASE runGateA
    BY <2>2 DEF runGateA
  <2>3. CASE runGateARevision
    BY <2>3 DEF runGateARevision
  <2> QED BY <1>2, <2>1, <2>2, <2>3 DEF afterGateA
<1>3. CASE Prepare
  <2>1. CASE runGateB
    BY <2>1 DEF runGateB
  <2>2. CASE runGateCSetup
    BY <2>2 DEF runGateCSetup
  <2>3. CASE openReviewPr
    BY <2>3 DEF openReviewPr
  <2>4. CASE EnterLoopB \/ EnterLoopC
    BY <2>4 DEF EnterLoopB, EnterLoopC
  <2>5. CASE EnterLoopD
    BY <2>5 DEF EnterLoopD
  <2> QED BY <1>3, <2>1, <2>2, <2>3, <2>4, <2>5 DEF Prepare
<1>4. CASE Engine
  <2>1. CASE recoverPendingRollback
    BY <2>1 DEF recoverPendingRollback
  <2>2. ASSUME NEW g \in Gates, LandAnswer(g) PROVE FlagsOK'
    BY <2>2 DEF LandAnswer
  <2>4. ASSUME NEW g \in Gates, Review(g) PROVE FlagsOK'
    <3>1. openQ' \in BOOLEAN
      BY <2>4 DEF Review, FlagsOK
    <3>2. begun' \in BOOLEAN
      BY <2>4 DEF Review, FlagsOK, gateB
    <3>3. UNCHANGED <<told, book, adv, tree>>
      BY <2>4 DEF Review
    <3> QED BY <3>1, <3>2, <3>3 DEF FlagsOK, book, tree
  <2>3. ASSUME NEW g \in Gates, LoopReturns(g) PROVE FlagsOK'
    BY <2>3 DEF LoopReturns
  <2> QED BY <1>4, <2>1, <2>2, <2>3, <2>4 DEF Engine
<1>5. CASE afterLoop
  <2>1. ASSUME NEW g \in Gates, LoopStalled(g) \/ LoopNeedsHuman(g) PROVE FlagsOK'
    BY <2>1 DEF LoopStalled, LoopNeedsHuman
  <2>2. CASE LoopPaused \/ AutoConfirm \/ DesignPassed \/ AllLegsGreen
    BY <2>2 DEF LoopPaused, AutoConfirm, DesignPassed, AllLegsGreen
  <2>3. CASE ReopenQuestions
    BY <2>3 DEF ReopenQuestions
  <2>4. CASE NextLegGreen
    BY <2>4 DEF NextLegGreen
  <2>5. CASE PinGreen
    BY <2>5 DEF PinGreen
  <2> QED BY <1>5, <2>1, <2>2, <2>3, <2>4, <2>5 DEF afterLoop
<1>6. CASE Harden
  BY <1>6 DEF Harden, HardenAgain, Repush, HardenGreen, NextLegHardened, ReviewNextLeg, MergeReady
<1>7. CASE parkFailure
  <2>0. ASSUME NEW g \in Gates, Throws(g) PROVE rollback' \in BOOLEAN
    BY <2>0 DEF Throws
  <2>1. ASSUME NEW g \in Gates, ScheduleRetry(g) PROVE FlagsOK'
    <3>1. rollback' \in BOOLEAN
      BY <2>1, <2>0 DEF ScheduleRetry
    <3>2. told' = FALSE /\ due' = TRUE /\ UNCHANGED <<dead, gateA, gateB, worktree, pr, green,
                                                       hardening, verified>>
      BY <2>1 DEF ScheduleRetry, Throws
    <3> QED BY <3>1, <3>2 DEF FlagsOK, gateA, gateB
  <2>2. ASSUME NEW g \in Gates, Park(g) PROVE FlagsOK'
    <3>1. rollback' \in BOOLEAN
      BY <2>2, <2>0 DEF Park
    <3>2. told' = FALSE /\ due' = FALSE /\ UNCHANGED <<gateA, gateB, worktree, pr, green,
                                                        hardening, verified>>
      BY <2>2 DEF Park, Throws
    <3>3. dead' = dead \/ dead' = TRUE
      BY <2>2 DEF Park
    <3> QED BY <3>1, <3>2, <3>3 DEF FlagsOK, gateA, gateB
  <2> QED BY <1>7, <2>1, <2>2 DEF parkFailure
<1>8. CASE Finish \/ remindStuck
  <2>1. CASE Notify("tell", "settle") \/ Notify("alarm", "idle")
    <3>1. told' \in BOOLEAN
      BY <2>1 DEF Notify
    <3> QED BY <2>1, <3>1 DEF Notify
  <2>2. CASE clearRetry("settle", "idle") \/ clearRetry("settleTell", "alarm")
    BY <2>2 DEF clearRetry
  <2>3. CASE remindStuck
    BY <2>3 DEF remindStuck
  <2> QED BY <1>8, <2>1, <2>2, <2>3 DEF Finish
<1>9. CASE AutoRetry
  BY <1>9 DEF AutoRetry, planRetry
<1>10. CASE reclaimOrphans
  BY <1>10 DEF reclaimOrphans, ReclaimBack, reclaimOne, Orphan
<1>11. CASE applyAutonomy
  BY <1>11 DEF applyAutonomy, AutoGo, StartWriting, requestGateB, requestGateC,
         requestReviewPr, Act
<1>12. CASE HumanAction
  <2>1. CASE submitPmAnswers
    BY <2>1 DEF submitPmAnswers
  <2>2. ASSUME NEW g \in Gates, submitAnswers(g) PROVE FlagsOK'
    BY <2>2 DEF submitAnswers
  <2>3. CASE confirm \/ forceGateBGo \/ deny \/ ackMerged
    BY <2>3 DEF confirm, forceGateBGo, deny, ackMerged, Human, Act
  <2>4. CASE requestGateB("human")
    BY <2>4 DEF requestGateB
  <2>5. CASE requestGateC("human") \/ requestReviewPr("human")
    BY <2>5 DEF requestGateC, requestReviewPr, Act
  <2>6. CASE retry
    BY <2>6 DEF retry, planRetry
  <2> QED BY <1>12, <2>1, <2>2, <2>3, <2>4, <2>5, <2>6 DEF HumanAction
<1>13. CASE go \/ ReopenDenied \/ Writer
  <2>1. CASE go
    BY <2>1 DEF go, StartWriting
  <2>2. CASE ReopenDenied
    BY <2>2 DEF ReopenDenied
  <2>3. CASE WriteReopened
    BY <2>3 DEF WriteReopened
  <2>4. CASE WritesEnd
    BY <2>4 DEF WritesEnd
  <2>5. CASE WriterTells
    BY <2>5 DEF WriterTells
  <2> QED BY <1>13, <2>1, <2>2, <2>3, <2>4, <2>5 DEF Writer
<1>14. CASE Crash \/ WriterDies
  BY <1>14 DEF Crash, WriterDies
<1>15. CASE UNCHANGED vars
  BY <1>15 DEF vars
<1> QED
  BY <1>1, <1>2, <1>3, <1>4, <1>5, <1>6, <1>7, <1>8, <1>9, <1>10, <1>11, <1>12,
     <1>13, <1>14, <1>15 DEF Next, Worker

\* every step keeps the counters of the row within their caps
LEMMA CountersStep == ASSUME CountersOK, [Next]_vars PROVE CountersOK'
<1> USE PipelineAssumption, LegPointed
    DEF PipelineAssumption, CountersOK, row, book, work, gateA, tree, ghosts
<1>1. CASE Step
  BY <1>1 DEF Step, StepIntake, StepRevisionA, StepGateB, StepSetup, StepOpenPr, StepHarden,
         StepLoop, StepRevision, Start
<1>2. CASE afterGateA \/ runGateA \/ runGateARevision
  BY <1>2 DEF afterGateA, ReviewResolved, ReviewOpen, runGateA, runGateARevision
<1>3. CASE Prepare
  <2>1. CASE runGateB
    BY <2>1 DEF runGateB
  <2>2. CASE runGateCSetup
    BY <2>2 DEF runGateCSetup
  <2>3. CASE openReviewPr
    BY <2>3 DEF openReviewPr
  <2>4. CASE EnterLoopB \/ EnterLoopC
    BY <2>4 DEF EnterLoopB, EnterLoopC
  <2>5. CASE EnterLoopD
    BY <2>5 DEF EnterLoopD
  <2> QED BY <1>3, <2>1, <2>2, <2>3, <2>4, <2>5 DEF Prepare
<1>4. CASE Engine
  <2>1. CASE recoverPendingRollback
    BY <2>1 DEF recoverPendingRollback
  <2>2. ASSUME NEW g \in Gates, LandAnswer(g) \/ Review(g) PROVE CountersOK'
    BY <2>2 DEF LandAnswer, Review
  <2>3. ASSUME NEW g \in Gates, LoopReturns(g) PROVE CountersOK'
    BY <2>3 DEF LoopReturns
  <2> QED BY <1>4, <2>1, <2>2, <2>3 DEF Engine
<1>5. CASE afterLoop
  <2>1. ASSUME NEW g \in Gates, LoopStalled(g) \/ LoopNeedsHuman(g) PROVE CountersOK'
    BY <2>1 DEF LoopStalled, LoopNeedsHuman
  <2>2. CASE LoopPaused \/ AutoConfirm \/ DesignPassed \/ AllLegsGreen
    BY <2>2 DEF LoopPaused, AutoConfirm, DesignPassed, AllLegsGreen
  <2>3. CASE ReopenQuestions
    BY <2>3 DEF ReopenQuestions
  <2>4. CASE NextLegGreen
    BY <2>4 DEF NextLegGreen
  <2>5. CASE PinGreen
    BY <2>5 DEF PinGreen
  <2> QED BY <1>5, <2>1, <2>2, <2>3, <2>4, <2>5 DEF afterLoop
<1>6. CASE Harden
  <2>1. CASE HardenAgain \/ Repush \/ HardenGreen
    BY <2>1 DEF HardenAgain, Repush, HardenGreen
  <2>2. CASE NextLegHardened
    BY <2>2 DEF NextLegHardened
  <2>3. CASE ReviewNextLeg \/ MergeReady
    BY <2>3 DEF ReviewNextLeg, MergeReady
  <2> QED BY <1>6, <2>1, <2>2, <2>3 DEF Harden
<1>7. CASE parkFailure
  <2>1. ASSUME NEW g \in Gates, ScheduleRetry(g) PROVE CountersOK'
    BY <2>1 DEF ScheduleRetry, Throws
  <2>2. ASSUME NEW g \in Gates, Park(g) PROVE CountersOK'
    BY <2>2 DEF Park, Throws
  <2> QED BY <1>7, <2>1, <2>2 DEF parkFailure
<1>8. CASE Finish \/ remindStuck
  BY <1>8 DEF Finish, Notify, clearRetry, remindStuck
<1>9. CASE AutoRetry
  BY <1>9 DEF AutoRetry, planRetry
<1>10. CASE reclaimOrphans
  BY <1>10 DEF reclaimOrphans, ReclaimBack, reclaimOne, Orphan
<1>11. CASE applyAutonomy
  BY <1>11 DEF applyAutonomy, AutoGo, StartWriting, requestGateB, requestGateC,
         requestReviewPr, Act
<1>12. CASE HumanAction
  BY <1>12 DEF HumanAction, submitPmAnswers, submitAnswers, confirm, forceGateBGo, requestGateB,
         requestGateC, requestReviewPr, deny, ackMerged, Human, Act, retry, planRetry
<1>13. CASE go \/ ReopenDenied \/ Writer
  BY <1>13 DEF go, StartWriting, ReopenDenied, Writer, WriteReopened, WritesEnd, WriterTells
<1>14. CASE Crash \/ WriterDies
  BY <1>14 DEF Crash, WriterDies
<1>15. CASE UNCHANGED vars
  BY <1>15 DEF vars
<1> QED
  BY <1>1, <1>2, <1>3, <1>4, <1>5, <1>6, <1>7, <1>8, <1>9, <1>10, <1>11, <1>12,
     <1>13, <1>14, <1>15 DEF Next, Worker

\* every step keeps an answer, or none, per gate
LEMMA AnswersStep == ASSUME AnswersOK, [Next]_vars PROVE AnswersOK'
<1> USE DEF AnswersOK, answers, work, row, activateLeg
<1>1. CASE Step
  BY <1>1 DEF Step, StepIntake, StepRevisionA, StepGateB, StepSetup, StepOpenPr, StepHarden,
         StepLoop, StepRevision, Start
<1>2. CASE afterGateA \/ runGateA \/ runGateARevision
  BY <1>2 DEF afterGateA, ReviewResolved, ReviewOpen, runGateA, runGateARevision
<1>3. CASE Prepare
  BY <1>3 DEF Prepare, runGateB, runGateCSetup, openReviewPr, EnterLoopB, EnterLoopC,
         EnterLoopD
<1>4. CASE Engine
  BY <1>4 DEF Engine, recoverPendingRollback, LandAnswer, Review, LoopReturns, InLoop
<1>5. CASE afterLoop
  BY <1>5 DEF afterLoop, LoopPaused, LoopStalled, LoopNeedsHuman, ReopenQuestions, AutoConfirm,
         DesignPassed, NextLegGreen, AllLegsGreen, PinGreen
<1>6. CASE Harden
  BY <1>6 DEF Harden, HardenAgain, Repush, HardenGreen, NextLegHardened, ReviewNextLeg, MergeReady
<1>7. CASE parkFailure
  BY <1>7 DEF parkFailure, ScheduleRetry, Park, Throws
<1>8. CASE Finish \/ remindStuck
  BY <1>8 DEF Finish, Notify, clearRetry, remindStuck
<1>9. CASE AutoRetry
  BY <1>9 DEF AutoRetry, planRetry
<1>10. CASE reclaimOrphans
  BY <1>10 DEF reclaimOrphans, ReclaimBack, reclaimOne, Orphan
<1>11. CASE applyAutonomy
  BY <1>11 DEF applyAutonomy, AutoGo, StartWriting, requestGateB, requestGateC,
         requestReviewPr, Act
<1>12. CASE HumanAction
  BY <1>12 DEF HumanAction, submitPmAnswers, submitAnswers, confirm, forceGateBGo, requestGateB,
         requestGateC, requestReviewPr, deny, ackMerged, Human, Act, retry, planRetry
<1>13. CASE go \/ ReopenDenied \/ Writer
  BY <1>13 DEF go, StartWriting, ReopenDenied, Writer, WriteReopened, WritesEnd, WriterTells
<1>14. CASE Crash \/ WriterDies
  BY <1>14 DEF Crash, WriterDies
<1>15. CASE UNCHANGED vars
  BY <1>15 DEF vars
<1> QED
  BY <1>1, <1>2, <1>3, <1>4, <1>5, <1>6, <1>7, <1>8, <1>9, <1>10, <1>11, <1>12,
     <1>13, <1>14, <1>15 DEF Next, Worker

\* a new session, a PRD or a bare issue
LEMMA InitTyped == Init => TypeOK
<1> SUFFICES ASSUME Init PROVE TypeOK
  OBVIOUS
<1> USE DEF Init
<1>1. ControlOK
  BY StateSet DEF ControlOK, Points
<1>2. FlagsOK
  BY DEF FlagsOK
<1>3. CountersOK
  BY PipelineAssumption DEF PipelineAssumption, CountersOK
<1>4. AnswersOK
  BY DEF AnswersOK
<1> QED BY <1>1, <1>2, <1>3, <1>4 DEF TypeOK

(***************************************************************************)
(* Type correctness: retry_count and reclaim_count never pass their caps,  *)
(* the leg pointer stays inside the legs, and every move of the worker, a  *)
(* retry, a reclaim, autonomy or a human ends in a state of the table.     *)
(***************************************************************************)
THEOREM TypeCorrect == Spec => []TypeOK
<1>1. TypeOK /\ [Next]_vars => TypeOK'
  BY ControlStep, FlagsStep, CountersStep, AnswersStep DEF TypeOK
<1> QED BY <1>1, InitTyped, PTL DEF Spec

-----------------------------------------------------------------------------
\* the worker's point in its step and the state of the session go together: no
\* human action moves a session the worker is stepping
Placed ==
  /\ at \in {"gateA", "revisionA", "judged"} => state = "GATE_A_RUNNING"
  /\ at \in {"gateB", "drafted"} => state = "GATE_B_RUNNING"
  /\ at \in {"setup", "treeReady"} => state = "GATE_C_RUNNING"
  /\ at \in {"openPr", "opened"} => state = "GATE_D_REQUESTED"
  /\ at = "recover" => state = "GATE_D_LOOP"
  /\ at \in {"loop", "resolved", "stalled", "paused"} =>
       state \in {"GATE_A_ADVERSARIAL", "ADVERSARIAL_LOOP", "GATE_C_LOOP", "GATE_D_LOOP"}
  /\ at = "needsHuman" => state \in {"ADVERSARIAL_LOOP", "GATE_C_LOOP", "GATE_D_LOOP"}
  /\ at \in {"harden", "hardening", "pushing", "switched"} => state = "GATE_D_HARDENING"
  /\ writer = "writing" => state = "WRITING"

\* no design has been drafted, or the first draft is being written
BeforeDesign == {"INTAKE", "GATE_A_RUNNING", "AWAITING_PM_CONFIRM", "GATE_A_REVISION_REQUESTED",
                 "GATE_A_ADVERSARIAL", "GATE_A_STALLED", "GATE_A_FAILED", "CONFIRMED",
                 "GATE_B_REQUESTED", "GATE_B_RUNNING"}
\* before the first draft there is no reviewer, the clean re-run included
ThreadInv ==
  /\ thread # "stale"
  /\ state \in BeforeDesign => thread = "none"
  /\ at = "reclaimed" /\ state = "GATE_B_FAILED" => thread = "none"

\* the states that have a pull request behind them
Reviewing == {"GATE_D_LOOP", "AWAITING_GATE_D_INPUT", "GATE_D_REVISION_REQUESTED", "GATE_D_STALLED",
             "GATE_D_HARDENING", "AWAITING_HUMAN_MERGE", "SHIPPED"}
\* the states that have a worktree behind them
Built == Reviewing \cup {"GATE_C_LOOP", "AWAITING_GATE_C_INPUT", "GATE_C_REVISION_REQUESTED",
           "GATE_C_STALLED", "AWAITING_GATE_D", "GATE_D_REQUESTED", "GATE_D_FAILED"}
\* a reset that was not confirmed keeps the tree out of the hands of the engine;
\* a push has its baseline and its verification; states have their tree and PR
TreeInv ==
  /\ rollback => /\ state \in {"GATE_D_FAILED", "GATE_D_LOOP", "GATE_D_REVISION_REQUESTED"}
              /\ at \in {"idle", "alarm", "recover"}
  /\ at \in {"hardening", "pushing"} => green
  /\ at = "pushing" => verified
  /\ state \in {"AWAITING_HUMAN_MERGE", "SHIPPED"} => green /\ verified /\ leg = NLegs
  /\ state \in Built \/ at = "treeReady" => worktree
  /\ state \in Reviewing \/ at = "opened" \/ rollback \/ hardening => pr

\* a dead letter is a failed session nothing is about to put back
DeadInv ==
  /\ dead => state \in FAILED_STATES
  /\ at = "reclaimed" => ~dead

\* a session in a RUNNING state that no worker runs
Orphaned == at = "idle" /\ state \in {"GATE_A_RUNNING", "GATE_B_RUNNING", "GATE_C_RUNNING"}

\* every death in a RUNNING state is followed by its reclaim, which is counted
DeathInv ==
  \/ dead /\ deaths["running"] <= MaxReclaims + 1
  \/ Orphaned /\ deaths["running"] <= reclaims + 1
  \/ deaths["running"] <= reclaims

\* an answer that is owed is still pending; a leg is switched only when none is owed
OwedInv ==
  /\ \A g \in {"A", "C", "D"} : owed[g] => pending[g] # "none"
  /\ BlankAnswers \/ pending["A"] # "blank"
  /\ owed["C"] => state \in {"GATE_C_LOOP", "AWAITING_GATE_C_INPUT", "GATE_C_REVISION_REQUESTED",
                             "GATE_C_STALLED", "GATE_C_FAILED"} /\ worktree
  /\ owed["D"] => state \in {"GATE_D_LOOP", "AWAITING_GATE_D_INPUT", "GATE_D_REVISION_REQUESTED",
                             "GATE_D_STALLED", "GATE_D_FAILED"} /\ pr
  /\ at = "resolved" /\ state = "GATE_C_LOOP" => ~owed["C"]
  /\ at = "resolved" /\ state = "GATE_D_LOOP" => ~owed["D"]
  /\ hardening => state \in {"GATE_D_HARDENING", "GATE_D_FAILED", "AWAITING_HUMAN_MERGE", "SHIPPED"}
  /\ hardening => ~owed["D"] /\ ~rollback
  /\ at = "switched" => ~hardening

\* the inductive invariant
IInv == TypeOK /\ Placed /\ ThreadInv /\ TreeInv /\ DeadInv /\ DeathInv /\ OwedInv

\* the points of the worker and the states stay together
LEMMA PlacedStep == ASSUME Placed, [Next]_vars PROVE Placed'
<1> USE DEF Placed, Gates, Loop, row
<1>1. CASE Step
  BY <1>1 DEF Step, StepIntake, StepRevisionA, StepGateB, StepSetup, StepOpenPr, StepHarden,
         StepLoop, StepRevision, Start, Entry, Revision
<1>2. CASE afterGateA \/ runGateA \/ runGateARevision
  BY <1>2 DEF afterGateA, ReviewResolved, ReviewOpen, runGateA, runGateARevision
<1>3. CASE Prepare
  BY <1>3 DEF Prepare, runGateB, runGateCSetup, openReviewPr, EnterLoopB, EnterLoopC, EnterLoopD
<1>4. CASE Engine
  <2>1. CASE recoverPendingRollback
    BY <2>1 DEF recoverPendingRollback
  <2>2. ASSUME NEW g \in Gates, LandAnswer(g) PROVE Placed'
    BY <2>2 DEF LandAnswer, InLoop
  <2>3. ASSUME NEW g \in Gates, Review(g) PROVE Placed'
    BY <2>3 DEF Review, InLoop
  <2>4. ASSUME NEW g \in Gates, LoopReturns(g) PROVE Placed'
    BY <2>4 DEF LoopReturns, InLoop, Gates, Loop
  <2> QED BY <1>4, <2>1, <2>2, <2>3, <2>4 DEF Engine
<1>5. CASE afterLoop
  BY <1>5 DEF afterLoop, LoopPaused, LoopStalled, LoopNeedsHuman,
         ReopenQuestions,
         AutoConfirm, DesignPassed, NextLegGreen, AllLegsGreen, PinGreen
<1>6. CASE Harden
  BY <1>6 DEF Harden, HardenAgain, Repush, HardenGreen, NextLegHardened, ReviewNextLeg, MergeReady
<1>7. CASE parkFailure
  BY <1>7 DEF parkFailure, ScheduleRetry, Park, Throws, Guarded
<1>8. CASE Finish \/ remindStuck
  BY <1>8 DEF Finish, Notify, clearRetry, remindStuck
<1>9. CASE AutoRetry
  BY <1>9 DEF AutoRetry, planRetry, FAILED_STATES, Failed, book
<1>10. CASE reclaimOrphans
  BY <1>10 DEF reclaimOrphans, ReclaimBack, reclaimOne, Orphan,
         Failed, Running, ReclaimTarget
<1>11. CASE applyAutonomy
  BY <1>11 DEF applyAutonomy, AutoGo, StartWriting, requestGateB, requestGateC,
         requestReviewPr, Act
<1>12. CASE HumanAction
  BY <1>12 DEF HumanAction, submitPmAnswers, submitAnswers, confirm, forceGateBGo, requestGateB,
         requestGateC, requestReviewPr, deny, ackMerged, Human, Act, retry, planRetry,
         FAILED_STATES, Failed, Input, Stalled, Revision
<1>13. CASE go \/ ReopenDenied \/ Writer
  BY <1>13 DEF go, StartWriting, ReopenDenied, Writer, WriteReopened, WritesEnd, WriterTells
<1>14. CASE Crash \/ WriterDies
  BY <1>14 DEF Crash, WriterDies
<1>15. CASE UNCHANGED vars
  BY <1>15 DEF vars
<1> QED
  BY <1>1, <1>2, <1>3, <1>4, <1>5, <1>6, <1>7, <1>8, <1>9, <1>10, <1>11, <1>12,
     <1>13, <1>14, <1>15 DEF Next, Worker

\* a step fails into the failed state of its own gate
LEMMA FailsInItsGate ==
  ASSUME Placed, NEW g \in Gates, Throws(g)
  PROVE  \/ state \in {"GATE_A_RUNNING", "GATE_A_ADVERSARIAL"} /\ Failed[g] = "GATE_A_FAILED"
         \/ state \in {"GATE_B_RUNNING", "ADVERSARIAL_LOOP"} /\ Failed[g] = "GATE_B_FAILED"
         \/ state \in {"GATE_C_RUNNING", "GATE_C_LOOP"} /\ Failed[g] = "GATE_C_FAILED"
         \/ /\ state \in {"GATE_D_REQUESTED", "GATE_D_LOOP", "GATE_D_HARDENING"}
            /\ Failed[g] = "GATE_D_FAILED"
<1>1. state \in {"GATE_A_RUNNING", "GATE_A_ADVERSARIAL", "GATE_B_RUNNING", "ADVERSARIAL_LOOP",
                  "GATE_C_RUNNING", "GATE_C_LOOP", "GATE_D_REQUESTED", "GATE_D_LOOP",
                  "GATE_D_HARDENING"}
  BY DEF Throws, Guarded, Placed
<1>2. g = GateOf[state]
  BY DEF Throws
<1> QED BY <1>1, <1>2 DEF GateOf, Failed

\* no step leaves a reviewer thread behind a clean re-run
LEMMA ThreadStep == ASSUME Placed, ThreadInv, [Next]_vars PROVE ThreadInv'
<1> USE DEF Placed, ThreadInv, BeforeDesign, Gates, Loop, gateB, work, row
<1>1. CASE Step
  BY <1>1 DEF Step, StepIntake, StepRevisionA, StepGateB, StepSetup, StepOpenPr, StepHarden,
         StepLoop, StepRevision, Start, Revision
<1>2. CASE afterGateA \/ runGateA \/ runGateARevision
  BY <1>2 DEF afterGateA, ReviewResolved, ReviewOpen, runGateA, runGateARevision
<1>3. CASE Prepare
  BY <1>3 DEF Prepare, runGateB, runGateCSetup, openReviewPr, EnterLoopB, EnterLoopC, EnterLoopD
<1>4. CASE Engine
  <2>1. CASE recoverPendingRollback
    BY <2>1 DEF recoverPendingRollback
  <2>2. ASSUME NEW g \in Gates, LandAnswer(g) PROVE ThreadInv'
    BY <2>2 DEF LandAnswer, InLoop
  <2>3. ASSUME NEW g \in Gates, Review(g) PROVE ThreadInv'
    <3>1. IF g = "B" THEN thread' \in {thread, "live"} ELSE UNCHANGED thread
      BY <2>3 DEF Review
    <3>2. UNCHANGED <<state, at>> /\ state = Loop[g]
      BY <2>3 DEF Review, InLoop
    <3> QED BY <3>1, <3>2
  <2>4. ASSUME NEW g \in Gates, LoopReturns(g) PROVE ThreadInv'
    BY <2>4 DEF LoopReturns, InLoop, Gates, Loop
  <2> QED BY <1>4, <2>1, <2>2, <2>3, <2>4 DEF Engine
<1>5. CASE afterLoop
  BY <1>5 DEF afterLoop, LoopPaused, LoopStalled, LoopNeedsHuman,
         ReopenQuestions,
         AutoConfirm, DesignPassed, NextLegGreen, AllLegsGreen, PinGreen,
         Stalled, Input
<1>6. CASE Harden
  BY <1>6 DEF Harden, HardenAgain, Repush, HardenGreen, NextLegHardened, ReviewNextLeg, MergeReady
<1>7. CASE parkFailure
  <2>1. ASSUME NEW g \in Gates, ScheduleRetry(g) PROVE ThreadInv'
    BY <2>1, FailsInItsGate DEF ScheduleRetry, Throws, Guarded
  <2>2. ASSUME NEW g \in Gates, Park(g) PROVE ThreadInv'
    BY <2>2, FailsInItsGate DEF Park, Throws, Guarded
  <2> QED BY <1>7, <2>1, <2>2 DEF parkFailure
<1>8. CASE Finish \/ remindStuck
  BY <1>8 DEF Finish, Notify, clearRetry, remindStuck
<1>9. CASE AutoRetry
  BY <1>9 DEF AutoRetry, planRetry, FAILED_STATES, Failed, RetryTarget, Revision
<1>10. CASE reclaimOrphans
  BY <1>10 DEF reclaimOrphans, ReclaimBack, reclaimOne, Orphan,
         Failed, Running, ReclaimTarget, Revision
<1>11. CASE applyAutonomy
  BY <1>11 DEF applyAutonomy, AutoGo, StartWriting, requestGateB, requestGateC,
         requestReviewPr, Act
<1>12. CASE HumanAction
  BY <1>12 DEF HumanAction, submitPmAnswers, submitAnswers, confirm, forceGateBGo, requestGateB,
         requestGateC, requestReviewPr, deny, ackMerged, Human, Act, retry, planRetry,
         FAILED_STATES, Failed, RetryTarget, Input, Stalled, Revision
<1>13. CASE go \/ ReopenDenied \/ Writer
  BY <1>13 DEF go, StartWriting, ReopenDenied, Writer, WriteReopened, WritesEnd, WriterTells
<1>14. CASE Crash \/ WriterDies
  BY <1>14 DEF Crash, WriterDies
<1>15. CASE UNCHANGED vars
  BY <1>15 DEF vars
<1> QED
  BY <1>1, <1>2, <1>3, <1>4, <1>5, <1>6, <1>7, <1>8, <1>9, <1>10, <1>11, <1>12,
     <1>13, <1>14, <1>15 DEF Next, Worker

\* no step lets a state be reached without its tree, its PR or its hardening
LEMMA TreeStep == ASSUME Placed, TreeInv, [Next]_vars PROVE TreeInv'
<1> USE DEF Placed, TreeInv, Reviewing, Built, Gates, Loop, tree, work, row, activateLeg
<1>1. CASE Step
  BY <1>1 DEF Step, StepIntake, StepRevisionA, StepGateB, StepSetup, StepOpenPr, StepHarden,
         StepLoop, StepRevision, Start, Revision, Entry
<1>2. CASE afterGateA \/ runGateA \/ runGateARevision
  BY <1>2 DEF afterGateA, ReviewResolved, ReviewOpen, runGateA, runGateARevision
<1>3. CASE Prepare
  BY <1>3 DEF Prepare, runGateB, runGateCSetup, openReviewPr, EnterLoopB, EnterLoopC, EnterLoopD
<1>4. CASE Engine
  <2>1. CASE recoverPendingRollback
    BY <2>1 DEF recoverPendingRollback
  <2>2. ASSUME NEW g \in Gates, LandAnswer(g) PROVE TreeInv'
    BY <2>2 DEF LandAnswer, InLoop
  <2>3. ASSUME NEW g \in Gates, Review(g) PROVE TreeInv'
    BY <2>3 DEF Review, InLoop
  <2>4. ASSUME NEW g \in Gates, LoopReturns(g) PROVE TreeInv'
    BY <2>4 DEF LoopReturns, InLoop, Gates, Loop
  <2> QED BY <1>4, <2>1, <2>2, <2>3, <2>4 DEF Engine
<1>5. CASE afterLoop
  BY <1>5 DEF afterLoop, LoopPaused, LoopStalled, LoopNeedsHuman,
         ReopenQuestions,
         AutoConfirm, DesignPassed, NextLegGreen, AllLegsGreen, PinGreen,
         Stalled, Input
<1>6. CASE Harden
  BY <1>6 DEF Harden, HardenAgain, Repush, HardenGreen, NextLegHardened, ReviewNextLeg, MergeReady
<1>7. CASE parkFailure
  <2>1. ASSUME NEW g \in Gates, ScheduleRetry(g) PROVE TreeInv'
    BY <2>1, FailsInItsGate DEF ScheduleRetry, Throws, Guarded
  <2>2. ASSUME NEW g \in Gates, Park(g) PROVE TreeInv'
    BY <2>2, FailsInItsGate DEF Park, Throws, Guarded
  <2> QED BY <1>7, <2>1, <2>2 DEF parkFailure
<1>8. CASE Finish \/ remindStuck
  BY <1>8 DEF Finish, Notify, clearRetry, remindStuck
<1>9. CASE AutoRetry
  BY <1>9 DEF AutoRetry, planRetry, FAILED_STATES, Failed, RetryTarget, Revision
<1>10. CASE reclaimOrphans
  BY <1>10 DEF reclaimOrphans, ReclaimBack, reclaimOne, Orphan,
         Failed, Running, ReclaimTarget, Revision
<1>11. CASE applyAutonomy
  BY <1>11 DEF applyAutonomy, AutoGo, StartWriting, requestGateB, requestGateC,
         requestReviewPr, Act
<1>12. CASE HumanAction
  BY <1>12 DEF HumanAction, submitPmAnswers, submitAnswers, confirm, forceGateBGo, requestGateB,
         requestGateC, requestReviewPr, deny, ackMerged, Human, Act, retry, planRetry,
         FAILED_STATES, Failed, RetryTarget, Input, Stalled, Revision
<1>13. CASE go \/ ReopenDenied \/ Writer
  BY <1>13 DEF go, StartWriting, ReopenDenied, Writer, WriteReopened, WritesEnd, WriterTells
<1>14. CASE Crash \/ WriterDies
  BY <1>14 DEF Crash, WriterDies
<1>15. CASE UNCHANGED vars
  BY <1>15 DEF vars
<1> QED
  BY <1>1, <1>2, <1>3, <1>4, <1>5, <1>6, <1>7, <1>8, <1>9, <1>10, <1>11, <1>12,
     <1>13, <1>14, <1>15 DEF Next, Worker

\* who writes the retry bookkeeping, and who counts deaths
LEMMA BookFrame ==
  ASSUME [Next]_vars
  PROVE  \/ UNCHANGED <<book, deaths>>
         \/ \E g \in Gates : ScheduleRetry(g) \/ Park(g) \/ reclaimOne(g)
         \/ clearRetry("settle", "idle") \/ clearRetry("settleTell", "alarm")
         \/ AutoRetry \/ retry \/ Crash
<1> USE DEF row, ghosts
<1>1. CASE Step
  BY <1>1 DEF Step, StepIntake, StepRevisionA, StepGateB, StepSetup, StepOpenPr, StepHarden,
         StepLoop, StepRevision, Start
<1>2. CASE afterGateA \/ runGateA \/ runGateARevision
  BY <1>2 DEF afterGateA, ReviewResolved, ReviewOpen, runGateA, runGateARevision
<1>3. CASE Prepare
  BY <1>3 DEF Prepare, runGateB, runGateCSetup, openReviewPr, EnterLoopB, EnterLoopC, EnterLoopD
<1>4. CASE Engine
  BY <1>4 DEF Engine, recoverPendingRollback, LandAnswer, Review, LoopReturns, InLoop
<1>5. CASE afterLoop
  BY <1>5 DEF afterLoop, LoopPaused, LoopStalled, LoopNeedsHuman,
         ReopenQuestions,
         AutoConfirm, DesignPassed, NextLegGreen, AllLegsGreen, PinGreen
<1>6. CASE Harden
  BY <1>6 DEF Harden, HardenAgain, Repush, HardenGreen, NextLegHardened, ReviewNextLeg, MergeReady
<1>7. CASE parkFailure
  BY <1>7 DEF parkFailure
<1>8. CASE Finish \/ remindStuck
  BY <1>8 DEF Finish, Notify, remindStuck
<1>9. CASE AutoRetry
  BY <1>9
<1>10. CASE reclaimOrphans
  BY <1>10 DEF reclaimOrphans, ReclaimBack
<1>11. CASE applyAutonomy
  BY <1>11 DEF applyAutonomy, AutoGo, StartWriting, requestGateB, requestGateC,
         requestReviewPr, Act
<1>12. CASE HumanAction
  BY <1>12 DEF HumanAction, submitPmAnswers, submitAnswers, confirm, forceGateBGo, requestGateB,
         requestGateC, requestReviewPr, deny, ackMerged, Human, Act
<1>13. CASE go \/ ReopenDenied \/ Writer
  BY <1>13 DEF go, StartWriting, ReopenDenied, Writer, WriteReopened, WritesEnd, WriterTells
<1>14. CASE Crash \/ WriterDies
  BY <1>14 DEF WriterDies
<1>15. CASE UNCHANGED vars
  BY <1>15 DEF vars
<1> QED
  BY <1>1, <1>2, <1>3, <1>4, <1>5, <1>6, <1>7, <1>8, <1>9, <1>10, <1>11, <1>12,
     <1>13, <1>14, <1>15 DEF Next, Worker

\* the moves the gates have in common
Shared(g) ==
  /\ Stalled[g] \in ALLOWED[Loop[g]]
  /\ g # "A" => /\ Input[g] \in ALLOWED[Loop[g]]
                /\ Loop[g] \in ALLOWED[Revision[g]]
                /\ Revision[g] \in ALLOWED[Input[g]] \cap ALLOWED[Stalled[g]]
  /\ g # "D" => Failed[g] \in ALLOWED[Running[g]]

\* they are in the transition table
LEMMA LegalByGate == \A g \in Gates : Shared(g)
<1> USE DEF Shared, Stalled, Loop, Input, Revision, Failed, Running, ALLOWED
<1>1. Shared("A")
  OBVIOUS
<1>2. Shared("B")
  OBVIOUS
<1>3. Shared("C")
  OBVIOUS
<1>4. Shared("D")
  OBVIOUS
<1> QED BY <1>1, <1>2, <1>3, <1>4 DEF Gates

\* every step moves the session along the transition table
LEMMA LegalStep == ASSUME Placed, [Next]_vars PROVE canTransition(state, state')
<1> USE DEF canTransition, Placed
<1>1. CASE Step
  <2>1. CASE StepIntake \/ StepRevisionA \/ StepGateB
    BY <2>1 DEF StepIntake, StepRevisionA, StepGateB, Start, ALLOWED
  <2>2. CASE StepSetup \/ StepOpenPr \/ StepHarden
    BY <2>2 DEF StepSetup, StepOpenPr, StepHarden, Start, ALLOWED
  <2>3. ASSUME NEW g \in Gates, StepLoop(g) \/ StepRevision(g) PROVE canTransition(state, state')
    BY <2>3, LegalByGate DEF Shared, StepLoop, StepRevision, Start
  <2> QED BY <1>1, <2>1, <2>2, <2>3 DEF Step
<1>2. CASE afterGateA \/ runGateA \/ runGateARevision
  BY <1>2 DEF afterGateA, ReviewResolved, ReviewOpen, runGateA, runGateARevision, ALLOWED
<1>3. CASE Prepare
  BY <1>3 DEF Prepare, runGateB, runGateCSetup, openReviewPr, EnterLoopB, EnterLoopC, EnterLoopD,
         Loop, ALLOWED
<1>4. CASE Engine
  BY <1>4 DEF Engine, recoverPendingRollback, LandAnswer, Review, LoopReturns
<1>5. CASE afterLoop
  BY <1>5, LegalByGate DEF Shared, afterLoop, LoopPaused, LoopStalled, LoopNeedsHuman,
         ReopenQuestions,
         AutoConfirm, DesignPassed, NextLegGreen, AllLegsGreen, PinGreen,
         Loop, Stalled, Input, ALLOWED
<1>6. CASE Harden
  BY <1>6 DEF Harden, HardenAgain, Repush, HardenGreen, NextLegHardened, ReviewNextLeg, MergeReady,
         ALLOWED
<1>7. CASE parkFailure
  <2>1. ASSUME NEW g \in Gates, ScheduleRetry(g) \/ Park(g) PROVE canTransition(state, state')
    <3>1. state' = Failed[g] /\ Throws(g)
      BY <2>1 DEF ScheduleRetry, Park
    <3>2. CASE Failed[g] = "GATE_A_FAILED" /\ state \in {"GATE_A_RUNNING", "GATE_A_ADVERSARIAL"}
      BY <3>1, <3>2 DEF ALLOWED
    <3>3. CASE Failed[g] = "GATE_B_FAILED" /\ state \in {"GATE_B_RUNNING", "ADVERSARIAL_LOOP"}
      BY <3>1, <3>3 DEF ALLOWED
    <3>4. CASE Failed[g] = "GATE_C_FAILED" /\ state \in {"GATE_C_RUNNING", "GATE_C_LOOP"}
      BY <3>1, <3>4 DEF ALLOWED
    <3>5. CASE /\ Failed[g] = "GATE_D_FAILED"
               /\ state \in {"GATE_D_REQUESTED", "GATE_D_LOOP", "GATE_D_HARDENING"}
      BY <3>1, <3>5 DEF ALLOWED
    <3> QED BY <3>1, <3>2, <3>3, <3>4, <3>5, FailsInItsGate
  <2> QED BY <1>7, <2>1 DEF parkFailure
<1>8. CASE Finish \/ remindStuck
  BY <1>8 DEF Finish, Notify, clearRetry, remindStuck
<1>9. CASE AutoRetry
  BY <1>9 DEF AutoRetry, planRetry,
         FAILED_STATES, Failed, Gates, RetryTarget, Loop, Revision, ALLOWED
<1>10. CASE reclaimOrphans
  BY <1>10, LegalByGate DEF Shared, reclaimOrphans, ReclaimBack, reclaimOne, Orphan,
         Failed, Gates, Running, ReclaimTarget, Loop, Revision, ALLOWED
<1>11. CASE applyAutonomy
  BY <1>11 DEF applyAutonomy, AutoGo, StartWriting, requestGateB, requestGateC,
         requestReviewPr, Act, ALLOWED
<1>12. CASE HumanAction
  BY <1>12, LegalByGate
     DEF Shared, HumanAction, submitPmAnswers, submitAnswers, confirm, forceGateBGo, requestGateB,
         requestGateC, requestReviewPr, deny, ackMerged, Human, Act, retry, planRetry,
         FAILED_STATES, Failed, Gates, RetryTarget, Input, Stalled, Loop, Revision, ALLOWED
<1>13. CASE go \/ ReopenDenied \/ Writer
  BY <1>13 DEF go, StartWriting, ReopenDenied, Writer, WriteReopened, WritesEnd, WriterTells,
         ALLOWED
<1>14. CASE Crash \/ WriterDies
  BY <1>14 DEF Crash, WriterDies
<1>15. CASE UNCHANGED vars
  BY <1>15 DEF vars
<1> QED
  BY <1>1, <1>2, <1>3, <1>4, <1>5, <1>6, <1>7, <1>8, <1>9, <1>10, <1>11, <1>12,
     <1>13, <1>14, <1>15 DEF Next, Worker

\* a dead letter is only taken out of its failed state with its mark cleared
LEMMA DeadStep == ASSUME Placed, DeadInv, [Next]_vars PROVE DeadInv'
<1> USE DEF Placed, DeadInv, FAILED_STATES, Failed, Gates, book, row
<1>1. CASE Step
  BY <1>1 DEF Step, StepIntake, StepRevisionA, StepGateB, StepSetup, StepOpenPr, StepHarden,
         StepLoop, StepRevision, Start, Loop, Revision
<1>2. CASE afterGateA \/ runGateA \/ runGateARevision
  BY <1>2 DEF afterGateA, ReviewResolved, ReviewOpen, runGateA, runGateARevision
<1>3. CASE Prepare
  BY <1>3 DEF Prepare, runGateB, runGateCSetup, openReviewPr, EnterLoopB, EnterLoopC, EnterLoopD,
         Loop
<1>4. CASE Engine
  <2>1. CASE recoverPendingRollback
    BY <2>1 DEF recoverPendingRollback
  <2>2. ASSUME NEW g \in Gates, LandAnswer(g) PROVE DeadInv'
    BY <2>2 DEF LandAnswer, InLoop
  <2>3. ASSUME NEW g \in Gates, Review(g) PROVE DeadInv'
    BY <2>3 DEF Review, InLoop
  <2>4. ASSUME NEW g \in Gates, LoopReturns(g) PROVE DeadInv'
    BY <2>4 DEF LoopReturns, InLoop, Gates, Loop
  <2> QED BY <1>4, <2>1, <2>2, <2>3, <2>4 DEF Engine
<1>5. CASE afterLoop
  BY <1>5 DEF afterLoop, LoopPaused, LoopStalled, LoopNeedsHuman,
         ReopenQuestions,
         AutoConfirm, DesignPassed, NextLegGreen, AllLegsGreen, PinGreen, Loop
<1>6. CASE Harden
  BY <1>6 DEF Harden, HardenAgain, Repush, HardenGreen, NextLegHardened, ReviewNextLeg, MergeReady
<1>7. CASE parkFailure
  BY <1>7 DEF parkFailure, ScheduleRetry, Park, Throws
<1>8. CASE Finish \/ remindStuck
  BY <1>8 DEF Finish, Notify, clearRetry, remindStuck
<1>9. CASE AutoRetry
  BY <1>9 DEF AutoRetry, planRetry
<1>10. CASE reclaimOrphans
  BY <1>10 DEF reclaimOrphans, ReclaimBack, reclaimOne, Orphan, Running
<1>11. CASE applyAutonomy
  BY <1>11 DEF applyAutonomy, AutoGo, StartWriting, requestGateB, requestGateC,
         requestReviewPr, Act
<1>12. CASE HumanAction
  BY <1>12 DEF HumanAction, submitPmAnswers, submitAnswers, confirm, forceGateBGo, requestGateB,
         requestGateC, requestReviewPr, deny, ackMerged, Human, Act, retry, planRetry,
         Input, Stalled
<1>13. CASE go \/ ReopenDenied \/ Writer
  BY <1>13 DEF go, StartWriting, ReopenDenied, Writer, WriteReopened, WritesEnd, WriterTells
<1>14. CASE Crash \/ WriterDies
  BY <1>14 DEF Crash, WriterDies
<1>15. CASE UNCHANGED vars
  BY <1>15 DEF vars
<1> QED
  BY <1>1, <1>2, <1>3, <1>4, <1>5, <1>6, <1>7, <1>8, <1>9, <1>10, <1>11, <1>12,
     <1>13, <1>14, <1>15 DEF Next, Worker

\* an orphaned session stays as it is until it is reclaimed
LEMMA OrphanStays ==
  ASSUME Placed, Orphaned, [Next]_vars
  PROVE  UNCHANGED <<state, at>> \/ \E g \in Gates : reclaimOne(g)
<1> USE DEF Orphaned, Loop, Revision, Gates, vars, Placed
<1>1. CASE Step
  BY <1>1 DEF Step, StepIntake, StepRevisionA, StepGateB, StepSetup, StepOpenPr, StepHarden,
         StepLoop, StepRevision, Start
<1>2. CASE afterGateA \/ runGateA \/ runGateARevision
  BY <1>2 DEF afterGateA, ReviewResolved, ReviewOpen, runGateA, runGateARevision
<1>3. CASE Prepare
  BY <1>3 DEF Prepare, runGateB, runGateCSetup, openReviewPr, EnterLoopB, EnterLoopC, EnterLoopD
<1>4. CASE Engine
  BY <1>4 DEF Engine, recoverPendingRollback, LandAnswer, Review, LoopReturns, InLoop
<1>5. CASE afterLoop
  BY <1>5 DEF afterLoop, LoopPaused, LoopStalled, LoopNeedsHuman,
         ReopenQuestions,
         AutoConfirm, DesignPassed, NextLegGreen, AllLegsGreen, PinGreen
<1>6. CASE Harden
  BY <1>6 DEF Harden, HardenAgain, Repush, HardenGreen, NextLegHardened, ReviewNextLeg, MergeReady
<1>7. CASE parkFailure
  BY <1>7 DEF parkFailure, ScheduleRetry, Park, Throws, Guarded
<1>8. CASE Finish \/ remindStuck
  BY <1>8 DEF Finish, Notify, clearRetry, remindStuck
<1>9. CASE AutoRetry
  BY <1>9 DEF AutoRetry, planRetry, FAILED_STATES, Failed
<1>10. CASE reclaimOrphans
  BY <1>10 DEF reclaimOrphans, ReclaimBack, reclaimOne, Orphan, Running
<1>11. CASE applyAutonomy
  BY <1>11 DEF applyAutonomy, AutoGo, StartWriting, requestGateB, requestGateC,
         requestReviewPr, Act
<1>12. CASE HumanAction
  BY <1>12 DEF HumanAction, submitPmAnswers, submitAnswers, confirm, forceGateBGo, requestGateB,
         requestGateC, requestReviewPr, deny, ackMerged, Human, Act, retry, planRetry,
         Input, Stalled, FAILED_STATES, Failed
<1>13. CASE go \/ ReopenDenied \/ Writer
  BY <1>13 DEF go, StartWriting, ReopenDenied, Writer, WriteReopened, WritesEnd, WriterTells
<1>14. CASE Crash \/ WriterDies
  BY <1>14 DEF Crash, WriterDies
<1>15. CASE UNCHANGED vars
  BY <1>15 DEF vars
<1> QED
  BY <1>1, <1>2, <1>3, <1>4, <1>5, <1>6, <1>7, <1>8, <1>9, <1>10, <1>11, <1>12,
     <1>13, <1>14, <1>15 DEF Next, Worker

\* deaths never run ahead of the reclaims by more than one
LEMMA DeathStep ==
  ASSUME TypeOK, Placed, DeadInv, DeathInv, [Next]_vars
  PROVE  DeathInv'
<1> USE PipelineAssumption DEF PipelineAssumption, TypeOK, CountersOK
<1>1. ASSUME NEW g \in Gates, reclaimOne(g) PROVE DeathInv'
  <2>1. UNCHANGED deaths
    BY <1>1 DEF reclaimOne, ghosts
  <2>2. CASE dead \/ reclaims = MaxReclaims
    <3>1. dead' /\ UNCHANGED reclaims
      BY <1>1, <2>2 DEF reclaimOne
    <3> QED BY <2>1, <2>2, <3>1 DEF DeathInv
  <2>3. CASE ~dead /\ reclaims # MaxReclaims
    <3>1. reclaims' = reclaims + 1
      BY <1>1, <2>3 DEF reclaimOne
    <3> QED BY <2>1, <2>3, <3>1 DEF DeathInv
  <2> QED BY <2>2, <2>3
<1>2. CASE clearRetry("settle", "idle") \/ clearRetry("settleTell", "alarm") \/ retry
  <2>1. deaths'["running"] = 0 /\ reclaims' = 0
    BY <1>2 DEF clearRetry, retry
  <2> QED BY <2>1 DEF DeathInv
<1>3. CASE Crash
  <2>1. ~Orphaned /\ UNCHANGED <<reclaims, dead>> /\ at' = "idle" /\ UNCHANGED state
    BY <1>3 DEF Crash, Orphaned, row, book
  <2>2. CASE at \in Guarded /\ state \in {"GATE_A_RUNNING", "GATE_B_RUNNING", "GATE_C_RUNNING"}
    <3>1. ~dead
      BY <2>2 DEF DeadInv, FAILED_STATES, Failed, Gates
    <3>2. deaths'["running"] = deaths["running"] + 1
      BY <2>2, <1>3 DEF Crash, Running
    <3> QED BY <2>1, <2>2, <3>1, <3>2 DEF DeathInv, Orphaned
  <2>3. CASE ~(at \in Guarded /\ state \in {"GATE_A_RUNNING", "GATE_B_RUNNING", "GATE_C_RUNNING"})
    <3>1. deaths'["running"] = deaths["running"]
      BY <2>3, <1>3 DEF Crash, Running
    <3> QED BY <2>1, <3>1 DEF DeathInv
  <2> QED BY <2>2, <2>3
<1>4. ASSUME NEW g \in Gates, ScheduleRetry(g) \/ Park(g) PROVE DeathInv'
  <2>1. ~Orphaned
    BY <1>4 DEF ScheduleRetry, Park, Throws, Guarded, Orphaned
  <2>2. UNCHANGED <<reclaims, deaths>>
    BY <1>4 DEF ScheduleRetry, Park, Throws, ghosts
  <2>3. dead => dead'
    BY <1>4 DEF ScheduleRetry, Park
  <2> QED BY <2>1, <2>2, <2>3 DEF DeathInv
<1>5. CASE AutoRetry
  <2>1. ~Orphaned
    BY <1>5 DEF AutoRetry, planRetry, FAILED_STATES, Failed, Gates, Orphaned
  <2> QED BY <1>5, <2>1 DEF AutoRetry, DeathInv
<1>6. CASE UNCHANGED <<book, deaths>>
  BY <1>6, <1>1, OrphanStays DEF DeathInv, Orphaned, book
<1> QED BY <1>1, <1>2, <1>3, <1>4, <1>5, <1>6, BookFrame

\* the stage of each state
LEMMA StageTable ==
  /\ \A s \in {"INTAKE", "GATE_A_RUNNING", "AWAITING_PM_CONFIRM", "GATE_A_REVISION_REQUESTED",
               "GATE_A_ADVERSARIAL", "GATE_A_STALLED", "GATE_A_FAILED"} : StageOf[s] = "review"
  /\ StageOf["CONFIRMED"] = "confirmed"
  /\ \A s \in {"GATE_B_REQUESTED", "GATE_B_RUNNING", "ADVERSARIAL_LOOP", "AWAITING_GATE_B_INPUT",
               "GATE_B_REVISION_REQUESTED", "GATE_B_STALLED", "GATE_B_FAILED"} :
       StageOf[s] = "design"
  /\ \A s \in {"AWAITING_GO", "GO_DENIED", "WRITE_FAILED"} : StageOf[s] = "awaitingGo"
  /\ StageOf["WRITING"] = "writing"
  /\ StageOf["DONE"] = "created"
  /\ \A s \in {"GATE_C_REQUESTED", "GATE_C_RUNNING", "GATE_C_LOOP", "AWAITING_GATE_C_INPUT",
               "GATE_C_REVISION_REQUESTED", "GATE_C_STALLED", "GATE_C_FAILED"} :
       StageOf[s] = "build"
  /\ StageOf["AWAITING_GATE_D"] = "awaitingPr"
  /\ \A s \in {"GATE_D_REQUESTED", "GATE_D_LOOP", "AWAITING_GATE_D_INPUT", "GATE_D_STALLED",
               "GATE_D_REVISION_REQUESTED", "GATE_D_HARDENING", "GATE_D_FAILED"} :
       StageOf[s] = "pr"
  /\ StageOf["AWAITING_HUMAN_MERGE"] = "awaitingMerge"
  /\ StageOf["SHIPPED"] = "shipped"
  BY StateSet DEF StageOf

\* every step is one Delivery allows, or does not show there
LEMMA DeliveryStep ==
  ASSUME ControlOK', Placed, [Next]_vars
  PROVE  D!Next \/ UNCHANGED <<StageOf[state], mover>>
<1> USE StageTable DEF D!Next, D!Within, D!Movers, ControlOK, Placed
<1>1. CASE Step
  BY <1>1 DEF Step, StepIntake, StepRevisionA, StepGateB, StepSetup, StepOpenPr, StepHarden,
         StepLoop, StepRevision, Start, Gates, Loop, Revision
<1>2. CASE afterGateA \/ runGateA \/ runGateARevision
  BY <1>2 DEF afterGateA, ReviewResolved, ReviewOpen, runGateA, runGateARevision
<1>3. CASE Prepare
  BY <1>3 DEF Prepare, runGateB, runGateCSetup, openReviewPr, EnterLoopB, EnterLoopC, EnterLoopD,
         Loop
<1>4. CASE Engine
  BY <1>4 DEF Engine, recoverPendingRollback, LandAnswer, Review, LoopReturns, InLoop
<1>5. CASE afterLoop
  BY <1>5 DEF afterLoop, LoopPaused, LoopStalled, LoopNeedsHuman,
         ReopenQuestions,
         AutoConfirm, DesignPassed, NextLegGreen, AllLegsGreen, PinGreen,
         Gates, Loop, Stalled, Input, D!Work, D!Climb
<1>6. CASE Harden
  BY <1>6 DEF Harden, HardenAgain, Repush, HardenGreen, NextLegHardened, ReviewNextLeg, MergeReady,
         D!Work, D!Climb
<1>7. CASE parkFailure
  <2>1. ASSUME NEW g \in Gates, Throws(g), Move(Failed[g], "worker")
        PROVE  StageOf[state'] = StageOf[state] /\ mover' = "worker"
    BY <2>1, FailsInItsGate
  <2> QED BY <1>7, <2>1 DEF parkFailure, ScheduleRetry, Park
<1>8. CASE Finish \/ remindStuck
  BY <1>8 DEF Finish, Notify, clearRetry, remindStuck
<1>9. CASE AutoRetry
  BY <1>9 DEF AutoRetry, planRetry,
         FAILED_STATES, Failed, Gates, RetryTarget, Loop, Revision
<1>10. CASE reclaimOrphans
  BY <1>10 DEF reclaimOrphans, ReclaimBack, reclaimOne, Orphan,
         Failed, Gates, Running, ReclaimTarget, Loop, Revision
<1>11. CASE applyAutonomy
  BY <1>11 DEF applyAutonomy, AutoGo, StartWriting, requestGateB, requestGateC,
         requestReviewPr, Act, D!Authorise, D!Climb
<1>12. CASE HumanAction
  BY <1>12 DEF HumanAction, submitPmAnswers, submitAnswers, confirm, forceGateBGo, requestGateB,
         requestGateC, requestReviewPr, deny, ackMerged, Human, Act, retry, planRetry,
         FAILED_STATES, Failed, Gates, RetryTarget, Input, Stalled, Loop, Revision,
         D!Authorise, D!Arbitrate, D!Ship, D!Climb
<1>13. CASE go \/ ReopenDenied \/ Writer
  BY <1>13 DEF go, StartWriting, ReopenDenied, Writer, WriteReopened, WritesEnd, WriterTells,
         D!Authorise, D!Write, D!Climb
<1>14. CASE Crash \/ WriterDies
  BY <1>14 DEF Crash, WriterDies
<1>15. CASE UNCHANGED vars
  BY <1>15 DEF vars
<1> QED
  BY <1>1, <1>2, <1>3, <1>4, <1>5, <1>6, <1>7, <1>8, <1>9, <1>10, <1>11, <1>12,
     <1>13, <1>14, <1>15 DEF Next, Worker

\* a retry drops no answer that is owed at Gates A, C and D
LEMMA OwedRetry ==
  ASSUME AnswersOK, Placed, OwedInv, NEW who, planRetry(who)
  PROVE  OwedInv'
<1> USE DEF AnswersOK, OwedInv
<1>1. state \in FAILED_STATES /\ state' = RetryTarget
  BY DEF planRetry
<1>2. UNCHANGED <<at, owed, tree>> /\ at \notin {"resolved", "switched"}
  BY <1>1 DEF planRetry, Placed, FAILED_STATES, Failed, Gates
<1>3. CASE state = "GATE_A_FAILED"
  <2>1. /\ pending' = pending
        /\ state' \in {"INTAKE", "GATE_A_ADVERSARIAL", "GATE_A_REVISION_REQUESTED"}
    BY <1>1, <1>3 DEF planRetry, RetryTarget, Loop, Revision
  <2> QED BY <1>2, <1>3, <2>1 DEF tree
<1>4. CASE state = "GATE_B_FAILED"
  <2>1. /\ state' \in {"GATE_B_REQUESTED", "ADVERSARIAL_LOOP", "GATE_B_REVISION_REQUESTED"}
        /\ \A g \in {"A", "C", "D"} : pending'[g] = pending[g]
    BY <1>1, <1>4 DEF planRetry, RetryTarget, Loop, Revision, Gates
  <2> QED BY <1>2, <1>4, <2>1 DEF tree
<1>5. CASE state = "GATE_C_FAILED"
  <2>1. /\ state' \in {"GATE_C_REQUESTED", "GATE_C_LOOP", "GATE_C_REVISION_REQUESTED"}
        /\ state' = "GATE_C_REQUESTED" => ~worktree
        /\ \A g \in {"A", "D"} : pending'[g] = pending[g]
        /\ worktree => pending' = pending
    BY <1>1, <1>5 DEF planRetry, RetryTarget, Loop, Revision, Gates
  <2> QED BY <1>2, <1>5, <2>1 DEF tree
<1>6. CASE state = "GATE_D_FAILED"
  <2>1. /\ pending' = pending
        /\ state' \in {"GATE_D_HARDENING", "GATE_D_REQUESTED", "GATE_D_LOOP",
                      "GATE_D_REVISION_REQUESTED"}
        /\ state' = "GATE_D_HARDENING" => hardening
        /\ state' = "GATE_D_REQUESTED" => ~pr
        /\ hardening /\ ~rollback => state' = "GATE_D_HARDENING"
    BY <1>1, <1>6 DEF planRetry, RetryTarget, Loop, Revision
  <2> QED BY <1>2, <1>6, <2>1 DEF tree
<1> QED BY <1>1, <1>3, <1>4, <1>5, <1>6 DEF FAILED_STATES, Failed, Gates

\* no step drops an answer that is owed at Gates A, C and D
LEMMA OwedStep == ASSUME AnswersOK, Placed, TreeInv, OwedInv, [Next]_vars PROVE OwedInv'
<1> USE DEF AnswersOK, Placed, OwedInv, Gates, Loop, answers, tree, work, row, activateLeg
<1>1. CASE Step
  BY <1>1 DEF Step, StepIntake, StepRevisionA, StepGateB, StepSetup, StepOpenPr, StepHarden,
         StepLoop, StepRevision, Start, Revision, Entry
<1>2. CASE afterGateA \/ runGateA \/ runGateARevision
  BY <1>2 DEF afterGateA, ReviewResolved, ReviewOpen, runGateA, runGateARevision
<1>3. CASE Prepare
  BY <1>3 DEF Prepare, runGateB, runGateCSetup, openReviewPr, EnterLoopB, EnterLoopC, EnterLoopD
<1>4. CASE Engine
  <2>1. CASE recoverPendingRollback
    BY <2>1 DEF recoverPendingRollback
  <2>2. ASSUME NEW g \in Gates, LandAnswer(g) PROVE OwedInv'
    BY <2>2 DEF LandAnswer, InLoop
  <2>3. ASSUME NEW g \in Gates, Review(g) PROVE OwedInv'
    BY <2>3 DEF Review, InLoop
  <2>4. ASSUME NEW g \in Gates, LoopReturns(g) PROVE OwedInv'
    BY <2>4 DEF LoopReturns, InLoop, Gates, Loop, Waiting
  <2> QED BY <1>4, <2>1, <2>2, <2>3, <2>4 DEF Engine
<1>5. CASE afterLoop
  BY <1>5 DEF afterLoop, LoopPaused, LoopStalled, LoopNeedsHuman,
         ReopenQuestions,
         AutoConfirm, DesignPassed, NextLegGreen, AllLegsGreen, PinGreen,
         Stalled, Input
<1>6. CASE Harden
  BY <1>6 DEF Harden, HardenAgain, Repush, HardenGreen, NextLegHardened, ReviewNextLeg, MergeReady,
         TreeInv
<1>7. CASE parkFailure
  <2>1. ASSUME NEW g \in Gates, ScheduleRetry(g) PROVE OwedInv'
    BY <2>1, FailsInItsGate DEF ScheduleRetry, Throws, Guarded
  <2>2. ASSUME NEW g \in Gates, Park(g) PROVE OwedInv'
    BY <2>2, FailsInItsGate DEF Park, Throws, Guarded
  <2> QED BY <1>7, <2>1, <2>2 DEF parkFailure
<1>8. CASE Finish \/ remindStuck
  BY <1>8 DEF Finish, Notify, clearRetry, remindStuck
<1>9. CASE AutoRetry
  BY <1>9, OwedRetry DEF AutoRetry
<1>10. CASE reclaimOrphans
  BY <1>10 DEF reclaimOrphans, ReclaimBack, reclaimOne, Orphan,
         Failed, Running, ReclaimTarget, Revision
<1>11. CASE applyAutonomy
  BY <1>11 DEF applyAutonomy, AutoGo, StartWriting, requestGateB, requestGateC,
         requestReviewPr, Act
<1>12. CASE HumanAction
  <2>1. CASE submitPmAnswers
    BY <2>1 DEF submitPmAnswers, Revision
  <2>2. ASSUME NEW g \in Gates, submitAnswers(g) PROVE OwedInv'
    BY <2>2 DEF submitAnswers, Input, Stalled, Revision, TreeInv, Built, Reviewing
  <2>3. CASE confirm \/ forceGateBGo \/ deny \/ ackMerged
    BY <2>3 DEF confirm, forceGateBGo, deny, ackMerged, Human, Act
  <2>4. CASE requestGateB("human") \/ requestGateC("human") \/ requestReviewPr("human")
    BY <2>4 DEF requestGateB, requestGateC, requestReviewPr, Act
  <2>5. CASE retry
    BY <2>5, OwedRetry DEF retry
  <2> QED BY <1>12, <2>1, <2>2, <2>3, <2>4, <2>5 DEF HumanAction
<1>13. CASE go \/ ReopenDenied \/ Writer
  BY <1>13 DEF go, StartWriting, ReopenDenied, Writer, WriteReopened, WritesEnd, WriterTells
<1>14. CASE Crash \/ WriterDies
  BY <1>14 DEF Crash, WriterDies
<1>15. CASE UNCHANGED vars
  BY <1>15 DEF vars
<1> QED
  BY <1>1, <1>2, <1>3, <1>4, <1>5, <1>6, <1>7, <1>8, <1>9, <1>10, <1>11, <1>12,
     <1>13, <1>14, <1>15 DEF Next, Worker

\* the ways out of a failed state
LEMMA LeavesFailed ==
  ASSUME Placed, [Next]_vars, state \in FAILED_STATES, state' # state
  PROVE  AutoRetry \/ ReclaimBack \/ retry
<1>0. state \in {"GATE_A_FAILED", "GATE_B_FAILED", "GATE_C_FAILED", "GATE_D_FAILED"}
  BY DEF FAILED_STATES, Failed, Gates
<1> USE <1>0 DEF Gates, Placed
<1>1. CASE Step
  BY <1>1 DEF Step, StepIntake, StepRevisionA, StepGateB, StepSetup, StepOpenPr, StepHarden,
         StepLoop, StepRevision, Start, Loop, Revision
<1>2. CASE afterGateA \/ runGateA \/ runGateARevision
  BY <1>2 DEF afterGateA, ReviewResolved, ReviewOpen, runGateA, runGateARevision
<1>3. CASE Prepare
  BY <1>3 DEF Prepare, runGateB, runGateCSetup, openReviewPr, EnterLoopB, EnterLoopC, EnterLoopD,
         Loop
<1>4. CASE Engine
  BY <1>4 DEF Engine, recoverPendingRollback, LandAnswer, Review, LoopReturns, InLoop, Loop
<1>5. CASE afterLoop
  BY <1>5 DEF afterLoop, LoopPaused, LoopStalled, LoopNeedsHuman,
         ReopenQuestions,
         AutoConfirm, DesignPassed, NextLegGreen, AllLegsGreen, PinGreen, Loop
<1>6. CASE Harden
  BY <1>6 DEF Harden, HardenAgain, Repush, HardenGreen, NextLegHardened, ReviewNextLeg, MergeReady
<1>7. CASE parkFailure
  BY <1>7 DEF parkFailure, ScheduleRetry, Park, Throws, Guarded
<1>8. CASE Finish \/ remindStuck
  BY <1>8 DEF Finish, Notify, clearRetry, remindStuck
<1>9. CASE AutoRetry
  BY <1>9
<1>10. CASE reclaimOrphans
  BY <1>10 DEF reclaimOrphans, reclaimOne, Orphan, Running
<1>11. CASE applyAutonomy
  BY <1>11 DEF applyAutonomy, AutoGo, StartWriting, requestGateB, requestGateC,
         requestReviewPr, Act
<1>12. CASE HumanAction
  BY <1>12 DEF HumanAction, submitPmAnswers, submitAnswers, confirm, forceGateBGo, requestGateB,
         requestGateC, requestReviewPr, deny, ackMerged, Human, Act,
         Input, Stalled
<1>13. CASE go \/ ReopenDenied \/ Writer
  BY <1>13 DEF go, StartWriting, ReopenDenied, Writer, WriteReopened, WritesEnd, WriterTells
<1>14. CASE Crash \/ WriterDies
  BY <1>14 DEF Crash, WriterDies
<1>15. CASE UNCHANGED vars
  BY <1>15 DEF vars
<1> QED
  BY <1>1, <1>2, <1>3, <1>4, <1>5, <1>6, <1>7, <1>8, <1>9, <1>10, <1>11, <1>12,
     <1>13, <1>14, <1>15 DEF Next, Worker

\* the worker confirms a review in one place
LEMMA ConfirmedBy ==
  ASSUME Placed, [Next]_vars, state' = "CONFIRMED", state # "CONFIRMED", mover' = "worker"
  PROVE  AutoConfirm
<1>1. CASE Step
  BY <1>1 DEF Step, StepIntake, StepRevisionA, StepGateB, StepSetup, StepOpenPr, StepHarden,
         StepLoop, StepRevision, Start, Gates, Loop, Revision
<1>2. CASE afterGateA \/ runGateA \/ runGateARevision
  BY <1>2 DEF afterGateA, ReviewResolved, ReviewOpen, runGateA, runGateARevision
<1>3. CASE Prepare
  BY <1>3 DEF Prepare, runGateB, runGateCSetup, openReviewPr, EnterLoopB, EnterLoopC, EnterLoopD,
         Loop
<1>4. CASE Engine
  BY <1>4 DEF Engine, recoverPendingRollback, LandAnswer, Review, LoopReturns, InLoop
<1>5. CASE afterLoop
  BY <1>5 DEF afterLoop, LoopPaused, LoopStalled, LoopNeedsHuman,
         ReopenQuestions,
         DesignPassed, NextLegGreen, AllLegsGreen, PinGreen,
         Gates, Stalled, Input
<1>6. CASE Harden
  BY <1>6 DEF Harden, HardenAgain, Repush, HardenGreen, NextLegHardened, ReviewNextLeg, MergeReady
<1>7. CASE parkFailure
  BY <1>7, FailsInItsGate DEF parkFailure, ScheduleRetry, Park, Throws
<1>8. CASE Finish \/ remindStuck
  BY <1>8 DEF Finish, Notify, clearRetry, remindStuck
<1>9. CASE AutoRetry
  BY <1>9 DEF AutoRetry, planRetry,
         FAILED_STATES, Failed, Gates, RetryTarget, Loop, Revision
<1>10. CASE reclaimOrphans
  BY <1>10 DEF reclaimOrphans, ReclaimBack, reclaimOne, Orphan,
         Gates, Failed, ReclaimTarget, Loop, Revision
<1>11. CASE applyAutonomy
  BY <1>11 DEF applyAutonomy, AutoGo, StartWriting, requestGateB, requestGateC,
         requestReviewPr, Act
<1>12. CASE HumanAction
  BY <1>12 DEF HumanAction, submitPmAnswers, submitAnswers, confirm, forceGateBGo, requestGateB,
         requestGateC, requestReviewPr, deny, ackMerged, Human, Act, retry, planRetry,
         Gates, Revision
<1>13. CASE go \/ ReopenDenied \/ Writer
  BY <1>13 DEF go, StartWriting, ReopenDenied, Writer, WriteReopened, WritesEnd, WriterTells
<1>14. CASE Crash \/ WriterDies
  BY <1>14 DEF Crash, WriterDies
<1>15. CASE UNCHANGED vars
  BY <1>15 DEF vars
<1> QED
  BY <1>1, <1>2, <1>3, <1>4, <1>5, <1>6, <1>7, <1>8, <1>9, <1>10, <1>11, <1>12,
     <1>13, <1>14, <1>15 DEF Next, Worker

\* a session goes back to its intake only without an answer to re-review
LEMMA IntakeBy ==
  ASSUME Placed, [Next]_vars, state' = "INTAKE", state # "INTAKE"
  PROVE  pending["A"] # "text"
<1>1. CASE Step
  BY <1>1 DEF Step, StepIntake, StepRevisionA, StepGateB, StepSetup, StepOpenPr, StepHarden,
         StepLoop, StepRevision, Start, Gates, Loop, Revision
<1>2. CASE afterGateA \/ runGateA \/ runGateARevision
  BY <1>2 DEF afterGateA, ReviewResolved, ReviewOpen, runGateA, runGateARevision
<1>3. CASE Prepare
  BY <1>3 DEF Prepare, runGateB, runGateCSetup, openReviewPr, EnterLoopB, EnterLoopC, EnterLoopD,
         Loop
<1>4. CASE Engine
  BY <1>4 DEF Engine, recoverPendingRollback, LandAnswer, Review, LoopReturns, InLoop
<1>5. CASE afterLoop
  BY <1>5 DEF afterLoop, LoopPaused, LoopStalled, LoopNeedsHuman,
         ReopenQuestions,
         AutoConfirm, DesignPassed, NextLegGreen, AllLegsGreen, PinGreen,
         Gates, Stalled, Input
<1>6. CASE Harden
  BY <1>6 DEF Harden, HardenAgain, Repush, HardenGreen, NextLegHardened, ReviewNextLeg, MergeReady
<1>7. CASE parkFailure
  BY <1>7, FailsInItsGate DEF parkFailure, ScheduleRetry, Park, Throws
<1>8. CASE Finish \/ remindStuck
  BY <1>8 DEF Finish, Notify, clearRetry, remindStuck
<1>9. CASE AutoRetry
  BY <1>9 DEF AutoRetry, planRetry,
         FAILED_STATES, Failed, Gates, RetryTarget, Loop, Revision
<1>10. CASE reclaimOrphans
  BY <1>10 DEF reclaimOrphans, ReclaimBack, reclaimOne, Orphan,
         Gates, Failed, ReclaimTarget, Loop, Revision
<1>11. CASE applyAutonomy
  BY <1>11 DEF applyAutonomy, AutoGo, StartWriting, requestGateB, requestGateC,
         requestReviewPr, Act
<1>12. CASE HumanAction
  BY <1>12 DEF HumanAction, submitPmAnswers, submitAnswers, confirm, forceGateBGo, requestGateB,
         requestGateC, requestReviewPr, deny, ackMerged, Human, Act, retry, planRetry,
         FAILED_STATES, Failed, Gates, RetryTarget, Loop, Revision
<1>13. CASE go \/ ReopenDenied \/ Writer
  BY <1>13 DEF go, StartWriting, ReopenDenied, Writer, WriteReopened, WritesEnd, WriterTells
<1>14. CASE Crash \/ WriterDies
  BY <1>14 DEF Crash, WriterDies
<1>15. CASE UNCHANGED vars
  BY <1>15 DEF vars
<1> QED
  BY <1>1, <1>2, <1>3, <1>4, <1>5, <1>6, <1>7, <1>8, <1>9, <1>10, <1>11, <1>12,
     <1>13, <1>14, <1>15 DEF Next, Worker

(***************************************************************************)
(* The strengthened invariant holds throughout: module Pipeline never      *)
(* reaches a state in which one of its parts fails.                        *)
(***************************************************************************)
THEOREM Invariant == Spec => []IInv
<1>1. Init => TypeOK
  BY InitTyped
<1>2. Init => Placed /\ ThreadInv /\ DeadInv /\ DeathInv
  BY DEF Init, Placed, ThreadInv, DeadInv, DeathInv
<1>3. Init => TreeInv /\ OwedInv
  BY DEF Init, TreeInv, OwedInv, Built, Reviewing, Gates
<1>4. IInv /\ [Next]_vars => IInv'
  <2> SUFFICES ASSUME IInv, [Next]_vars PROVE IInv'
    OBVIOUS
  <2>1. TypeOK'
    BY ControlStep, FlagsStep, CountersStep, AnswersStep DEF IInv, TypeOK
  <2> QED BY <2>1, PlacedStep, ThreadStep, TreeStep, DeadStep, DeathStep, OwedStep
          DEF IInv, TypeOK
<1> QED BY <1>1, <1>2, <1>3, <1>4, PTL DEF Spec, IInv

(***************************************************************************)
(* The worker, the retries, the reclaims, the autonomy policy and the      *)
(* humans only ever ask the store for a transition its table allows, so    *)
(* sessions.transition never throws on them.                               *)
(***************************************************************************)
THEOREM OnlyLegalMoves == Spec => LegalMoves
<1>1. IInv /\ [Next]_vars => [canTransition(state, state')]_vars
  BY LegalStep DEF IInv
<1> QED BY <1>1, Invariant, PTL DEF Spec, LegalMoves

(***************************************************************************)
(* The orchestrator implements the ladder of Delivery: whatever fails,     *)
(* crashes or interleaves, a requirement climbs one stage at a time, each  *)
(* outward step is authorised, and only a human lets a merge through.      *)
(***************************************************************************)
THEOREM ImplementsDelivery == Spec => RefinesDelivery
<1>1. Init => D!Init
  BY StageTable DEF Init, D!Init
<1>2. IInv /\ IInv' /\ [Next]_vars => [D!Next]_<<StageOf[state], mover>>
  BY DeliveryStep DEF IInv, TypeOK
<1> QED BY <1>1, <1>2, Invariant, PTL DEF Spec, RefinesDelivery, D!Spec

(***************************************************************************)
(* afterGateAAdversarial never seals a review over an open question.       *)
(***************************************************************************)
THEOREM NoQuestionLeftOpen == Spec => AutoConfirmNeedsNoQuestions
<1>1. IInv /\ [Next]_vars =>
        [state' = "CONFIRMED" /\ state # "CONFIRMED" /\ mover' = "worker" => ~openQ]_vars
  <2> SUFFICES ASSUME IInv, [Next]_vars,
                      state' = "CONFIRMED", state # "CONFIRMED", mover' = "worker"
               PROVE  ~openQ
    OBVIOUS
  <2>1. AutoConfirm
    BY ConfirmedBy DEF IInv
  <2> QED BY <2>1 DEF AutoConfirm
<1> QED BY <1>1, Invariant, PTL DEF Spec, AutoConfirmNeedsNoQuestions

(***************************************************************************)
(* An answer given at Gates A, C or D stays stored until the artefact has  *)
(* taken it in, through every failure, retry, reclaim, crash and leg       *)
(* switch.                                                                 *)
(***************************************************************************)
THEOREM AnswersAreKept == Spec => []AnswersKeptAtACD
<1>1. IInv => AnswersKeptAtACD
  BY DEF IInv, OwedInv, AnswersKeptAtACD, AnswersKept
<1> QED BY <1>1, Invariant, PTL

(***************************************************************************)
(* As long as nobody submits a blank answer, a re-review of Gate A that    *)
(* failed or died before it took its answer in is never sent back to the   *)
(* intake.                                                                 *)
(***************************************************************************)
THEOREM ReReviewsResume == ASSUME BlankAnswers = FALSE PROVE Spec => ReReviewResumes
<1>1. IInv /\ [Next]_vars => [state' = "INTAKE" /\ state # "INTAKE" => ~owed["A"]]_vars
  <2> SUFFICES ASSUME IInv, [Next]_vars, state' = "INTAKE", state # "INTAKE" PROVE ~owed["A"]
    OBVIOUS
  <2>1. pending["A"] # "text"
    BY IntakeBy DEF IInv
  <2> QED BY <2>1 DEF IInv, TypeOK, AnswersOK, OwedInv, Gates
<1> QED BY <1>1, Invariant, PTL DEF Spec, ReReviewResumes

(***************************************************************************)
(* No retry or reclaim moves a dead letter: only a human does.             *)
(***************************************************************************)
THEOREM DeadLettersStay == Spec => DeadLettersWait
<1>1. IInv /\ [Next]_vars =>
        [dead /\ state \in FAILED_STATES /\ state' # state => mover' = "human"]_vars
  <2> SUFFICES ASSUME IInv, [Next]_vars, dead, state \in FAILED_STATES, state' # state
               PROVE  mover' = "human"
    OBVIOUS
  <2>1. AutoRetry \/ ReclaimBack \/ retry
    BY LeavesFailed DEF IInv
  <2>2. ~AutoRetry /\ ~ReclaimBack
    BY DEF AutoRetry, ReclaimBack, IInv, DeadInv
  <2> QED BY <2>1, <2>2 DEF retry, planRetry
<1> QED BY <1>1, Invariant, PTL DEF Spec, DeadLettersWait

(***************************************************************************)
(* Between two successes a session dies at most MaxReclaims + 1 times in a *)
(* RUNNING state, however often the process is killed.                     *)
(***************************************************************************)
THEOREM OrphansAreCapped == Spec => []OrphanRunsCapped
<1>1. IInv => OrphanRunsCapped
  BY PipelineAssumption DEF PipelineAssumption, IInv, TypeOK, CountersOK, DeathInv, OrphanRunsCapped
<1> QED BY <1>1, Invariant, PTL

(***************************************************************************)
(* The engine never reviews a fresh draft of Gate B with the reviewer      *)
(* thread of an earlier one.                                               *)
(***************************************************************************)
THEOREM ReviewersAreFresh == Spec => []FreshDraftFreshReviewer
<1>1. IInv => FreshDraftFreshReviewer
  BY DEF IInv, ThreadInv, FreshDraftFreshReviewer
<1> QED BY <1>1, Invariant, PTL

(***************************************************************************)
(* What Gate D is trusted with: a merge is only offered when the last leg  *)
(* is hardened, a reset that was not confirmed comes before any other use  *)
(* of the tree, and the loops have their worktree and their pull request.  *)
(***************************************************************************)
THEOREM TreesHold == Spec => []TreesAreSound
<1>1. IInv => TreesAreSound
  BY DEF IInv, TreeInv, Built, Reviewing, HardenedBeforeMerge, RollbackConfirmedFirst,
         TreeAndPrExist, TreesAreSound
<1> QED BY <1>1, Invariant, PTL

(***************************************************************************)
(* Whoever moves the session moves it along the table, and the machine     *)
(* never confirms a review over an open question.                          *)
(***************************************************************************)
THEOREM MovesHold == Spec => MovesAreAllowed
BY OnlyLegalMoves, NoQuestionLeftOpen, PTL DEF MovesAreAllowed

(***************************************************************************)
(* A retry or a reclaim keeps what waits, forgets an old reviewer with the *)
(* old draft, and is counted.                                              *)
(***************************************************************************)
THEOREM RetriesHold == Spec => []RetriesAreSound
BY AnswersAreKept, ReviewersAreFresh, OrphansAreCapped, PTL DEF RetriesAreSound

(***************************************************************************)
(* With answers that are never blank, a re-review goes on where it was;    *)
(* and only a human revives what automation has given up.                  *)
(***************************************************************************)
THEOREM HumansHeeded == ASSUME BlankAnswers = FALSE PROVE Spec => RetriesHeedHumans
BY ReReviewsResume, DeadLettersStay, PTL DEF RetriesHeedHumans
=============================================================================

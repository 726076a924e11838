------------------------------ MODULE Pipeline ------------------------------
(***************************************************************************)
(* One requirement's session as the orchestrator drives it: the worker of  *)
(* src/orchestrator/worker.ts, the retry rules of orchestrator/retry.ts,   *)
(* the human actions of src/actions.ts and the autonomy policy of          *)
(* statemachine/autonomyPolicy.ts, all writing the same session row.       *)
(*                                                                         *)
(* The tick lock gives the session one worker at a time (module TickLock). *)
(* A step of the worker is a sequence of writes with awaits between them,  *)
(* so human actions, taken by other processes, interleave with it and a    *)
(* crash may fall between any two.  The review/fix engine is the worker    *)
(* being at "loop": what a run of it may do to the session, and the five   *)
(* ways it returns.                                                        *)
(***************************************************************************)
EXTENDS Naturals, Lifecycle

CONSTANTS
  NLegs,        \* target repositories of the requirement, one leg each
  MaxPmRounds,  \* gate_a.max_pm_rounds
  MaxRetries,   \* retry.max_auto_retries
  MaxReclaims,  \* retry.max_reclaims
  MaxPauses,    \* bound on the pauses of one review/fix loop (ReviewFixLoop)
  MaxCrashes,   \* bound on the crashes
  BlankAnswers, \* TRUE: the product manager may submit an empty answer
  Level         \* the project's autonomy level, 0..4

ASSUME PipelineAssumption ==
  /\ NLegs \in Nat \ {0}
  /\ MaxPmRounds \in Nat \ {0}
  /\ MaxRetries \in Nat
  /\ MaxReclaims \in Nat
  /\ MaxPauses \in Nat
  /\ MaxCrashes \in Nat
  /\ BlankAnswers \in BOOLEAN
  /\ Level \in 0..4

VARIABLES
  state,      \* the session's state
  at,         \* where the worker is in its step of the session
  writer,     \* where an execution of go() is: "none" while there is none
  mover,      \* who moved the session last
  told,       \* the maintainer has heard of the state the session is in
  retries,    \* retry_count
  due,        \* next_retry_at is set: a retry fires once it has passed
  dead,       \* dead_letter
  reclaims,   \* reclaim_count
  pending,    \* gate_[abcd]_pending_input
  owed,       \* per gate: an accepted answer has not reached the artefact yet
  pmRound,    \* gate_a_round, 0 before the first review
  openQ,      \* gate-a.json has open questions
  adv,        \* gate_a_adv_round is set
  begun,      \* gate_b_round > 0
  thread,     \* gate_b_reviewer_session: "none", "live", or "stale" when it
              \* belongs to an earlier draft
  worktree,   \* worktree_path is set
  pr,         \* pr_url is set
  leg,        \* the leg the session points at
  rollback,   \* gate_d_rollback_to is set: a reset was never confirmed
  green,      \* gate_d_green_sha is pinned
  hardening,  \* gate_d_harden_round > 0
  verified,   \* gate_d_harden_verified_sha is set
  pauses,     \* pauses of the current loop since it was last given a budget
  crashes,    \* crashes so far
  deaths      \* crashes of this session's runs since it last made progress

book    == <<retries, due, dead, reclaims>>
answers == <<pending, owed>>
gateA   == <<pmRound, openQ, adv>>
gateB   == <<begun, thread>>
tree    == <<worktree, pr, leg, rollback, green, hardening, verified>>
ghosts  == <<crashes, deaths>>
work    == <<answers, gateA, gateB, tree, pauses>>
row     == <<book, work>>

vars == <<state, at, writer, mover, told, row, ghosts>>

-----------------------------------------------------------------------------
Gates == {"A", "B", "C", "D"}

Loop     == [A |-> "GATE_A_ADVERSARIAL", B |-> "ADVERSARIAL_LOOP",
             C |-> "GATE_C_LOOP", D |-> "GATE_D_LOOP"]
Revision == [A |-> "GATE_A_REVISION_REQUESTED", B |-> "GATE_B_REVISION_REQUESTED",
             C |-> "GATE_C_REVISION_REQUESTED", D |-> "GATE_D_REVISION_REQUESTED"]
Failed   == [A |-> "GATE_A_FAILED", B |-> "GATE_B_FAILED",
             C |-> "GATE_C_FAILED", D |-> "GATE_D_FAILED"]
Stalled  == [A |-> "GATE_A_STALLED", B |-> "GATE_B_STALLED",
             C |-> "GATE_C_STALLED", D |-> "GATE_D_STALLED"]
Input    == [B |-> "AWAITING_GATE_B_INPUT", C |-> "AWAITING_GATE_C_INPUT",
             D |-> "AWAITING_GATE_D_INPUT"]
Running  == [A |-> "GATE_A_RUNNING", B |-> "GATE_B_RUNNING", C |-> "GATE_C_RUNNING"]

FAILED_STATES == {Failed[g] : g \in Gates}

\* the gate a step of the worker is running for
GateOf ==
  [INTAKE |-> "A", GATE_A_RUNNING |-> "A", GATE_A_ADVERSARIAL |-> "A",
   GATE_B_RUNNING |-> "B", ADVERSARIAL_LOOP |-> "B",
   GATE_C_RUNNING |-> "C", GATE_C_LOOP |-> "C",
   GATE_D_REQUESTED |-> "D", GATE_D_LOOP |-> "D", GATE_D_HARDENING |-> "D"]

\* the worker's points inside the try blocks of step(): an error parks
Guarded == {"gateA", "revisionA", "judged", "gateB", "drafted", "setup",
            "openPr", "recover", "loop", "resolved", "harden", "hardening", "pushing",
            "switched"}

Points == Guarded \cup
  {"idle", "treeReady", "opened", "needsHuman", "stalled", "paused",
   "tell", "settle", "settleTell", "alarm", "reclaimed", "busy"}

ControlOK ==
  /\ state \in STATES
  /\ at \in Points
  /\ writer \in {"none", "reopened", "writing", "tell"}
  /\ mover \in {"none", "worker", "autonomy", "human"}
  /\ thread \in {"none", "live", "stale"}

FlagsOK ==
  /\ told \in BOOLEAN
  /\ due \in BOOLEAN /\ dead \in BOOLEAN
  /\ openQ \in BOOLEAN /\ adv \in BOOLEAN /\ begun \in BOOLEAN
  /\ worktree \in BOOLEAN /\ pr \in BOOLEAN
  /\ rollback \in BOOLEAN /\ green \in BOOLEAN
  /\ hardening \in BOOLEAN /\ verified \in BOOLEAN

CountersOK ==
  /\ retries \in 0..MaxRetries
  /\ reclaims \in 0..MaxReclaims
  /\ pmRound \in 0..(MaxPmRounds + 1)
  /\ leg \in 1..NLegs
  /\ pauses \in 0..MaxPauses
  /\ crashes \in 0..MaxCrashes
  /\ deaths \in [{"running", "loop"} -> Nat]

AnswersOK ==
  /\ pending \in [Gates -> {"none", "blank", "text"}]
  /\ owed \in [Gates -> BOOLEAN]

(***************************************************************************)
(* The type invariant: the values a session row and the worker may hold.   *)
(***************************************************************************)
TypeOK == ControlOK /\ FlagsOK /\ CountersOK /\ AnswersOK

Init ==
  /\ state \in {"INTAKE", "GATE_C_REQUESTED"}   \* a PRD, or a bare issue
  /\ at = "idle" /\ writer = "none" /\ mover = "none" /\ told = FALSE
  /\ retries = 0 /\ due = FALSE /\ dead = FALSE /\ reclaims = 0
  /\ pending = [g \in Gates |-> "none"]
  /\ owed = [g \in Gates |-> FALSE]
  /\ pmRound = 0 /\ openQ = FALSE /\ adv = FALSE
  /\ begun = FALSE /\ thread = "none"
  /\ worktree = FALSE /\ pr = FALSE /\ leg = 1
  /\ rollback = FALSE /\ green = FALSE /\ hardening = FALSE /\ verified = FALSE
  /\ pauses = 0
  /\ crashes = 0
  /\ deaths = [r \in {"running", "loop"} |-> 0]

\* sessions.transition: a move by the person at the keyboard tells them too
Move(to, who) ==
  /\ state' = to
  /\ mover' = who
  /\ told' = (who = "human")

Stay == UNCHANGED <<state, mover, told>>

Go(from, to) == at = from /\ at' = to

-----------------------------------------------------------------------------
(***************************************************************************)
(* step(): the worker takes up the session in a poller-driven state.       *)
(***************************************************************************)
Start(from, to, point) ==
  /\ Go("idle", point)
  /\ state = from
  /\ Move(to, "worker")
  /\ UNCHANGED <<writer, row, ghosts>>

StepIntake    == Start("INTAKE", "GATE_A_RUNNING", "gateA")
StepRevisionA == Start("GATE_A_REVISION_REQUESTED", "GATE_A_RUNNING", "revisionA")
StepGateB     == Start("GATE_B_REQUESTED", "GATE_B_RUNNING", "gateB")
StepSetup     == Start("GATE_C_REQUESTED", "GATE_C_RUNNING", "setup")
StepOpenPr    == Start("GATE_D_REQUESTED", "GATE_D_REQUESTED", "openPr")
StepHarden    == Start("GATE_D_HARDENING", "GATE_D_HARDENING", "harden")

\* mutant: the engine starts on a tree that was never put back
EntryUnrecovered(g) == "loop"

\* runGateDLoop confirms a pending rollback before the engine runs
Entry(g) == IF g = "D" THEN "recover" ELSE "loop"

StepLoop(g) == Start(Loop[g], Loop[g], Entry(g))

\* mutant: the answer is consumed when its revision starts
StepRevisionConsuming(g) ==
  /\ g # "A"
  /\ Go("idle", Entry(g))
  /\ state = Revision[g]
  /\ Move(Loop[g], "worker")
  /\ pending' = [pending EXCEPT ![g] = "none"]
  /\ UNCHANGED <<writer, book, owed, gateA, gateB, tree, pauses, ghosts>>

\* going back to the Gate D loop forgets the hardening of the old revision
StepRevision(g) ==
  /\ g # "A"
  /\ Go("idle", Entry(g))
  /\ state = Revision[g]
  /\ Move(Loop[g], "worker")
  /\ IF g = "D" THEN green' = FALSE /\ hardening' = FALSE /\ verified' = FALSE
                ELSE UNCHANGED <<green, hardening, verified>>
  /\ UNCHANGED <<writer, book, answers, gateA, gateB, worktree, pr, leg, rollback,
                 pauses, ghosts>>

Step == \/ StepIntake \/ StepRevisionA \/ StepGateB \/ StepSetup
        \/ StepOpenPr \/ StepHarden
        \/ \E g \in Gates : StepLoop(g) \/ StepRevision(g)

-----------------------------------------------------------------------------
(***************************************************************************)
(* Gate A: the first review, the re-review of an answer, the conclusion.   *)
(***************************************************************************)
\* the row is written; scaffolding and the document comment are still to come
runGateA ==
  /\ Go("gateA", "judged")
  /\ pmRound' = 1
  /\ openQ' \in BOOLEAN
  /\ Stay
  /\ UNCHANGED <<writer, book, answers, adv, gateB, tree, pauses, ghosts>>

\* rounds past the cap are not told apart
runGateARevision ==
  /\ Go("revisionA", "judged")
  /\ pmRound' = IF pmRound > MaxPmRounds THEN pmRound ELSE pmRound + 1
  /\ openQ' \in BOOLEAN
  /\ pending' = [pending EXCEPT !["A"] = "none"]
  /\ owed' = [owed EXCEPT !["A"] = FALSE]
  /\ Stay
  /\ UNCHANGED <<writer, book, adv, gateB, tree, pauses, ghosts>>

\* nothing open: on to the adversarial review, which is marked as begun
ReviewResolved ==
  /\ ~openQ
  /\ Go("judged", "settle")
  /\ Move("GATE_A_ADVERSARIAL", "worker")
  /\ adv' = TRUE
  /\ pauses' = 0
  /\ UNCHANGED <<writer, book, answers, pmRound, openQ, gateB, tree, ghosts>>

ReviewOpen ==
  /\ openQ
  /\ Go("judged", "tell")
  /\ Move(IF pmRound > MaxPmRounds THEN "GATE_A_STALLED" ELSE "AWAITING_PM_CONFIRM",
          "worker")
  /\ UNCHANGED <<writer, row, ghosts>>

afterGateA == ReviewResolved \/ ReviewOpen

-----------------------------------------------------------------------------
(***************************************************************************)
(* What comes before a loop: Gate B's first draft, Gate C's worktrees,     *)
(* Gate D's pull requests; each is written before the state moves on.      *)
(***************************************************************************)
runGateB ==
  /\ Go("gateB", "drafted")
  /\ thread' = IF thread = "live" THEN "stale" ELSE thread
  /\ Stay
  /\ UNCHANGED <<writer, book, answers, gateA, begun, tree, pauses, ghosts>>

\* activateLeg: the session points at leg l, with the loop state of a fresh one
activateLeg(l) ==
  /\ leg' = l
  /\ pending' = [pending EXCEPT !["C"] = "none", !["D"] = "none"]
  /\ rollback' = FALSE /\ green' = FALSE /\ hardening' = FALSE /\ verified' = FALSE
  /\ pauses' = 0

runGateCSetup ==
  /\ Go("setup", "treeReady")
  /\ worktree' = TRUE
  /\ activateLeg(1)
  /\ Stay
  /\ UNCHANGED <<writer, book, owed, gateA, gateB, pr, ghosts>>

openReviewPr ==
  /\ Go("openPr", "opened")
  /\ pr' = TRUE
  /\ Stay
  /\ UNCHANGED <<writer, book, answers, gateA, gateB, worktree, leg, rollback, green,
                 hardening, verified, pauses, ghosts>>

EnterLoopB ==
  /\ Go("drafted", "loop")
  /\ Move(Loop["B"], "worker")
  /\ UNCHANGED <<writer, row, ghosts>>

EnterLoopC ==
  /\ Go("treeReady", "loop")
  /\ Move(Loop["C"], "worker")
  /\ UNCHANGED <<writer, row, ghosts>>

\* with several legs the review starts over at the primary one
EnterLoopD ==
  /\ Go("opened", "recover")
  /\ Move(Loop["D"], "worker")
  /\ IF NLegs > 1 THEN activateLeg(1)
     ELSE pauses' = 0 /\ UNCHANGED <<pending, leg, rollback, green, hardening, verified>>
  /\ UNCHANGED <<writer, book, owed, gateA, gateB, worktree, pr, ghosts>>

Prepare == \/ runGateB \/ runGateCSetup \/ openReviewPr
           \/ EnterLoopB \/ EnterLoopC \/ EnterLoopD

-----------------------------------------------------------------------------
(***************************************************************************)
(* A run of the review/fix engine: fix first when an answer waits, then    *)
(* review and revise until it returns (see ReviewFixLoop).                 *)
(***************************************************************************)
recoverPendingRollback ==
  /\ Go("recover", "loop")
  /\ rollback' = FALSE
  /\ Stay
  /\ UNCHANGED <<writer, book, answers, gateA, gateB, worktree, pr, leg, green,
                 hardening, verified, pauses, ghosts>>

\* Gate A takes no answers in its loop: an old one stays where it is
Waiting(g) == g # "A" /\ pending[g] # "none"

InLoop(g) == at = "loop" /\ state = Loop[g]

LandAnswer(g) ==
  /\ InLoop(g)
  /\ Waiting(g)
  /\ pending' = [pending EXCEPT ![g] = "none"]
  /\ owed' = [owed EXCEPT ![g] = FALSE]
  /\ Stay
  /\ UNCHANGED <<at, writer, book, gateA, gateB, tree, pauses, ghosts>>

\* one review, and perhaps the revision it asks for, which may leave new
\* questions for the product manager in Gate A's artefact
Review(g) ==
  /\ InLoop(g)
  /\ ~Waiting(g)
  /\ IF g = "B" THEN /\ thread' = IF thread = "none" THEN "live" ELSE thread
                     /\ begun' \in {begun, TRUE}
                ELSE UNCHANGED gateB
  /\ IF g = "A" THEN openQ' \in {openQ, TRUE} ELSE UNCHANGED openQ
  /\ Stay
  /\ UNCHANGED <<at, writer, book, answers, pmRound, adv, tree, pauses, ghosts>>

LoopReturns(g) ==
  /\ InLoop(g)
  /\ \/ /\ ~Waiting(g)
        /\ at' = "resolved"
        /\ UNCHANGED pauses
     \/ /\ ~Waiting(g) /\ g # "A"
        /\ at' = "needsHuman"
        /\ UNCHANGED pauses
     \/ /\ at' = "stalled"
        /\ UNCHANGED pauses
     \/ /\ pauses < MaxPauses
        /\ at' = "paused"
        /\ pauses' = pauses + 1
  /\ Stay
  /\ UNCHANGED <<writer, book, answers, gateA, gateB, tree, ghosts>>

Engine == \/ recoverPendingRollback
          \/ \E g \in Gates : LandAnswer(g) \/ Review(g) \/ LoopReturns(g)

-----------------------------------------------------------------------------
(***************************************************************************)
(* The conclusions: afterGateAAdversarial, afterGateB, afterGateC and      *)
(* afterGateD.                                                             *)
(***************************************************************************)
LoopPaused ==
  /\ Go("paused", "settle")
  /\ Stay
  /\ UNCHANGED <<writer, row, ghosts>>

LoopStalled(g) ==
  /\ Go("stalled", "tell")
  /\ state = Loop[g]
  /\ Move(Stalled[g], "worker")
  /\ UNCHANGED <<writer, row, ghosts>>

LoopNeedsHuman(g) ==
  /\ g # "A"
  /\ Go("needsHuman", "tell")
  /\ state = Loop[g]
  /\ Move(Input[g], "worker")
  /\ UNCHANGED <<writer, row, ghosts>>

\* the adversarial review raised questions nobody answered: back to the
\* product manager, with the round voided
ReopenQuestions ==
  /\ Go("resolved", "tell")
  /\ state = Loop["A"]
  /\ openQ
  /\ Move("AWAITING_PM_CONFIRM", "worker")
  /\ adv' = FALSE
  /\ UNCHANGED <<writer, book, answers, pmRound, openQ, gateB, tree, pauses, ghosts>>

\* mutant: the review may be sealed over open questions
AutoConfirmBlind ==
  /\ Go("resolved", "tell")
  /\ state = Loop["A"]
  /\ Move("CONFIRMED", "worker")
  /\ UNCHANGED <<writer, row, ghosts>>

AutoConfirm ==
  /\ Go("resolved", "tell")
  /\ state = Loop["A"]
  /\ ~openQ
  /\ Move("CONFIRMED", "worker")
  /\ UNCHANGED <<writer, row, ghosts>>

DesignPassed ==
  /\ Go("resolved", "tell")
  /\ state = Loop["B"]
  /\ Move("AWAITING_GO", "worker")
  /\ UNCHANGED <<writer, row, ghosts>>

NextLegGreen ==
  /\ Go("resolved", "settle")
  /\ state = Loop["C"]
  /\ leg < NLegs
  /\ activateLeg(leg + 1)
  /\ Stay
  /\ UNCHANGED <<writer, book, owed, gateA, gateB, worktree, pr, ghosts>>

\* mutant: a green implementation goes on to its pull request by itself
AllLegsGreenUnasked ==
  /\ Go("resolved", "tell")
  /\ state = Loop["C"]
  /\ leg = NLegs
  /\ Move("GATE_D_REQUESTED", "worker")
  /\ UNCHANGED <<writer, row, ghosts>>

AllLegsGreen ==
  /\ Go("resolved", "tell")
  /\ state = Loop["C"]
  /\ leg = NLegs
  /\ Move("AWAITING_GATE_D", "worker")
  /\ UNCHANGED <<writer, row, ghosts>>

PinGreen ==
  /\ Go("resolved", "settle")
  /\ state = Loop["D"]
  /\ green' = TRUE
  /\ Move("GATE_D_HARDENING", "worker")
  /\ UNCHANGED <<writer, book, answers, gateA, gateB, worktree, pr, leg, rollback,
                 hardening, verified, pauses, ghosts>>

afterLoop ==
  \/ LoopPaused
  \/ \E g \in Gates : LoopStalled(g) \/ LoopNeedsHuman(g)
  \/ ReopenQuestions \/ AutoConfirm \/ DesignPassed
  \/ NextLegGreen \/ AllLegsGreen \/ PinGreen

-----------------------------------------------------------------------------
(***************************************************************************)
(* runGateDHarden and runGateDHardenStep.                                  *)
(***************************************************************************)
\* a missing baseline throws (Park); a verified one may only need its push
HardenAgain ==
  /\ Go("harden", "hardening")
  /\ green
  /\ hardening' = TRUE
  /\ verified' = FALSE
  /\ Stay
  /\ UNCHANGED <<writer, book, answers, gateA, gateB, worktree, pr, leg, rollback,
                 green, pauses, ghosts>>

Repush ==
  /\ Go("harden", "pushing")
  /\ green /\ verified
  /\ Stay
  /\ UNCHANGED <<writer, row, ghosts>>

HardenGreen ==
  /\ Go("hardening", "pushing")
  /\ verified' = TRUE
  /\ Stay
  /\ UNCHANGED <<writer, book, answers, gateA, gateB, worktree, pr, leg, rollback,
                 green, hardening, pauses, ghosts>>

NextLegHardened ==
  /\ Go("pushing", "switched")
  /\ leg < NLegs
  /\ activateLeg(leg + 1)
  /\ Stay
  /\ UNCHANGED <<writer, book, owed, gateA, gateB, worktree, pr, ghosts>>

ReviewNextLeg ==
  /\ Go("switched", "settle")
  /\ Move("GATE_D_LOOP", "worker")
  /\ UNCHANGED <<writer, row, ghosts>>

\* mutant: the first hardened leg makes the requirement ready
MergeReadyEarly ==
  /\ Go("pushing", "settleTell")
  /\ Move("AWAITING_HUMAN_MERGE", "worker")
  /\ UNCHANGED <<writer, row, ghosts>>

MergeReady ==
  /\ Go("pushing", "settleTell")
  /\ leg = NLegs
  /\ Move("AWAITING_HUMAN_MERGE", "worker")
  /\ UNCHANGED <<writer, row, ghosts>>

Harden == \/ HardenAgain \/ Repush \/ HardenGreen
          \/ NextLegHardened \/ ReviewNextLeg \/ MergeReady

-----------------------------------------------------------------------------
(***************************************************************************)
(* Failures, notifications and bookkeeping.                                *)
(***************************************************************************)
\* a failed reset of the Gate D worktree leaves its mark before it throws
Throws(g) ==
  /\ at \in Guarded
  /\ g = GateOf[state]
  /\ IF state = "GATE_D_LOOP" /\ at = "loop" THEN rollback' \in {rollback, TRUE}
                                             ELSE UNCHANGED rollback
  /\ UNCHANGED <<writer, answers, gateA, gateB, worktree, pr, leg, green, hardening,
                 verified, pauses, ghosts>>

\* mutant: a transient error is not counted
ScheduleRetryUncounted(g) ==
  /\ Throws(g)
  /\ ~dead
  /\ Move(Failed[g], "worker")
  /\ at' = "idle"
  /\ due' = TRUE
  /\ UNCHANGED <<retries, dead, reclaims>>

\* mutant: one retry too many
ScheduleRetryOffByOne(g) ==
  /\ Throws(g)
  /\ retries <= MaxRetries
  /\ ~dead
  /\ Move(Failed[g], "worker")
  /\ at' = "idle"
  /\ retries' = retries + 1
  /\ due' = TRUE
  /\ UNCHANGED <<dead, reclaims>>

\* parkFailure, a transient error with retries left: no notification.  What
\* precedes the first round of the hardening is local and fails for good.
ScheduleRetry(g) ==
  /\ Throws(g)
  /\ at = "harden" => hardening
  /\ retries < MaxRetries
  /\ ~dead
  /\ Move(Failed[g], "worker")
  /\ at' = "idle"
  /\ retries' = retries + 1
  /\ due' = TRUE
  /\ UNCHANGED <<dead, reclaims>>

\* parkFailure, a permanent error, or a transient one that is out of retries
Park(g) ==
  /\ Throws(g)
  /\ Move(Failed[g], "worker")
  /\ at' = "alarm"
  /\ due' = FALSE
  /\ \/ UNCHANGED dead
     \/ retries = MaxRetries /\ dead' = TRUE
  /\ UNCHANGED <<retries, reclaims>>

parkFailure == \E g \in Gates : ScheduleRetry(g) \/ Park(g)

\* notify: the messaging platform may be down, and a card about a state a
\* human has moved the session out of tells nothing of the new one
Notify(from, to) ==
  /\ Go(from, to)
  /\ \/ UNCHANGED told
     \/ mover = "worker" /\ told' = TRUE
  /\ UNCHANGED <<state, writer, mover, row, ghosts>>

clearRetry(from, to) ==
  /\ Go(from, to)
  /\ retries' = 0 /\ due' = FALSE /\ reclaims' = 0 /\ dead' = FALSE
  /\ deaths' = [r \in {"running", "loop"} |-> 0]
  /\ Stay
  /\ UNCHANGED <<writer, work, crashes>>

Finish == \/ Notify("tell", "settle") \/ clearRetry("settle", "idle")
          \/ clearRetry("settleTell", "alarm") \/ Notify("alarm", "idle")

-----------------------------------------------------------------------------
(***************************************************************************)
(* planRetry: where a failed session resumes, and what it forgets.         *)
(***************************************************************************)
RetryTarget ==
  CASE state = "GATE_A_FAILED" ->
         IF adv THEN Loop["A"]
         ELSE IF pending["A"] = "text" THEN Revision["A"] ELSE "INTAKE"
    [] state = "GATE_B_FAILED" ->
         IF ~begun THEN "GATE_B_REQUESTED"
         ELSE IF pending["B"] = "none" THEN Loop["B"] ELSE Revision["B"]
    [] state = "GATE_C_FAILED" ->
         IF ~worktree THEN "GATE_C_REQUESTED"
         ELSE IF pending["C"] = "none" THEN Loop["C"] ELSE Revision["C"]
    [] state = "GATE_D_FAILED" ->
         IF ~rollback /\ hardening THEN "GATE_D_HARDENING"
         ELSE IF ~rollback /\ ~pr THEN "GATE_D_REQUESTED"
         ELSE IF pending["D"] = "none" THEN Loop["D"] ELSE Revision["D"]

\* mutant: the clean re-run of Gate B resumes the old reviewer
planRetryOldThread(who) ==
  /\ state \in FAILED_STATES
  /\ Move(RetryTarget, who)
  /\ UNCHANGED <<at, writer, answers, gateA, gateB, tree, crashes>>

planRetry(who) ==
  /\ state \in FAILED_STATES
  /\ Move(RetryTarget, who)
  /\ pending' = CASE RetryTarget = "GATE_B_REQUESTED" -> [pending EXCEPT !["B"] = "none"]
                  [] RetryTarget = "GATE_C_REQUESTED" -> [pending EXCEPT !["C"] = "none"]
                  [] OTHER -> pending
  /\ IF RetryTarget = "GATE_B_REQUESTED" THEN begun' = FALSE /\ thread' = "none"
                                         ELSE UNCHANGED gateB
  /\ UNCHANGED <<at, writer, owed, gateA, tree, crashes>>

\* mutant: every failed session is retried
AutoRetryAll ==
  /\ at = "idle"
  /\ planRetry("worker")
  /\ due' = FALSE
  /\ UNCHANGED <<retries, dead, reclaims, pauses, deaths>>

\* reconcileRetries
AutoRetry ==
  /\ at = "idle"
  /\ ~dead /\ due
  /\ planRetry("worker")
  /\ due' = FALSE
  /\ UNCHANGED <<retries, dead, reclaims, pauses, deaths>>

(***************************************************************************)
(* reclaimOrphans: a RUNNING state at the start of a tick is what a dead   *)
(* tick left.  It fails the session and puts it back, two writes, until    *)
(* the cap moves it to the dead letters.                                   *)
(***************************************************************************)
Orphan(g) == at = "idle" /\ g # "D" /\ state = Running[g]

\* mutant: reclaims are not counted
reclaimOneUncounted(g) ==
  /\ Orphan(g)
  /\ Move(Failed[g], "worker")
  /\ at' = "reclaimed"
  /\ UNCHANGED <<writer, book, work, ghosts>>

reclaimOne(g) ==
  /\ Orphan(g)
  /\ Move(Failed[g], "worker")
  /\ IF dead \/ reclaims = MaxReclaims
       THEN at' = "alarm" /\ dead' = TRUE /\ due' = FALSE /\ UNCHANGED reclaims
       ELSE at' = "reclaimed" /\ reclaims' = reclaims + 1 /\ UNCHANGED <<dead, due>>
  /\ UNCHANGED <<writer, retries, work, ghosts>>

\* mutants: an orphaned review starts over; an orphaned setup goes on as if it
\* had made its worktree
ReclaimTargetAfresh == IF state = "GATE_A_FAILED" THEN "INTAKE" ELSE "GATE_C_REQUESTED"
ReclaimTargetNoTree == IF state = "GATE_C_FAILED" THEN Loop["C"] ELSE "INTAKE"

ReclaimTarget ==
  CASE state = "GATE_A_FAILED" -> IF pending["A"] = "text" THEN Revision["A"] ELSE "INTAKE"
    [] state = "GATE_B_FAILED" -> "GATE_B_REQUESTED"
    [] state = "GATE_C_FAILED" -> IF worktree THEN Loop["C"] ELSE "GATE_C_REQUESTED"
    [] OTHER -> state   \* a manual retry got here first, by the same rule

ReclaimBack ==
  /\ Go("reclaimed", "alarm")
  /\ Move(ReclaimTarget, "worker")
  /\ UNCHANGED <<writer, row, ghosts>>

reclaimOrphans == ReclaimBack \/ \E g \in Gates : reclaimOne(g)

\* STUCK_KIND: the parked states a reminder is sent for
STUCK_KIND == {"GATE_A_FAILED", "GATE_B_FAILED", "WRITE_FAILED", "GATE_A_STALLED",
               "GATE_B_STALLED", "AWAITING_GATE_B_INPUT", "AWAITING_GO", "CONFIRMED"}

\* mutant: no failed session is reminded of until it is a dead letter
remindStuckDeadOnly ==
  /\ at = "idle"
  /\ state \in STUCK_KIND
  /\ ~(state \in FAILED_STATES /\ ~dead)
  /\ told' = TRUE
  /\ UNCHANGED <<state, at, writer, mover, row, ghosts>>

\* a reminder that is lost is sent again REMIND_EVERY_MS later
remindStuck ==
  /\ at = "idle"
  /\ state \in STUCK_KIND
  /\ ~(state \in FAILED_STATES /\ ~dead /\ due)
  /\ told' = TRUE
  /\ UNCHANGED <<state, at, writer, mover, row, ghosts>>

-----------------------------------------------------------------------------
(***************************************************************************)
(* The human actions.  Each is refused, changing nothing, when the caller  *)
(* is not on the allow list or the state is not the one it expects.        *)
(***************************************************************************)
Act(from, to, who) ==
  /\ state = from
  /\ Move(to, who)
  /\ UNCHANGED <<at, writer, row, ghosts>>

Human(from, to) == Act(from, to, "human")

\* a blank answer of the product manager is stored as it is
submitPmAnswers ==
  /\ state = "AWAITING_PM_CONFIRM"
  /\ Move(Revision["A"], "human")
  /\ \E a \in {"text"} \cup (IF BlankAnswers THEN {"blank"} ELSE {}) :
       pending' = [pending EXCEPT !["A"] = a]
  /\ owed' = [owed EXCEPT !["A"] = TRUE]
  /\ UNCHANGED <<at, writer, book, gateA, gateB, tree, pauses, ghosts>>

\* submitGateBAnswers, submitGateCAnswers, submitGateDAnswers: a blank answer
\* is replaced by a placeholder
submitAnswers(g) ==
  /\ g # "A"
  /\ state \in {Input[g], Stalled[g]}
  /\ Move(Revision[g], "human")
  /\ pending' = [pending EXCEPT ![g] = "text"]
  /\ owed' = [owed EXCEPT ![g] = TRUE]
  /\ pauses' = 0
  /\ UNCHANGED <<at, writer, book, gateA, gateB, tree, ghosts>>

confirm == Human("AWAITING_PM_CONFIRM", "CONFIRMED") \/ Human("GATE_A_STALLED", "CONFIRMED")

\* mutant: an unanswered escalation can be forced through as well
forceGateBGoAnyway ==
  Human("GATE_B_STALLED", "AWAITING_GO") \/ Human("AWAITING_GATE_B_INPUT", "AWAITING_GO")

forceGateBGo == Human("GATE_B_STALLED", "AWAITING_GO")
requestGateC(who) == Act("DONE", "GATE_C_REQUESTED", who)
requestReviewPr(who) == Act("AWAITING_GATE_D", "GATE_D_REQUESTED", who)

\* the loop of Gate B has its own budget
requestGateB(who) ==
  /\ state = "CONFIRMED"
  /\ Move("GATE_B_REQUESTED", who)
  /\ pauses' = 0
  /\ UNCHANGED <<at, writer, book, answers, gateA, gateB, tree, ghosts>>

deny == Human("AWAITING_GO", "GO_DENIED")
ackMerged == Human("AWAITING_HUMAN_MERGE", "SHIPPED")

\* a manual retry also clears the bookkeeping and the loop's circuit breaker
retry ==
  /\ planRetry("human")
  /\ retries' = 0 /\ due' = FALSE /\ reclaims' = 0 /\ dead' = FALSE
  /\ pauses' = 0
  /\ deaths' = [r \in {"running", "loop"} |-> 0]

HumanAction ==
  \/ submitPmAnswers \/ (\E g \in Gates : submitAnswers(g)) \/ confirm
  \/ forceGateBGo \/ requestGateB("human") \/ requestGateC("human")
  \/ requestReviewPr("human") \/ deny \/ ackMerged \/ retry

-----------------------------------------------------------------------------
(***************************************************************************)
(* go(): it moves the session to WRITING and then creates the issues in    *)
(* the process it was called in; a denied session is first put back.       *)
(***************************************************************************)
StartWriting(from, who) ==
  /\ writer = "none"
  /\ state = from
  /\ Move("WRITING", who)
  /\ writer' = "writing"
  /\ UNCHANGED <<row, ghosts>>

ReopenDenied ==
  /\ writer = "none"
  /\ state = "GO_DENIED"
  /\ Move("AWAITING_GO", "human")
  /\ writer' = "reopened"
  /\ UNCHANGED <<at, row, ghosts>>

\* the second transition of go(), refused if the state moved on meanwhile
WriteReopened ==
  /\ writer = "reopened"
  /\ IF state = "AWAITING_GO" THEN Move("WRITING", "human") /\ writer' = "writing"
                              ELSE Stay /\ writer' = "none"
  /\ UNCHANGED <<at, row, ghosts>>

WritesEnd ==
  /\ writer = "writing"
  /\ state' \in {"DONE", "WRITE_FAILED"}
  /\ mover' = IF at = "busy" THEN "autonomy" ELSE "human"
  /\ told' = FALSE
  /\ writer' = "tell"
  /\ UNCHANGED <<at, row, ghosts>>

\* its notification; go() returns, to the worker if autonomy called it
WriterTells ==
  /\ writer = "tell"
  /\ writer' = "none"
  /\ \/ UNCHANGED told
     \/ state \in {"DONE", "WRITE_FAILED"} /\ told' = TRUE
  /\ at' = IF at = "busy" THEN "idle" ELSE at
  /\ UNCHANGED <<state, mover, row, ghosts>>

go == /\ StartWriting("AWAITING_GO", "human") \/ StartWriting("WRITE_FAILED", "human")
      /\ UNCHANGED at

Writer == WriteReopened \/ WritesEnd \/ WriterTells

-----------------------------------------------------------------------------
(***************************************************************************)
(* applyAutonomy: at level k a tick takes the first k authorisations of    *)
(* the ladder itself.  An attempt that is refused changes nothing.         *)
(***************************************************************************)
AutoGo ==
  /\ Level >= 2
  /\ Go("idle", "busy")
  /\ StartWriting("AWAITING_GO", "autonomy")

applyAutonomy ==
  \/ AutoGo
  \/ /\ at = "idle"
     /\ \/ Level >= 1 /\ requestGateB("autonomy")
        \/ Level >= 3 /\ requestGateC("autonomy")
        \/ Level >= 4 /\ requestReviewPr("autonomy")

(***************************************************************************)
(* Crashes.  The session row survives as it is.  An error the worker meets *)
(* outside the try blocks of step() ends its step in the same way.         *)
(***************************************************************************)
Crash ==
  /\ crashes < MaxCrashes
  /\ at # "idle"
  /\ at' = "idle"
  /\ writer' = IF at = "busy" THEN "none" ELSE writer
  /\ crashes' = crashes + 1
  /\ deaths' = IF at \notin Guarded THEN deaths
               ELSE IF \E g \in DOMAIN Running : state = Running[g]
                      THEN [deaths EXCEPT !["running"] = @ + 1]
                      ELSE [deaths EXCEPT !["loop"] = @ + 1]
  /\ Stay
  /\ UNCHANGED row

\* the process a human called go() in dies
WriterDies ==
  /\ crashes < MaxCrashes
  /\ writer # "none"
  /\ at # "busy"
  /\ writer' = "none"
  /\ crashes' = crashes + 1
  /\ Stay
  /\ UNCHANGED <<at, row, deaths>>

-----------------------------------------------------------------------------
Worker ==
  \/ Step \/ afterGateA \/ runGateA \/ runGateARevision
  \/ Prepare \/ Engine \/ afterLoop \/ Harden \/ parkFailure \/ Finish
  \/ AutoRetry \/ reclaimOrphans \/ remindStuck \/ applyAutonomy

Next == Worker \/ HumanAction \/ go \/ ReopenDenied \/ Writer \/ Crash \/ WriterDies

Spec == Init /\ [][Next]_vars

\* The scheduler ticks again and again and go() runs to its end; no human is
\* obliged to do anything.
Fairness == WF_vars(Worker) /\ WF_vars(Writer)

FairSpec == Spec /\ Fairness
=============================================================================

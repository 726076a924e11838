------------------------- MODULE PipelineProperties -------------------------
(***************************************************************************)
(* What the orchestrator owes a requirement: the properties of module      *)
(* Pipeline, and the refinement that shows it implements Delivery.         *)
(***************************************************************************)
EXTENDS Pipeline

(***************************************************************************)
(* Every move of the session is one the transition table allows, whichever *)
(* of the worker, the retries, the reclaims and the humans makes it: the   *)
(* store's transition() would throw, and the step be lost, otherwise.      *)
(***************************************************************************)
LegalMoves == [][canTransition(state, state')]_vars

-----------------------------------------------------------------------------
\* how far a session has come, seen from outside
StageOf ==
  [s \in STATES |->
     CASE s \in {"INTAKE", "GATE_A_RUNNING", "AWAITING_PM_CONFIRM", "GATE_A_REVISION_REQUESTED",
                 "GATE_A_ADVERSARIAL", "GATE_A_STALLED", "GATE_A_FAILED"} -> "review"
       [] s = "CONFIRMED" -> "confirmed"
       [] s \in {"GATE_B_REQUESTED", "GATE_B_RUNNING", "ADVERSARIAL_LOOP", "AWAITING_GATE_B_INPUT",
                 "GATE_B_REVISION_REQUESTED", "GATE_B_STALLED", "GATE_B_FAILED"} -> "design"
       [] s \in {"AWAITING_GO", "GO_DENIED", "WRITE_FAILED"} -> "awaitingGo"
       [] s = "WRITING" -> "writing"
       [] s = "DONE" -> "created"
       [] s \in {"GATE_C_REQUESTED", "GATE_C_RUNNING", "GATE_C_LOOP", "AWAITING_GATE_C_INPUT",
                 "GATE_C_REVISION_REQUESTED", "GATE_C_STALLED", "GATE_C_FAILED"} -> "build"
       [] s = "AWAITING_GATE_D" -> "awaitingPr"
       [] s = "AWAITING_HUMAN_MERGE" -> "awaitingMerge"
       [] s = "SHIPPED" -> "shipped"
       [] OTHER -> "pr"]

D == INSTANCE Delivery WITH stage <- StageOf[state]

(***************************************************************************)
(* The orchestrator implements Delivery: no retry, reclaim, crash or       *)
(* interleaving takes a requirement back to an earlier stage, past an      *)
(* authorisation, or into a merge no human let through.                    *)
(***************************************************************************)
RefinesDelivery == D!Spec

-----------------------------------------------------------------------------
(***************************************************************************)
(* Gate A is never sealed by the machine over a question the product       *)
(* manager has not answered, the ones its own review raised included.      *)
(***************************************************************************)
AutoConfirmNeedsNoQuestions ==
  [][state' = "CONFIRMED" /\ state # "CONFIRMED" /\ mover' = "worker" => ~openQ]_vars

(***************************************************************************)
(* Whoever moves the session - the worker going on with the row it read,   *)
(* a retry, the autonomy policy, a human at the same moment - moves it     *)
(* along the table, and the machine never in place of an unasked human.    *)
(***************************************************************************)
MovesAreAllowed == LegalMoves /\ AutoConfirmNeedsNoQuestions

(***************************************************************************)
(* "The next tick retries, and the answer is never lost": an answer a      *)
(* human gave is stored until the artefact of its gate has taken it in,    *)
(* through failures, retries, reclaims and crashes.                        *)
(***************************************************************************)
AnswersKept(g) == owed[g] => pending[g] # "none"
AnswersKeptAtACD == \A g \in {"A", "C", "D"} : AnswersKept(g)
AnswersKeptAtB == AnswersKept("B")

(***************************************************************************)
(* A re-review of Gate A that failed or died before it took the answer in  *)
(* is taken up where it was: the session is not sent back to its intake,   *)
(* where a first review would start over and the answer be ignored.        *)
(***************************************************************************)
ReReviewResumes == [][state' = "INTAKE" /\ state # "INTAKE" => ~owed["A"]]_vars

(***************************************************************************)
(* A clean re-run of Gate B forgets the old reviewer, "so an old codex     *)
(* thread cannot be resumed against a brand-new draft".                    *)
(***************************************************************************)
FreshDraftFreshReviewer == InLoop("B") => thread # "stale"

\* "Without losing the rounds already accumulated": the round never goes back
RoundsKept == [][pmRound' >= pmRound]_vars

(***************************************************************************)
(* "Automation has given up; a manual retry clears it": once a failed      *)
(* session is a dead letter only a human moves it.                         *)
(***************************************************************************)
DeadLettersWait ==
  [][dead /\ state \in FAILED_STATES /\ state' # state => mover' = "human"]_vars

(***************************************************************************)
(* A run that keeps killing its process is put aside: between two          *)
(* successes a session dies in a RUNNING state at most MaxReclaims + 1     *)
(* times before it becomes a dead letter.                                  *)
(***************************************************************************)
OrphanRunsCapped == deaths["running"] <= MaxReclaims + 1

(***************************************************************************)
(* What a retry or a reclaim takes up and what it starts afresh belong     *)
(* together: an answer that waits survives it, a new draft never meets the *)
(* reviewer of the old one, and runs that die are not revived for ever.    *)
(***************************************************************************)
RetriesAreSound == AnswersKeptAtACD /\ FreshDraftFreshReviewer /\ OrphanRunsCapped

(***************************************************************************)
(* No retry passes over a human: one who has answered a re-review is heard *)
(* before anything starts over, and one who is left to decide about what   *)
(* automation has given up decides.                                        *)
(***************************************************************************)
RetriesHeedHumans == ReReviewResumes /\ DeadLettersWait

\* the same promise for the runs that die in a poller-driven state
PoisonPillCapped == deaths["loop"] <= MaxReclaims + 1

(***************************************************************************)
(* A requirement waits for its merge only when its last leg is hardened on *)
(* a tree that no failed reset has left behind.                            *)
(***************************************************************************)
HardenedBeforeMerge ==
  state \in {"AWAITING_HUMAN_MERGE", "SHIPPED"} => green /\ verified /\ leg = NLegs /\ ~rollback

(***************************************************************************)
(* A tree whose reset was never confirmed is reset before the engine, the  *)
(* hardening or a push touches it again.                                   *)
(***************************************************************************)
RollbackConfirmedFirst ==
  rollback => at \notin {"loop", "resolved", "harden", "hardening", "pushing"}

(***************************************************************************)
(* The implementation loop always has its worktree and the review loop its *)
(* pull request, whatever failed, was retried or was reclaimed before.     *)
(***************************************************************************)
TreeAndPrExist ==
  /\ state \in {"GATE_C_LOOP", "AWAITING_GATE_D", "GATE_D_LOOP", "GATE_D_HARDENING"} => worktree
  /\ state \in {"GATE_D_LOOP", "GATE_D_HARDENING", "AWAITING_HUMAN_MERGE"} => pr

(***************************************************************************)
(* The columns that describe the tree are true of it at every step that    *)
(* relies on them, over failing resets, leg switches, retries and deaths.  *)
(***************************************************************************)
TreesAreSound == HardenedBeforeMerge /\ RollbackConfirmedFirst /\ TreeAndPrExist

\* "Idempotent on re-entry": a run of the hardening, the first or a repeated
\* one, finds the baseline the loop pinned
HardeningHasBaseline == at = "harden" => green

-----------------------------------------------------------------------------
Parked ==
  \/ state \in HUMAN_GATES \cup {"DONE", "SHIPPED", "GO_DENIED", "WRITE_FAILED"}
  \/ state \in FAILED_STATES /\ (dead \/ ~due)

(***************************************************************************)
(* Unless humans keep moving it, a session always comes to rest where they *)
(* look, and its maintainer has heard of the state it rests in: no cycle   *)
(* of pauses, transient failures, retries, reclaims and crashes goes on    *)
(* for ever, and a card that was lost is sent again, in each state         *)
(* remindStuck looks at.  (WRITING is NeverStranded's concern.)            *)
(***************************************************************************)
Heard == told \/ state \notin STUCK_KIND

RestsAndIsHeard ==
  []<><<HumanAction>>_vars \/ []<>((Parked /\ Heard) \/ state = "WRITING")

Remembered(s) == state = s /\ ~told ~> told \/ state # s

\* "closes the hole where a single failure or arbitration card sent while the
\* IM was down would mean nobody ever finds out": in every failed and stalled state
EveryCardIsRemembered ==
  \A g \in Gates : Remembered(Failed[g]) /\ Remembered(Stalled[g])

\* a process that dies while it creates the issues leaves a session that goes on
NeverStranded == state = "WRITING" ~> state # "WRITING"
=============================================================================

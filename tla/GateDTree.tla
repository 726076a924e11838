------------------------------ MODULE GateDTree ------------------------------
(***************************************************************************)
(* The worktree and the pull request of one leg in Gate D: the adversarial *)
(* revisions of src/gates/gateDLoop.ts, the pinning of what was reviewed   *)
(* (afterGateD) and the test hardening of src/gates/gateDHarden.ts.  Git,  *)
(* the models and the CI script may fail at every call, and the process    *)
(* may die between any two of them.  Which round it is and what the        *)
(* reviewer says is left to ReviewFixLoop; legs are left to Pipeline.      *)
(***************************************************************************)
EXTENDS Naturals

CONSTANTS
  MaxSelfFixes,   \* MAX_CI_FIX_ATTEMPTS, MAX_HARDEN_CI_FIX_ATTEMPTS
  FalseFailures,  \* a push that reports a failure may have reached the remote
  MaxCommits,     \* bound on the commits
  MaxCrashes      \* bound on the crashes

ASSUME GateDTreeAssumption ==
  /\ MaxSelfFixes \in Nat
  /\ FalseFailures \in BOOLEAN
  /\ MaxCommits \in Nat \ {0}
  /\ MaxCrashes \in Nat

VARIABLES
  stage,       \* GATE_D_LOOP, GATE_D_HARDENING or AWAITING_HUMAN_MERGE
  pc,          \* where the step is; "idle" between steps, "failed" in GATE_D_FAILED
  attempt,     \* self-fixes of the present revision
  after,       \* where the step goes once it has rolled back
  head,        \* the commit the worktree is at
  dirty,       \* the worktree holds uncommitted changes
  anc,         \* each commit with its ancestors
  passed,      \* commits on which the CI was green, the tree clean before and after
  remote,      \* the commit of the pull request's branch
  anchor,      \* preHead of the present step
  rollbackTo,  \* gate_d_rollback_to
  green,       \* gate_d_green_sha
  hardening,   \* gate_d_harden_round > 0
  verified,    \* gate_d_harden_verified_sha
  report,      \* merge_readiness_path is set
  crashes      \* crashes so far

tree    == <<head, dirty>>
history == <<anc, passed>>
row     == <<rollbackTo, green, hardening, verified, report>>
local   == <<attempt, after, anchor>>

vars == <<stage, pc, local, tree, history, remote, row, crashes>>

None    == 0
Commits == DOMAIN anc

Steps == {"recover", "enter", "review", "resolved", "pinned", "revise",
          "claude", "commit", "ci", "push", "pushed", "rollback", "mark",
          "normalise", "pin", "report", "pushHardened", "rePush", "hardened"}

TypeOK ==
  /\ stage \in {"loop", "harden", "merge"}
  /\ pc \in Steps \cup {"idle", "failed"}
  /\ attempt \in 0..MaxSelfFixes
  /\ after \in {"idle", "failed"}
  /\ Commits \in SUBSET (1..MaxCommits)
  /\ anc \in [Commits -> SUBSET Commits]
  /\ head \in Commits /\ remote \in Commits /\ passed \subseteq Commits
  /\ {anchor, rollbackTo, green, verified} \subseteq Commits \cup {None}
  /\ dirty \in BOOLEAN /\ hardening \in BOOLEAN /\ report \in BOOLEAN
  /\ crashes \in 0..MaxCrashes

\* Gate C left a commit that is CI-green, and opening the pull request pushed it
Init ==
  /\ stage = "loop" /\ pc = "idle" /\ attempt = 0 /\ after = "idle"
  /\ head = 1 /\ dirty = FALSE /\ anc = [c \in {1} |-> {1}]
  /\ passed = {1} /\ remote = 1
  /\ anchor = None /\ rollbackTo = None /\ green = None /\ verified = None
  /\ hardening = FALSE /\ report = FALSE
  /\ crashes = 0

Go(from, to) == pc = from /\ pc' = to

\* resetWorktree: it succeeds only if the tree is seen clean at the commit
ResetTo(c) == head' = c /\ dirty' = FALSE
ResetFails(c) == head' \in {head, c} /\ dirty' \in BOOLEAN

-----------------------------------------------------------------------------
(***************************************************************************)
(* runGateDLoop: a rollback that is not confirmed is confirmed first.      *)
(***************************************************************************)
\* mutant: the mark is not looked at
EnterLoopUnrecovered ==
  /\ stage = "loop"
  /\ Go("idle", "enter")
  /\ UNCHANGED <<stage, local, tree, history, remote, row, crashes>>

EnterLoop ==
  /\ stage = "loop"
  /\ Go("idle", IF rollbackTo = None THEN "enter" ELSE "recover")
  /\ UNCHANGED <<stage, local, tree, history, remote, row, crashes>>

RecoverRollback ==
  /\ \/ Go("recover", "enter") /\ ResetTo(rollbackTo) /\ rollbackTo' = None
     \/ Go("recover", "failed") /\ ResetFails(rollbackTo) /\ UNCHANGED rollbackTo
  /\ UNCHANGED <<stage, local, history, remote, green, hardening, verified, report, crashes>>

\* an answer that waits is applied before HEAD is reviewed
Loop ==
  /\ Go("enter", "review") \/ Go("enter", "revise")
  /\ UNCHANGED <<stage, local, tree, history, remote, row, crashes>>

Review ==
  /\ pc = "review"
  /\ pc' \in {"resolved", "revise", "idle", "failed"}
  /\ UNCHANGED <<stage, local, tree, history, remote, row, crashes>>

\* afterGateD: what was reviewed is pinned, by its commit, before it is hardened
PinGreen ==
  /\ \/ Go("resolved", "pinned") /\ green' = head
     \/ Go("resolved", "failed") /\ UNCHANGED green
  /\ UNCHANGED <<stage, local, tree, history, remote, rollbackTo, hardening, verified, report,
                 crashes>>

ToHardening ==
  /\ Go("pinned", "idle")
  /\ stage' = "harden"
  /\ UNCHANGED <<local, tree, history, remote, row, crashes>>

-----------------------------------------------------------------------------
(***************************************************************************)
(* drv.fix of the loop, and the same steps of the hardening.               *)
(***************************************************************************)
BeginFix ==
  /\ \/ Go("revise", "claude") /\ anchor' = head /\ attempt' = 0
     \/ Go("revise", "failed") /\ UNCHANGED <<anchor, attempt>>
  /\ UNCHANGED <<stage, after, tree, history, remote, row, crashes>>

\* a call that fails pauses the loop; it fails the hardening
Claude ==
  /\ \/ Go("claude", "commit") /\ UNCHANGED after
     \/ Go("claude", "rollback") /\ after' = (IF stage = "loop" THEN "idle" ELSE "failed")
  /\ dirty' \in {dirty, TRUE}
  /\ UNCHANGED <<stage, attempt, anchor, head, history, remote, row, crashes>>

NewCommit ==
  LET new == CHOOSE n \in 1..MaxCommits : n \notin Commits
  IN  /\ Commits # 1..MaxCommits
      /\ head' = new
      /\ anc' = [d \in Commits \cup {new} |-> IF d = new THEN anc[head] \cup {new} ELSE anc[d]]

\* commitWorktree, and the look at the tree after it
Commit ==
  /\ \/ /\ Go("commit", "ci")
        /\ IF dirty THEN NewCommit ELSE UNCHANGED <<head, anc>>
        /\ dirty' = FALSE
        /\ UNCHANGED after
     \/ /\ Go("commit", "rollback") /\ after' = "failed"
        /\ (dirty /\ NewCommit) \/ UNCHANGED <<head, anc>>
        /\ UNCHANGED dirty
  /\ UNCHANGED <<stage, attempt, anchor, passed, remote, row, crashes>>

\* mutant: a CI that modified the tree is still green
CIUnclean ==
  /\ pc = "ci"
  /\ dirty' \in BOOLEAN
  /\ \/ /\ pc' = (IF stage = "loop" THEN "push" ELSE "pin")
        /\ passed' = (IF dirty' THEN passed ELSE passed \cup {head})
        /\ UNCHANGED <<attempt, after>>
     \/ /\ attempt < MaxSelfFixes
        /\ pc' = "claude" /\ attempt' = attempt + 1
        /\ UNCHANGED <<after, passed>>
     \/ /\ pc' = "rollback" /\ after' = "failed"
        /\ UNCHANGED <<attempt, passed>>
  /\ UNCHANGED <<stage, anchor, head, anc, remote, row, crashes>>

\* mutant: one self-fix too many
CIOnceMore ==
  /\ pc = "ci"
  /\ dirty' \in BOOLEAN
  /\ attempt <= MaxSelfFixes
  /\ pc' = "claude" /\ attempt' = attempt + 1
  /\ UNCHANGED <<stage, after, anchor, head, history, remote, row, crashes>>

\* green with the tree clean on both sides; red and tried again; red for the
\* last time, not run, or dirtied by the script
CI ==
  /\ pc = "ci"
  /\ dirty' \in BOOLEAN
  /\ \/ /\ ~dirty'
        /\ pc' = (IF stage = "loop" THEN "push" ELSE "pin")
        /\ passed' = passed \cup {head}
        /\ UNCHANGED <<attempt, after>>
     \/ /\ attempt < MaxSelfFixes
        /\ pc' = "claude" /\ attempt' = attempt + 1
        /\ UNCHANGED <<after, passed>>
     \/ /\ pc' = "rollback" /\ after' = "failed"
        /\ UNCHANGED <<attempt, passed>>
  /\ UNCHANGED <<stage, anchor, head, anc, remote, row, crashes>>

\* git push: only a descendant of what the remote has is taken
FastForward == remote \in anc[head]

PushOk == FastForward /\ remote' = head
PushFails == remote' = remote \/ (FalseFailures /\ FastForward /\ remote' = head)

Push ==
  /\ \/ Go("push", "pushed") /\ PushOk /\ UNCHANGED after
     \/ Go("push", "rollback") /\ PushFails /\ after' = "failed"
  /\ UNCHANGED <<stage, attempt, anchor, tree, history, row, crashes>>

\* the reply is parsed: asked for again by a further call, reviewed, paused or
\* escalated, or given up
Revised ==
  /\ pc = "pushed"
  /\ pc' \in {"revise", "review", "idle", "failed"}
  /\ UNCHANGED <<stage, local, tree, history, remote, row, crashes>>

\* mutant: a reset that fails is only reported
RollbackUnmarked ==
  /\ \/ pc = "rollback" /\ pc' = after /\ ResetTo(anchor)
     \/ Go("rollback", "failed") /\ ResetFails(anchor)
  /\ UNCHANGED <<stage, local, history, remote, row, crashes>>

\* only the loop remembers a reset that failed: the hardening starts with one
Rollback ==
  /\ \/ pc = "rollback" /\ pc' = after /\ ResetTo(anchor)
     \/ Go("rollback", IF stage = "loop" THEN "mark" ELSE "failed") /\ ResetFails(anchor)
  /\ UNCHANGED <<stage, local, history, remote, row, crashes>>

MarkRollback ==
  /\ Go("mark", "failed")
  /\ rollbackTo' = anchor
  /\ UNCHANGED <<stage, local, tree, history, remote, green, hardening, verified, report, crashes>>

-----------------------------------------------------------------------------
(***************************************************************************)
(* runGateDHarden and the conclusion of runGateDHardenStep.  The baseline  *)
(* is always pinned here; a leg whose baseline is missing is in Pipeline.  *)
(***************************************************************************)
Reusable == report /\ verified # None /\ head = verified /\ ~dirty

EnterHardening ==
  /\ stage = "harden"
  /\ \/ /\ Reusable
        /\ Go("idle", "rePush")
        /\ UNCHANGED <<hardening, verified, report>>
     \/ /\ ~Reusable
        /\ Go("idle", "normalise")
        /\ hardening' = TRUE /\ verified' = None /\ report' = FALSE
  /\ UNCHANGED <<stage, local, tree, history, remote, rollbackTo, green, crashes>>

Normalise ==
  /\ \/ Go("normalise", "claude") /\ ResetTo(green) /\ anchor' = green /\ attempt' = 0
     \/ Go("normalise", "failed") /\ ResetFails(green) /\ UNCHANGED <<anchor, attempt>>
  /\ UNCHANGED <<stage, after, history, remote, row, crashes>>

PinVerified ==
  /\ Go("pin", "report")
  /\ verified' = head
  /\ UNCHANGED <<stage, local, tree, history, remote, rollbackTo, green, hardening, report,
                 crashes>>

\* the envelope and the report are written to files, which may fail
WriteReport ==
  /\ \/ Go("report", "pushHardened") /\ report' = TRUE
     \/ Go("report", "failed") /\ UNCHANGED report
  /\ UNCHANGED <<stage, local, tree, history, remote, rollbackTo, green, hardening, verified,
                 crashes>>

\* mutant: a push that fails is left to the next one
PushHardenedAnyway ==
  /\ \/ Go("pushHardened", "hardened") \/ Go("rePush", "hardened")
  /\ PushOk \/ PushFails
  /\ UNCHANGED <<stage, local, tree, history, row, crashes>>

\* nothing is rolled back here: the commit is verified
PushHardened ==
  /\ \/ (Go("pushHardened", "hardened") \/ Go("rePush", "hardened")) /\ PushOk
     \/ (Go("pushHardened", "failed") \/ Go("rePush", "failed")) /\ PushFails
  /\ UNCHANGED <<stage, local, tree, history, row, crashes>>

FinishHardening ==
  /\ Go("hardened", "idle")
  /\ stage' = "merge"
  /\ UNCHANGED <<local, tree, history, remote, row, crashes>>

-----------------------------------------------------------------------------
\* planRetry, for a GATE_D_FAILED whose pull request is open
Retry ==
  /\ Go("failed", "idle")
  /\ stage' = (IF hardening THEN "harden" ELSE "loop")
  /\ UNCHANGED <<local, tree, history, remote, row, crashes>>

\* the model or the CI script may have been writing when the process died
Crash ==
  /\ crashes < MaxCrashes
  /\ pc \in Steps
  /\ pc' = "idle"
  /\ dirty' \in (IF pc \in {"claude", "ci"} THEN {dirty, TRUE} ELSE {dirty})
  /\ crashes' = crashes + 1
  /\ UNCHANGED <<stage, local, head, history, remote, row>>

Next ==
  \/ EnterLoop \/ RecoverRollback \/ Loop \/ Review \/ PinGreen \/ ToHardening
  \/ BeginFix \/ Claude \/ Commit \/ CI \/ Push \/ Revised \/ Rollback \/ MarkRollback
  \/ EnterHardening \/ Normalise \/ PinVerified \/ WriteReport \/ PushHardened \/ FinishHardening
  \/ Retry \/ Crash

Spec == Init /\ [][Next]_vars

-----------------------------------------------------------------------------
(***************************************************************************)
(* "A red or unverified state is never pushed into the PR": whatever fails *)
(* or dies, the branch of the pull request is at a commit whose CI was     *)
(* green with the tree clean before and after.                             *)
(***************************************************************************)
PushedIsGreen == remote \in passed

(***************************************************************************)
(* What is offered for a merge is one commit: it passed the CI after the   *)
(* hardening, holds the commit the reviewer found clean, and is what the   *)
(* worktree and the pull request are at.                                   *)
(***************************************************************************)
MergeReadyIsPushed ==
  stage = "merge" =>
    /\ verified \in passed
    /\ green \in anc[verified]
    /\ remote = verified /\ head = verified

(***************************************************************************)
(* Nothing red leaves the machine, in a push or in an offer to merge.      *)
(***************************************************************************)
OnlyGreenLeaves == PushedIsGreen /\ MergeReadyIsPushed

(***************************************************************************)
(* "The committed HEAD that review-first sees is always the CI-green one". *)
(***************************************************************************)
ReviewedIsGreen == pc = "review" => head \in passed /\ ~dirty

(***************************************************************************)
(* That holds however many calls, resets and pushes fail, until a process  *)
(* dies.                                                                   *)
(***************************************************************************)
ReviewedIsGreenTillCrash == crashes = 0 => ReviewedIsGreen

(***************************************************************************)
(* The baseline the hardening resets to is a commit whose CI was green, as *)
(* long as no process died while a revision was under way.                 *)
(***************************************************************************)
BaselineIsGreen == crashes = 0 /\ green # None => green \in passed

(***************************************************************************)
(* Until a process dies, what is reviewed and what the hardening falls     *)
(* back to are green, however many calls, resets and pushes fail.          *)
(***************************************************************************)
GreenTillCrash == ReviewedIsGreenTillCrash /\ BaselineIsGreen

(***************************************************************************)
(* preHead is "the last CI-green HEAD that was pushed": what a revision    *)
(* rolls back to is what the pull request shows.                           *)
(***************************************************************************)
AnchorIsPushed == stage = "loop" /\ pc = "claude" => anchor = remote

(***************************************************************************)
(* "Verified work is never thrown away": once the hardened commit is       *)
(* pinned, a failure after that leaves it to be pushed again.              *)
(***************************************************************************)
VerifiedIsKept == [][verified # None => verified' = verified]_vars
=============================================================================

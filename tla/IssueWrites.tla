----------------------------- MODULE IssueWrites -----------------------------
(***************************************************************************)
(* Opening the work: go() of src/actions.ts and doWrites of src/writes.ts, *)
(* which create the issues of a requirement in an external tracker.  A go  *)
(* comes from the CLI, from a card's button or from the tick, so several   *)
(* may be under way; the tracker is outside and each call to it may fail.  *)
(***************************************************************************)
EXTENDS Naturals, FiniteSets

CONSTANTS
  Goers,      \* the processes and handlers that may run a go
  Repos,      \* the repositories that need an issue
  Umbrella,   \* the repository of the Epic; the only one if one repo is enough
  Reported,   \* a creation that fails has created nothing (see Create)
  MaxIssues,  \* bound on the issues of a repository
  MaxCrashes  \* bound on the crashes

ASSUME IssueWritesAssumption ==
  /\ Repos # {}
  /\ Reported \in BOOLEAN
  /\ MaxIssues \in Nat \ {0}
  /\ MaxCrashes \in Nat

VARIABLES
  state,     \* the session's
  recorded,  \* created_issues
  tracker,   \* the issues that exist, each a repository and a number
  sized,     \* the issues that carry their size label
  approved,  \* the plan is released (status:3)
  pc,        \* where each go is
  seen,      \* the state each go read first
  mine,      \* `issues` of each go
  resumed,   \* fromResume of each go
  overlap,   \* TRUE: a go has started while another was under way
  crashes    \* crashes so far

session == <<state, recorded>>
outside == <<tracker, sized, approved>>
local   == <<seen, mine, resumed>>

ghosts  == <<overlap, crashes>>

vars == <<session, outside, pc, local, ghosts>>

Targets == Repos \cup {Umbrella}
Issues  == Targets \X (1..MaxIssues)

Startable == {"AWAITING_GO", "GO_DENIED", "WRITE_FAILED"}

TypeOK ==
  /\ state \in Startable \cup {"WRITING", "DONE"}
  /\ recorded \subseteq Issues /\ tracker \subseteq Issues /\ sized \subseteq Issues
  /\ approved \in BOOLEAN
  /\ pc \in [Goers -> {"idle", "release", "take", "fresh", "publish", "create", "record", "check",
                       "label", "approve", "finish", "done", "failed"}]
  /\ seen \in [Goers -> Startable]
  /\ mine \in [Goers -> SUBSET Issues]
  /\ resumed \in [Goers -> BOOLEAN]
  /\ overlap \in BOOLEAN
  /\ crashes \in 0..MaxCrashes

Init ==
  /\ state = "AWAITING_GO" /\ recorded = {}
  /\ tracker = {} /\ sized = {} /\ approved = FALSE
  /\ pc = [g \in Goers |-> "idle"]
  /\ seen = [g \in Goers |-> "AWAITING_GO"]
  /\ mine = [g \in Goers |-> {}]
  /\ resumed = [g \in Goers |-> FALSE]
  /\ overlap = FALSE
  /\ crashes = 0

Go(g, from, to) == pc[g] = from /\ pc' = [pc EXCEPT ![g] = to]

ReposOf(issues) == {i[1] : i \in issues}
In(issues, repos) == {i \in issues : i[1] \in repos}

\* a transition that is not legal throws
CanMove(to) ==
  \/ state = to
  \/ <<state, to>> \in {<<"AWAITING_GO", "WRITING">>, <<"AWAITING_GO", "GO_DENIED">>,
                        <<"GO_DENIED", "AWAITING_GO">>, <<"WRITE_FAILED", "WRITING">>,
                        <<"WRITING", "DONE">>, <<"WRITING", "WRITE_FAILED">>}

-----------------------------------------------------------------------------
(***************************************************************************)
(* go(): the state is looked at once, at the start.                        *)
(***************************************************************************)
\* mutant: a go starts whatever the state is
StartAnywhere(g) ==
  /\ Go(g, "idle", IF state = "GO_DENIED" THEN "release" ELSE "take")
  /\ seen' = [seen EXCEPT ![g] = state]
  /\ overlap' = (overlap \/ \E h \in Goers : pc[h] # "idle")
  /\ UNCHANGED <<session, outside, mine, resumed, crashes>>

Start(g) ==
  /\ state \in Startable
  /\ Go(g, "idle", IF state = "GO_DENIED" THEN "release" ELSE "take")
  /\ seen' = [seen EXCEPT ![g] = state]
  /\ overlap' = (overlap \/ \E h \in Goers : pc[h] # "idle")
  /\ UNCHANGED <<session, outside, mine, resumed, crashes>>

Release(g) ==
  /\ IF CanMove("AWAITING_GO")
       THEN Go(g, "release", "take") /\ state' = "AWAITING_GO"
       ELSE Go(g, "release", "idle") /\ UNCHANGED state
  /\ UNCHANGED <<recorded, outside, local, ghosts>>

Take(g) ==
  /\ IF CanMove("WRITING")
       THEN Go(g, "take", "fresh") /\ state' = "WRITING"
       ELSE Go(g, "take", "idle") /\ UNCHANGED state
  /\ UNCHANGED <<recorded, outside, local, ghosts>>

\* alreadyCreated, of the row as it is now
Fresh(g) ==
  /\ Go(g, "fresh", "publish")
  /\ mine' = [mine EXCEPT ![g] = recorded]
  /\ resumed' = [resumed EXCEPT ![g] = recorded # {}]
  /\ UNCHANGED <<session, outside, seen, ghosts>>

-----------------------------------------------------------------------------
(***************************************************************************)
(* doWrites.                                                               *)
(***************************************************************************)
\* publishing is idempotent and its result is not looked at again
Publish(g) ==
  /\ \/ Go(g, "publish", IF resumed[g] THEN "check" ELSE "create")
     \/ Go(g, "publish", "failed")
  /\ UNCHANGED <<session, outside, local, ghosts>>

NewIssue(r) == CHOOSE i \in {r} \X (1..MaxIssues) : i \notin tracker
CanCreate(r) == Cardinality(In(tracker, {r})) < MaxIssues

(***************************************************************************)
(* createSingle and createEpic.  The scripts report success although some  *)
(* of the children failed.  The native adapter reports failure, and so     *)
(* does a call that timed out: what they have created is then dropped.     *)
(***************************************************************************)
Create(g) ==
  \E some \in SUBSET Targets :
    LET new == {NewIssue(r) : r \in some}
    IN  /\ \A r \in some : CanCreate(r)
        /\ tracker' = tracker \cup new
        /\ \/ /\ Umbrella \in some
              /\ Go(g, "create", "record")
              /\ mine' = [mine EXCEPT ![g] = new]
           \/ /\ Reported => some = {}
              /\ Go(g, "create", "failed")
              /\ UNCHANGED mine
        /\ UNCHANGED <<session, sized, approved, seen, resumed, ghosts>>

\* mutant: only go() itself records the issues, at its end
RecordLate(g) ==
  /\ Go(g, "record", "check")
  /\ UNCHANGED <<session, outside, local, ghosts>>

\* onCreated
Record(g) ==
  /\ Go(g, "record", "check")
  /\ recorded' = mine[g]
  /\ UNCHANGED <<state, outside, local, ghosts>>

Missing(issues) == Repos \ ReposOf(issues)

\* mutant: coverage is checked on a fresh run only
CheckFreshOnly(g) ==
  /\ Go(g, "check", IF resumed[g] \/ Missing(mine[g]) = {} THEN "label" ELSE "failed")
  /\ UNCHANGED <<session, outside, local, ghosts>>

\* every repository has its issue; a resumed go looks for them in the tracker,
\* repository by repository, and each look may fail
Check(g) ==
  \/ /\ Missing(mine[g]) = {}
     /\ Go(g, "check", "label")
     /\ UNCHANGED <<session, outside, local, ghosts>>
  \/ /\ Missing(mine[g]) # {} /\ ~resumed[g]
     /\ Go(g, "check", "failed")
     /\ UNCHANGED <<session, outside, local, ghosts>>
  \/ /\ Missing(mine[g]) # {} /\ resumed[g]
     /\ \E looked \in SUBSET Missing(mine[g]) :
          LET all == mine[g] \cup In(tracker, looked)
          IN  /\ mine' = [mine EXCEPT ![g] = all]
              /\ recorded' = (IF all # mine[g] THEN all ELSE recorded)
              /\ Go(g, "check", IF Missing(all) = {} THEN "label" ELSE "failed")
     /\ UNCHANGED <<state, outside, seen, resumed, ghosts>>

\* mutant: a label that fails does not hold the release up
LabelAnyway(g) ==
  /\ \E some \in SUBSET In(mine[g], {Umbrella}) : sized' = sized \cup some
  /\ Go(g, "label", "approve")
  /\ UNCHANGED <<session, tracker, approved, local, ghosts>>

Label(g) ==
  /\ \E some \in SUBSET In(mine[g], {Umbrella}) :
       /\ sized' = sized \cup some
       /\ Go(g, "label", IF some = In(mine[g], {Umbrella}) THEN "approve" ELSE "failed")
  /\ UNCHANGED <<session, tracker, approved, local, ghosts>>

Approve(g) ==
  /\ \/ Go(g, "approve", "finish") /\ approved' = TRUE
     \/ Go(g, "approve", "failed") /\ UNCHANGED approved
  /\ UNCHANGED <<session, tracker, sized, local, ghosts>>

-----------------------------------------------------------------------------
Finish(g) ==
  /\ Go(g, "finish", "done")
  /\ recorded' = mine[g]
  /\ UNCHANGED <<state, outside, local, ghosts>>

Done(g) ==
  /\ IF CanMove("DONE")
       THEN Go(g, "done", "idle") /\ state' = "DONE"
       ELSE Go(g, "done", "failed") /\ UNCHANGED state
  /\ UNCHANGED <<recorded, outside, local, ghosts>>

\* mutant: whatever failed, the work is opened
FailDone(g) ==
  /\ Go(g, "failed", "idle")
  /\ state' = "DONE"
  /\ UNCHANGED <<recorded, outside, local, ghosts>>

\* the catch of go(); if WRITE_FAILED is no legal state now, it throws
Fail(g) ==
  /\ Go(g, "failed", "idle")
  /\ state' = (IF CanMove("WRITE_FAILED") THEN "WRITE_FAILED" ELSE state)
  /\ UNCHANGED <<recorded, outside, local, ghosts>>

-----------------------------------------------------------------------------
Deny ==
  /\ state = "AWAITING_GO"
  /\ state' = "GO_DENIED"
  /\ UNCHANGED <<recorded, outside, pc, local, ghosts>>

\* a maintainer adds the issues that the error message says are missing
AddChild(r) ==
  /\ state = "WRITE_FAILED" /\ recorded # {}
  /\ r \in Missing(tracker) /\ CanCreate(r)
  /\ tracker' = tracker \cup {NewIssue(r)}
  /\ UNCHANGED <<session, sized, approved, pc, local, ghosts>>

Crash(g) ==
  /\ crashes < MaxCrashes
  /\ pc[g] # "idle"
  /\ pc' = [pc EXCEPT ![g] = "idle"]
  /\ crashes' = crashes + 1
  /\ UNCHANGED <<session, outside, local, overlap>>

Next ==
  \/ \E g \in Goers :
       \/ Start(g) \/ Release(g) \/ Take(g) \/ Fresh(g)
       \/ Publish(g) \/ Create(g) \/ Record(g) \/ Check(g) \/ Label(g) \/ Approve(g)
       \/ Finish(g) \/ Done(g) \/ Fail(g) \/ Crash(g)
  \/ Deny
  \/ \E r \in Repos : AddChild(r)

Spec == Init /\ [][Next]_vars

-----------------------------------------------------------------------------
(***************************************************************************)
(* "An issue is never created twice": no repository has two issues of the  *)
(* requirement.                                                            *)
(***************************************************************************)
NoIssueTwice == \A i, j \in tracker : i[1] = j[1] => i = j

(***************************************************************************)
(* That holds as long as goes come one after the other, however often they *)
(* fail, die and are repeated.                                             *)
(***************************************************************************)
NoIssueTwiceInTurn == ~overlap => NoIssueTwice

(***************************************************************************)
(* "It never pretends to be DONE": when the work is open, every repository *)
(* has its issue, and the plan is released, also if goes overlapped.       *)
(***************************************************************************)
DoneIsDelivered == state = "DONE" => Missing(tracker) = {} /\ approved

(***************************************************************************)
(* The record of a requirement whose work is open is complete and true if  *)
(* its goes did not overlap: what drift reconciliation and the done card   *)
(* read names an issue of every repository, and only issues that exist.    *)
(***************************************************************************)
DoneIsRecorded ==
  ~overlap /\ state = "DONE" => Missing(recorded) = {} /\ recorded \subseteq tracker

(***************************************************************************)
(* "A missing label does not get released to status:3".                    *)
(***************************************************************************)
ReleasedIsSized == approved => \E i \in sized : i[1] = Umbrella

(***************************************************************************)
(* A requirement whose work is open is what it says: its issues exist, the *)
(* record names them, the plan is released, and nothing unsized is.        *)
(***************************************************************************)
DoneIsTrue == DoneIsDelivered /\ DoneIsRecorded /\ ReleasedIsSized
=============================================================================

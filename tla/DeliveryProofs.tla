--------------------------- MODULE DeliveryProofs ---------------------------
(***************************************************************************)
(* Proofs about what is delivered: the issues a requirement is opened as,  *)
(* for any number of goes, repositories, issues and crashes (IssueWrites), *)
(* and what becomes of it once they are closed, for any number of issues,  *)
(* polls and crashes (Drift).                                              *)
(***************************************************************************)
EXTENDS IssueWrites, Drift, FiniteSetTheorems, TLAPS

(* An issue that can still be created has a number that is free.           *)
LEMMA NewIssueIsNew ==
  ASSUME tracker \subseteq Issues, NEW r \in Targets, CanCreate(r)
  PROVE  NewIssue(r) \in Issues /\ NewIssue(r)[1] = r /\ NewIssue(r) \notin tracker
<1> DEFINE all == {r} \X (1..MaxIssues)
<1>1. \E i \in all : i \notin tracker
  <2> SUFFICES ASSUME all \subseteq tracker PROVE FALSE
    OBVIOUS
  <2>1. In(tracker, {r}) = all
    BY DEF In, Issues
  <2>2. IsFiniteSet({r}) /\ Cardinality({r}) = 1
    BY FS_Singleton
  <2>3. IsFiniteSet(1..MaxIssues) /\ Cardinality(1..MaxIssues) = MaxIssues
    BY FS_Interval, IssueWritesAssumption
  <2>4. Cardinality(all) = 1 * MaxIssues
    BY <2>2, <2>3, FS_Product
  <2>5. Cardinality(all) = MaxIssues
    BY <2>4, IssueWritesAssumption
  <2>6. Cardinality(all) < MaxIssues
    BY <2>1 DEF CanCreate
  <2> QED BY <2>5, <2>6, IssueWritesAssumption
<1>2. NewIssue(r) \in all /\ NewIssue(r) \notin tracker
  BY <1>1 DEF NewIssue
<1> QED BY <1>2 DEF Issues

-----------------------------------------------------------------------------
(***************************************************************************)
(* What holds however many goes are under way.                             *)
(***************************************************************************)
\* what a go or the record names exists
Existing == recorded \subseteq tracker /\ \A g \in Goers : mine[g] \subseteq tracker

\* a record, and a go past its creation, has the issue of the umbrella
Created(g) == \/ pc[g] \in {"record", "check", "label", "approve", "finish", "done"}
              \/ pc[g] = "publish" /\ resumed[g]

Headed ==
  /\ recorded # {} => Umbrella \in ReposOf(recorded)
  /\ \A g \in Goers : Created(g) => Umbrella \in ReposOf(mine[g])

\* what a go has checked, labelled and released stays so
Checked ==
  \A g \in Goers :
    /\ pc[g] \in {"label", "approve", "finish", "done"} => Missing(mine[g]) = {}
    /\ pc[g] \in {"approve", "finish", "done"} => In(mine[g], {Umbrella}) \subseteq sized
    /\ pc[g] \in {"finish", "done"} => approved

(***************************************************************************)
(* What holds as long as goes come one after the other.                    *)
(***************************************************************************)
InTurn ==
  ~overlap =>
    /\ \A g, h \in Goers : pc[g] # "idle" /\ pc[h] # "idle" => g = h
    /\ \A g \in Goers : pc[g] \notin {"idle", "release", "take"} => state = "WRITING"
    /\ \A g \in Goers : pc[g] = "done" => recorded = mine[g]
    /\ state = "DONE" => \A g \in Goers : pc[g] = "idle"

\* issues that no record names belong to a go that died, after which none starts,
\* or is about to record them
Unrecorded ==
  ~overlap =>
    /\ \A g \in Goers : pc[g] = "publish" => (resumed[g] <=> recorded # {})
    /\ \A g \in Goers : pc[g] = "create" => recorded = {}
    /\ recorded = {} /\ tracker # {} =>
         state = "WRITING" /\ \A g \in Goers : pc[g] \in {"idle", "record"}

IInv == TypeOK /\ Existing /\ Headed /\ Checked /\ InTurn /\ DoneIsTrue

-----------------------------------------------------------------------------
Points == {"idle", "release", "take", "fresh", "publish", "create", "record", "check",
           "label", "approve", "finish", "done", "failed"}

LEMMA InitInv == Init => IInv /\ Unrecorded /\ NoIssueTwice
<1> SUFFICES ASSUME Init PROVE IInv /\ Unrecorded /\ NoIssueTwice
  OBVIOUS
<1>1. TypeOK
  <2>1. /\ pc \in [Goers -> Points] /\ seen \in [Goers -> Startable]
        /\ mine \in [Goers -> SUBSET Issues] /\ resumed \in [Goers -> BOOLEAN]
    BY DEF Init, Points, Startable
  <2>2. state \in Startable /\ crashes \in 0..MaxCrashes
    BY IssueWritesAssumption DEF Init, Startable
  <2> QED BY <2>1, <2>2 DEF Init, TypeOK, Points
<1>2. Existing /\ Headed /\ Checked /\ InTurn
  BY DEF Init, Existing, Headed, Created, Checked, InTurn
<1>3. DoneIsTrue /\ Unrecorded /\ NoIssueTwice
  BY DEF Init, DoneIsTrue, DoneIsDelivered, DoneIsRecorded, ReleasedIsSized, Unrecorded, NoIssueTwice
<1> QED BY <1>1, <1>2, <1>3 DEF IInv

LEMMA TypeStep == TypeOK /\ [Next]_vars => TypeOK'
<1> SUFFICES ASSUME TypeOK, [Next]_vars PROVE TypeOK'
  OBVIOUS
<1> USE DEF session, outside, local, ghosts
<1>1. ASSUME NEW g \in Goers, Start(g) \/ Release(g) \/ Take(g) \/ Fresh(g) PROVE TypeOK'
  BY <1>1 DEF Start, Release, Take, Fresh, Go, TypeOK, Startable
<1>2. ASSUME NEW g \in Goers, Publish(g) \/ Record(g) \/ Label(g) \/ Approve(g) PROVE TypeOK'
  BY <1>2 DEF Publish, Record, Label, Approve, Go, In, TypeOK
<1>3. ASSUME NEW g \in Goers, Create(g) PROVE TypeOK'
  <2>1. PICK some \in SUBSET Targets :
          /\ \A r \in some : CanCreate(r)
          /\ tracker' = tracker \cup {NewIssue(r) : r \in some}
          /\ mine' = mine \/ mine' = [mine EXCEPT ![g] = {NewIssue(r) : r \in some}]
          /\ Go(g, "create", "record") \/ Go(g, "create", "failed")
          /\ UNCHANGED <<session, sized, approved, seen, resumed, ghosts>>
    BY <1>3 DEF Create
  <2>2. {NewIssue(r) : r \in some} \subseteq Issues
    BY <2>1, NewIssueIsNew DEF TypeOK
  <2>3. pc' \in [Goers -> Points]
    BY <2>1 DEF Go, TypeOK, Points
  <2> QED BY <2>1, <2>2, <2>3 DEF TypeOK, Points
<1>4. ASSUME NEW g \in Goers, Check(g) PROVE TypeOK'
  <2>1. pc' \in [Goers -> Points]
    BY <1>4 DEF Check, Go, TypeOK, Points
  <2>2. /\ UNCHANGED <<state, outside, seen, resumed, ghosts>>
        /\ \/ UNCHANGED <<mine, recorded>>
           \/ \E all \in SUBSET Issues : /\ mine' = [mine EXCEPT ![g] = all]
                                         /\ recorded' \in {all, recorded}
    <3>1. ASSUME NEW looked \in SUBSET Missing(mine[g]) PROVE mine[g] \cup In(tracker, looked) \subseteq Issues
      BY DEF TypeOK, In
    <3> QED BY <1>4, <3>1 DEF Check
  <2> QED BY <2>1, <2>2 DEF TypeOK, Points
<1>5. ASSUME NEW g \in Goers, Finish(g) \/ Done(g) \/ Fail(g) \/ Crash(g) PROVE TypeOK'
  <2>1. CASE Finish(g)
    BY <2>1 DEF Finish, Go, TypeOK
  <2>2. CASE Done(g) \/ Fail(g)
    <3>1. pc' \in [Goers -> Points]
      BY <2>2 DEF Done, Fail, Go, TypeOK, Points
    <3>2. state' \in {state, "DONE", "WRITE_FAILED"}
      BY <2>2 DEF Done, Fail
    <3>3. UNCHANGED <<recorded, outside, local, ghosts>>
      BY <2>2 DEF Done, Fail
    <3> QED BY <3>1, <3>2, <3>3 DEF TypeOK, Points, Startable
  <2>3. CASE Crash(g)
    BY <2>3, IssueWritesAssumption DEF Crash, TypeOK
  <2> QED BY <1>5, <2>1, <2>2, <2>3
<1>6. CASE Deny
  BY <1>6 DEF Deny, TypeOK, Startable
<1>7. ASSUME NEW r \in Repos, AddChild(r) PROVE TypeOK'
  <2>1. NewIssue(r) \in Issues
    BY <1>7, NewIssueIsNew DEF AddChild, TypeOK, Targets
  <2> QED BY <1>7, <2>1 DEF AddChild, TypeOK
<1>8. CASE UNCHANGED vars
  BY <1>8 DEF vars, TypeOK
<1> QED BY <1>1, <1>2, <1>3, <1>4, <1>5, <1>6, <1>7, <1>8 DEF Next

-----------------------------------------------------------------------------
(***************************************************************************)
(* Steps while goes may overlap.                                           *)
(***************************************************************************)
\* what a creation adds, and what it takes for its own
LEMMA CreateEffect ==
  ASSUME TypeOK, NEW g \in Goers, Create(g)
  PROVE  /\ pc[g] = "create" /\ UNCHANGED <<session, sized, approved, seen, resumed, ghosts>>
         /\ \E some \in SUBSET Targets, new \in SUBSET Issues :
              /\ tracker' = tracker \cup new
              /\ \A i \in new : i[1] \in some /\ i \notin tracker
              /\ \A i, j \in new : i[1] = j[1] => i = j
              /\ \A r \in some : \E i \in new : i[1] = r
              /\ \/ /\ Umbrella \in some /\ mine' = [mine EXCEPT ![g] = new]
                    /\ pc' = [pc EXCEPT ![g] = "record"]
                 \/ /\ mine' = mine /\ pc' = [pc EXCEPT ![g] = "failed"]
                    /\ Reported => some = {}
<1>1. PICK some \in SUBSET Targets :
        /\ \A r \in some : CanCreate(r)
        /\ tracker' = tracker \cup {NewIssue(r) : r \in some}
        /\ \/ /\ Umbrella \in some /\ Go(g, "create", "record")
              /\ mine' = [mine EXCEPT ![g] = {NewIssue(r) : r \in some}]
           \/ (Reported => some = {}) /\ Go(g, "create", "failed") /\ UNCHANGED mine
        /\ UNCHANGED <<session, sized, approved, seen, resumed, ghosts>>
  BY DEF Create
<1> DEFINE new == {NewIssue(r) : r \in some}
<1>2. \A r \in some : NewIssue(r) \in Issues /\ NewIssue(r)[1] = r /\ NewIssue(r) \notin tracker
  BY <1>1, NewIssueIsNew DEF TypeOK
<1>3. new \in SUBSET Issues /\ (\A i \in new : i[1] \in some /\ i \notin tracker)
  BY <1>2
<1>4. \A i, j \in new : i[1] = j[1] => i = j
  BY <1>2
<1>5. \A r \in some : \E i \in new : i[1] = r
  BY <1>2
<1> HIDE DEF new
<1>6. \/ /\ Umbrella \in some /\ mine' = [mine EXCEPT ![g] = new]
         /\ pc' = [pc EXCEPT ![g] = "record"]
      \/ /\ mine' = mine /\ pc' = [pc EXCEPT ![g] = "failed"]
         /\ Reported => some = {}
  BY <1>1 DEF Go, new
<1>7. tracker' = tracker \cup new /\ pc[g] = "create"
  BY <1>1 DEF Go, new
<1> QED BY <1>1, <1>3, <1>4, <1>5, <1>6, <1>7

\* the coverage check may take in issues the tracker has
LEMMA CheckEffect ==
  ASSUME NEW g \in Goers, Check(g)
  PROVE  /\ pc[g] = "check" /\ UNCHANGED <<state, outside, seen, resumed, ghosts>>
         /\ \E all \in SUBSET (mine[g] \cup tracker) :
              /\ mine[g] \subseteq all
              /\ \/ mine' = mine /\ all = mine[g]
                 \/ mine' = [mine EXCEPT ![g] = all]
              /\ recorded' = recorded \/ recorded' = all
              /\ \/ pc' = [pc EXCEPT ![g] = "failed"]
                 \/ pc' = [pc EXCEPT ![g] = "label"] /\ Missing(all) = {}
<1> USE DEF session, local
<1>1. CASE /\ UNCHANGED <<session, outside, local, ghosts>>
           /\ \/ Missing(mine[g]) = {} /\ Go(g, "check", "label")
              \/ Go(g, "check", "failed")
  BY <1>1 DEF Go
<1>2. ASSUME NEW looked \in SUBSET Missing(mine[g])
      PROVE  mine[g] \cup In(tracker, looked) \in SUBSET (mine[g] \cup tracker)
  BY DEF In
<1>3. CASE /\ \E looked \in SUBSET Missing(mine[g]) :
                LET all == mine[g] \cup In(tracker, looked)
                IN  /\ mine' = [mine EXCEPT ![g] = all]
                    /\ recorded' = (IF all # mine[g] THEN all ELSE recorded)
                    /\ Go(g, "check", IF Missing(all) = {} THEN "label" ELSE "failed")
           /\ UNCHANGED <<state, outside, seen, resumed, ghosts>>
  BY <1>2, <1>3 DEF Go
<1> QED BY <1>1, <1>3 DEF Check

LEMMA ExistingStep == TypeOK /\ Existing /\ [Next]_vars => Existing' /\ tracker \subseteq tracker'
<1> SUFFICES ASSUME TypeOK, Existing, [Next]_vars PROVE Existing' /\ tracker \subseteq tracker'
  OBVIOUS
<1> USE DEF session, outside, local, ghosts
<1>1. CASE UNCHANGED <<recorded, tracker, mine>>
  BY <1>1 DEF Existing
<1>2. ASSUME NEW g \in Goers, Fresh(g) \/ Record(g) \/ Finish(g)
      PROVE  Existing' /\ tracker \subseteq tracker'
  BY <1>2 DEF Fresh, Record, Finish, Existing, TypeOK
<1>3. ASSUME NEW g \in Goers, Create(g) PROVE Existing' /\ tracker \subseteq tracker'
  BY <1>3, CreateEffect DEF Existing, TypeOK
<1>4. ASSUME NEW g \in Goers, Check(g) PROVE Existing' /\ tracker \subseteq tracker'
  BY <1>4, CheckEffect DEF Existing, TypeOK
<1>5. ASSUME NEW r \in Repos, AddChild(r) PROVE Existing' /\ tracker \subseteq tracker'
  BY <1>5 DEF AddChild, Existing
<1>6. ASSUME NEW g \in Goers,
             \/ Start(g) \/ Release(g) \/ Take(g) \/ Publish(g) \/ Label(g) \/ Approve(g)
             \/ Done(g) \/ Fail(g) \/ Crash(g)
      PROVE  UNCHANGED <<recorded, tracker, mine>>
  BY <1>6 DEF Start, Release, Take, Publish, Label, Approve, Done, Fail, Crash
<1>7. CASE Deny \/ UNCHANGED vars
  BY <1>1, <1>7 DEF Deny, vars
<1> QED BY <1>1, <1>2, <1>3, <1>4, <1>5, <1>6, <1>7 DEF Next

LEMMA HeadedStep == TypeOK /\ Headed /\ [Next]_vars => Headed'
<1> SUFFICES ASSUME TypeOK, Headed, [Next]_vars PROVE Headed'
  OBVIOUS
<1> USE DEF session, outside, local, ghosts
<1>1. ASSUME NEW g \in Goers, Start(g) \/ Release(g) \/ Take(g) \/ Crash(g) \/ Done(g) \/ Fail(g)
      PROVE  Headed'
  BY <1>1 DEF Start, Release, Take, Crash, Done, Fail, Go, Headed, Created, TypeOK
<1>2. ASSUME NEW g \in Goers, Fresh(g) \/ Publish(g) PROVE Headed'
  BY <1>2 DEF Fresh, Publish, Go, Headed, Created, TypeOK
<1>3. ASSUME NEW g \in Goers, Label(g) \/ Approve(g) PROVE Headed'
  BY <1>3 DEF Label, Approve, Go, Headed, Created, TypeOK
<1>4. ASSUME NEW g \in Goers, Record(g) \/ Finish(g) PROVE Headed'
  BY <1>4 DEF Record, Finish, Go, Headed, Created, TypeOK
<1>5. ASSUME NEW g \in Goers, Create(g) PROVE Headed'
  <2>1. PICK some \in SUBSET Targets, new \in SUBSET Issues :
          /\ \A r \in some : \E i \in new : i[1] = r
          /\ \/ /\ Umbrella \in some /\ mine' = [mine EXCEPT ![g] = new]
                /\ pc' = [pc EXCEPT ![g] = "record"]
             \/ mine' = mine /\ pc' = [pc EXCEPT ![g] = "failed"]
    BY <1>5, CreateEffect
  <2>2. Umbrella \in some => Umbrella \in ReposOf(new)
    BY <2>1 DEF ReposOf
  <2>3. UNCHANGED <<recorded, resumed>>
    BY <1>5, CreateEffect
  <2> QED BY <2>1, <2>2, <2>3 DEF Headed, Created, TypeOK
<1>6. ASSUME NEW g \in Goers, Check(g) PROVE Headed'
  <2>1. PICK all \in SUBSET (mine[g] \cup tracker) :
          /\ mine[g] \subseteq all
          /\ (mine' = mine /\ all = mine[g]) \/ mine' = [mine EXCEPT ![g] = all]
          /\ recorded' = recorded \/ recorded' = all
          /\ pc' = [pc EXCEPT ![g] = "failed"] \/ pc' = [pc EXCEPT ![g] = "label"]
    BY <1>6, CheckEffect
  <2>2. pc[g] = "check" /\ UNCHANGED resumed
    BY <1>6, CheckEffect
  <2>3. Umbrella \in ReposOf(all)
    BY <2>1, <2>2 DEF Headed, Created, ReposOf
  <2> QED BY <2>1, <2>2, <2>3 DEF Headed, Created, TypeOK
<1>7. CASE Deny \/ (\E r \in Repos : AddChild(r)) \/ UNCHANGED vars
  BY <1>7 DEF Deny, AddChild, vars, Headed, Created
<1> QED BY <1>1, <1>2, <1>3, <1>4, <1>5, <1>6, <1>7 DEF Next

LEMMA CheckedStep == TypeOK /\ Checked /\ [Next]_vars => Checked'
<1> SUFFICES ASSUME TypeOK, Checked, [Next]_vars PROVE Checked'
  OBVIOUS
<1> USE DEF session, outside, local, ghosts
<1>1. ASSUME NEW g \in Goers, Start(g) \/ Release(g) \/ Take(g) \/ Fresh(g) \/ Publish(g) PROVE Checked'
  BY <1>1 DEF Start, Release, Take, Fresh, Publish, Go, Checked, TypeOK
<1>2. ASSUME NEW g \in Goers, Crash(g) \/ Record(g) \/ Done(g) \/ Fail(g) PROVE Checked'
  BY <1>2 DEF Crash, Record, Done, Fail, Go, Checked, TypeOK
<1>3. ASSUME NEW g \in Goers, Label(g) PROVE Checked'
  BY <1>3 DEF Label, Go, Checked, TypeOK
<1>4. ASSUME NEW g \in Goers, Approve(g) \/ Finish(g) PROVE Checked'
  BY <1>4 DEF Approve, Finish, Go, Checked, TypeOK
<1>5. ASSUME NEW g \in Goers, Create(g) PROVE Checked'
  <2>1. /\ pc' = [pc EXCEPT ![g] = "record"] \/ pc' = [pc EXCEPT ![g] = "failed"]
        /\ UNCHANGED <<sized, approved>> /\ \A h \in Goers : h # g => mine'[h] = mine[h]
    BY <1>5, CreateEffect DEF TypeOK
  <2> QED BY <2>1 DEF Checked, TypeOK
<1>6. ASSUME NEW g \in Goers, Check(g) PROVE Checked'
  BY <1>6, CheckEffect DEF Checked, TypeOK
<1>7. CASE Deny \/ (\E r \in Repos : AddChild(r)) \/ UNCHANGED vars
  BY <1>7 DEF Deny, AddChild, vars, Checked
<1> QED BY <1>1, <1>2, <1>3, <1>4, <1>5, <1>6, <1>7 DEF Next

\* missing issues do not come back
LEMMA MissingShrinks ==
  ASSUME NEW S, NEW T, S \subseteq T, Missing(S) = {}
  PROVE  Missing(T) = {}
BY DEF Missing, ReposOf

LEMMA ReleasedStep ==
  ASSUME TypeOK, Headed, Checked, ReleasedIsSized, [Next]_vars
  PROVE  ReleasedIsSized'
<1> USE DEF session, outside, local, ghosts
<1>1. ASSUME NEW g \in Goers, Approve(g) PROVE ReleasedIsSized'
  <2>1. CASE approved' = approved
    BY <1>1, <2>1 DEF Approve, ReleasedIsSized
  <2>2. CASE Go(g, "approve", "finish")
    <3>1. In(mine[g], {Umbrella}) \subseteq sized
      BY <2>2 DEF Go, Checked
    <3>2. \E i \in mine[g] : i[1] = Umbrella
      BY <2>2 DEF Go, Headed, Created, ReposOf
    <3>3. \E i \in sized : i[1] = Umbrella
      BY <3>1, <3>2 DEF In
    <3> QED BY <1>1, <3>3 DEF Approve, ReleasedIsSized
  <2> QED BY <1>1, <2>1, <2>2 DEF Approve
<1>2. ASSUME NEW g \in Goers, Label(g) PROVE ReleasedIsSized'
  BY <1>2 DEF Label, ReleasedIsSized
<1>3. ASSUME NEW g \in Goers, Create(g) \/ Check(g) PROVE ReleasedIsSized'
  BY <1>3, CreateEffect, CheckEffect DEF ReleasedIsSized
<1>4. ASSUME NEW g \in Goers,
             \/ Start(g) \/ Release(g) \/ Take(g) \/ Fresh(g) \/ Publish(g) \/ Record(g)
             \/ Finish(g) \/ Done(g) \/ Fail(g) \/ Crash(g)
      PROVE  ReleasedIsSized'
  BY <1>4 DEF Start, Release, Take, Fresh, Publish, Record, Finish, Done, Fail, Crash, ReleasedIsSized
<1>5. CASE Deny \/ (\E r \in Repos : AddChild(r)) \/ UNCHANGED vars
  BY <1>5 DEF Deny, AddChild, vars, ReleasedIsSized
<1> QED BY <1>1, <1>2, <1>3, <1>4, <1>5 DEF Next

LEMMA DeliveredStep ==
  ASSUME TypeOK, Existing, Checked, DoneIsDelivered, [Next]_vars
  PROVE  DoneIsDelivered'
<1> USE DEF session, outside, local, ghosts
<1>1. tracker \subseteq tracker'
  BY ExistingStep
<1>2. approved => approved'
  <2>1. ASSUME NEW g \in Goers, Create(g) \/ Check(g) PROVE approved' = approved
    BY <2>1, CreateEffect, CheckEffect
  <2> QED BY <2>1
      DEF Next, Start, Release, Take, Fresh, Publish, Record, Label, Approve, Finish, Done, Fail, Crash,
          Deny, AddChild, vars
<1>3. CASE state' # "DONE"
  BY <1>3 DEF DoneIsDelivered
<1>4. CASE state = "DONE"
  BY <1>1, <1>2, <1>4, MissingShrinks DEF DoneIsDelivered
<1>5. CASE state' = "DONE" /\ state # "DONE"
  <2>1. \E g \in Goers : Done(g)
    <3>1. ASSUME NEW g \in Goers, Create(g) \/ Check(g) PROVE state' = state
      BY <3>1, CreateEffect, CheckEffect
    <3> QED BY <1>5, <3>1
        DEF Next, Start, Release, Take, Fresh, Publish, Record, Label, Approve, Finish, Fail, Crash,
            Deny, AddChild, vars
  <2>2. PICK g \in Goers : Done(g)
    BY <2>1
  <2>3. Missing(mine[g]) = {} /\ approved /\ mine[g] \subseteq tracker
    BY <2>2 DEF Done, Go, Checked, Existing
  <2>4. Missing(tracker) = {} /\ tracker' = tracker /\ approved' = approved
    BY <2>2, <2>3, MissingShrinks DEF Done
  <2> QED BY <2>3, <2>4 DEF DoneIsDelivered
<1> QED BY <1>3, <1>4, <1>5

-----------------------------------------------------------------------------
(***************************************************************************)
(* Steps while goes come one after the other.                              *)
(***************************************************************************)
LEMMA OverlapStays == TypeOK /\ [Next]_vars => (overlap => overlap')
<1> SUFFICES ASSUME TypeOK, [Next]_vars, overlap PROVE overlap'
  OBVIOUS
<1> USE DEF session, outside, local, ghosts
<1>1. ASSUME NEW g \in Goers, Create(g) \/ Check(g) PROVE overlap' = overlap
  BY <1>1, CreateEffect, CheckEffect
<1> QED BY <1>1
    DEF Next, Start, Release, Take, Fresh, Publish, Record, Label, Approve, Finish, Done, Fail, Crash,
        Deny, AddChild, vars

LEMMA InTurnStep == TypeOK /\ InTurn /\ [Next]_vars => InTurn'
<1> SUFFICES ASSUME TypeOK, InTurn, [Next]_vars, ~overlap' PROVE InTurn'
  BY DEF InTurn
<1> USE DEF session, outside, local, ghosts
<1>1. ~overlap
  BY OverlapStays
<1>2. ASSUME NEW g \in Goers, Start(g) PROVE InTurn'
  <2>1. \A h \in Goers : pc[h] = "idle"
    BY <1>2 DEF Start
  <2> QED BY <1>2, <2>1 DEF Start, Go, InTurn, TypeOK, Startable
<1>3. ASSUME NEW g \in Goers, Release(g) PROVE InTurn'
  BY <1>1, <1>3 DEF Release, Go, CanMove, InTurn, TypeOK
<1>4. ASSUME NEW g \in Goers, Take(g) PROVE InTurn'
  BY <1>1, <1>4 DEF Take, Go, CanMove, InTurn, TypeOK
<1>5. ASSUME NEW g \in Goers, Fresh(g) \/ Publish(g) \/ Label(g) \/ Approve(g) PROVE InTurn'
  BY <1>1, <1>5 DEF Fresh, Publish, Label, Approve, Go, InTurn, TypeOK
<1>6. ASSUME NEW g \in Goers, Create(g) PROVE InTurn'
  <2>1. PICK to \in {"record", "failed"} : pc[g] = "create" /\ pc' = [pc EXCEPT ![g] = to]
    BY <1>6, CreateEffect
  <2>2. UNCHANGED <<state, recorded, overlap>> /\ \A h \in Goers : h # g => mine'[h] = mine[h]
    BY <1>6, CreateEffect DEF TypeOK
  <2> QED BY <1>1, <2>1, <2>2 DEF InTurn, TypeOK
<1>7. ASSUME NEW g \in Goers, Check(g) PROVE InTurn'
  <2>1. PICK to \in {"label", "failed"} : pc[g] = "check" /\ pc' = [pc EXCEPT ![g] = to]
    BY <1>7, CheckEffect
  <2>2. UNCHANGED <<state, overlap>>
    BY <1>7, CheckEffect
  <2>3. \A h \in Goers : h # g => pc[h] = "idle" /\ pc'[h] = "idle"
    BY <1>1, <2>1 DEF InTurn, TypeOK
  <2>4. pc'[g] = to /\ state = "WRITING"
    BY <1>1, <2>1 DEF InTurn, TypeOK
  <2> QED BY <2>2, <2>3, <2>4 DEF InTurn
<1>8. ASSUME NEW g \in Goers, Record(g) \/ Finish(g) PROVE InTurn'
  BY <1>1, <1>8 DEF Record, Finish, Go, InTurn, TypeOK
<1>9. ASSUME NEW g \in Goers, Done(g) \/ Fail(g) PROVE InTurn'
  BY <1>1, <1>9 DEF Done, Fail, Go, CanMove, InTurn, TypeOK
<1>10. ASSUME NEW g \in Goers, Crash(g) PROVE InTurn'
  BY <1>1, <1>10 DEF Crash, InTurn, TypeOK
<1>11. CASE Deny \/ (\E r \in Repos : AddChild(r)) \/ UNCHANGED vars
  BY <1>1, <1>11 DEF Deny, AddChild, vars, InTurn, TypeOK
<1> QED BY <1>2, <1>3, <1>4, <1>5, <1>6, <1>7, <1>8, <1>9, <1>10, <1>11 DEF Next

LEMMA RecordedStep ==
  ASSUME TypeOK, Existing, Checked, InTurn, DoneIsRecorded, [Next]_vars
  PROVE  DoneIsRecorded'
<1> SUFFICES ASSUME ~overlap', state' = "DONE"
             PROVE  Missing(recorded') = {} /\ recorded' \subseteq tracker'
  BY DEF DoneIsRecorded, Missing, ReposOf
<1> USE DEF session, outside, local, ghosts
<1>1. ~overlap /\ recorded' \subseteq tracker'
  BY OverlapStays, ExistingStep DEF Existing
<1>2. CASE state = "DONE"
  <2>1. \A g \in Goers : pc[g] = "idle"
    BY <1>1, <1>2 DEF InTurn
  <2>2. ASSUME NEW g \in Goers, Create(g) \/ Check(g) PROVE FALSE
    BY <2>1, <2>2, CreateEffect, CheckEffect
  <2>3. recorded' = recorded
    BY <2>1, <2>2
       DEF Next, Start, Release, Take, Fresh, Publish, Record, Label, Approve, Finish, Done, Fail,
           Crash, Deny, AddChild, vars, Go
  <2> QED BY <1>1, <1>2, <2>3 DEF DoneIsRecorded
<1>3. CASE state # "DONE"
  <2>1. ASSUME NEW g \in Goers, Create(g) \/ Check(g) PROVE state' = state
    BY <2>1, CreateEffect, CheckEffect
  <2>2. PICK g \in Goers : Done(g)
    BY <1>3, <2>1
       DEF Next, Start, Release, Take, Fresh, Publish, Record, Label, Approve, Finish, Fail, Crash,
           Deny, AddChild, vars
  <2>3. recorded' = recorded /\ pc[g] = "done"
    BY <2>2 DEF Done, Go
  <2>4. Missing(mine[g]) = {} /\ recorded = mine[g]
    BY <1>1, <2>3 DEF Checked, InTurn
  <2> QED BY <1>1, <2>3, <2>4
<1> QED BY <1>2, <1>3

\* only a go under way leaves the tracker and the record apart
LEMMA UnrecordedStep ==
  ASSUME TypeOK, Headed, InTurn, Unrecorded, Reported = TRUE, [Next]_vars
  PROVE  Unrecorded'
<1> SUFFICES ASSUME ~overlap' PROVE Unrecorded'
  BY DEF Unrecorded
<1> USE DEF session, outside, local, ghosts
<1>1. ~overlap
  BY OverlapStays
<1>2. ASSUME NEW g \in Goers, Start(g) PROVE Unrecorded'
  BY <1>1, <1>2 DEF Start, Go, Startable, Unrecorded, TypeOK
<1>3. ASSUME NEW g \in Goers, Release(g) \/ Take(g) PROVE Unrecorded'
  BY <1>1, <1>3 DEF Release, Take, Go, CanMove, Unrecorded, TypeOK
<1>4. ASSUME NEW g \in Goers, Fresh(g) PROVE Unrecorded'
  <2>1. \A h \in Goers : h # g => pc[h] = "idle"
    BY <1>1, <1>4 DEF Fresh, Go, InTurn
  <2>2. pc'[g] = "publish" /\ resumed'[g] = (recorded # {}) /\ \A h \in Goers : h # g => pc'[h] = "idle"
    BY <2>1, <1>4 DEF Fresh, Go, TypeOK
  <2>3. recorded # {} \/ tracker = {}
    BY <1>1, <1>4 DEF Fresh, Go, Unrecorded
  <2> QED BY <1>4, <2>2, <2>3 DEF Fresh, Unrecorded
<1>5. ASSUME NEW g \in Goers, Publish(g) PROVE Unrecorded'
  <2>1. pc[g] = "publish" /\ UNCHANGED <<state, recorded, tracker, resumed>>
    BY <1>5 DEF Publish, Go
  <2>2. recorded # {} \/ tracker = {}
    BY <1>1, <2>1 DEF Unrecorded
  <2>3. pc'[g] = "create" => recorded = {}
    BY <1>1, <1>5, <2>1 DEF Publish, Go, Unrecorded, TypeOK
  <2>4. \A h \in Goers : h # g => pc'[h] = pc[h]
    BY <1>5 DEF Publish, Go, TypeOK
  <2>5. pc'[g] # "publish"
    BY <1>5 DEF Publish, Go, TypeOK
  <2> QED BY <1>1, <2>1, <2>2, <2>3, <2>4, <2>5 DEF Unrecorded
<1>6. ASSUME NEW g \in Goers, Create(g) PROVE Unrecorded'
  <2>1. pc[g] = "create" /\ UNCHANGED <<state, recorded, resumed>>
    BY <1>6, CreateEffect
  <2>2. state = "WRITING" /\ recorded = {} /\ tracker = {}
    BY <1>1, <2>1 DEF InTurn, Unrecorded
  <2>3. \A h \in Goers : h # g => pc[h] = "idle"
    BY <1>1, <2>1 DEF InTurn
  <2>4. PICK some \in SUBSET Targets, new \in SUBSET Issues :
          /\ tracker' = tracker \cup new
          /\ \A i \in new : i[1] \in some
          /\ \/ pc' = [pc EXCEPT ![g] = "record"]
             \/ pc' = [pc EXCEPT ![g] = "failed"] /\ (Reported => some = {})
    <3>1. PICK some \in SUBSET Targets, new \in SUBSET Issues :
            /\ tracker' = tracker \cup new
            /\ \A i \in new : i[1] \in some /\ i \notin tracker
            /\ \A i, j \in new : i[1] = j[1] => i = j
            /\ \A r \in some : \E i \in new : i[1] = r
            /\ \/ /\ Umbrella \in some /\ mine' = [mine EXCEPT ![g] = new]
                  /\ pc' = [pc EXCEPT ![g] = "record"]
               \/ /\ mine' = mine /\ pc' = [pc EXCEPT ![g] = "failed"]
                  /\ Reported => some = {}
      BY <1>6, CreateEffect
    <3> QED BY <3>1
  <2>5. pc' = [pc EXCEPT ![g] = "failed"] => tracker' = {} \/ pc' = [pc EXCEPT ![g] = "record"]
    BY <2>2, <2>4
  <2>6. \A h \in Goers : pc'[h] \in {"idle", "record"} \/ (pc'[h] = "failed" /\ tracker' = {})
    BY <2>3, <2>4, <2>5 DEF TypeOK
  <2> QED BY <2>1, <2>2, <2>6 DEF Unrecorded
<1>7. ASSUME NEW g \in Goers, Record(g) PROVE Unrecorded'
  <2>1. \A h \in Goers : h # g => pc[h] = "idle"
    BY <1>1, <1>7 DEF Record, Go, InTurn
  <2>2. recorded' # {}
    BY <1>7 DEF Record, Go, Headed, Created, ReposOf
  <2>3. \A h \in Goers : pc'[h] \in {"idle", "check"}
    BY <2>1, <1>7 DEF Record, Go, TypeOK
  <2> QED BY <2>2, <2>3 DEF Unrecorded
<1>8. ASSUME NEW g \in Goers, Check(g) \/ Finish(g) PROVE Unrecorded'
  <2>1. /\ pc[g] \in {"check", "finish"}
        /\ \E to \in {"label", "failed", "done"} : pc' = [pc EXCEPT ![g] = to]
    BY <1>8, CheckEffect DEF Finish, Go
  <2>2. \A h \in Goers : pc'[h] \in {"idle", "label", "failed", "done"}
    BY <1>1, <2>1 DEF InTurn, TypeOK
  <2>3. recorded # {} \/ tracker = {}
    BY <1>1, <2>1 DEF Unrecorded
  <2>4. tracker' = tracker /\ (recorded # {} => recorded' # {})
    <3>1. CASE Finish(g)
      BY <3>1 DEF Finish, Go, Headed, Created, ReposOf
    <3>2. CASE Check(g)
      <4>1. Umbrella \in ReposOf(mine[g])
        BY <3>2, CheckEffect DEF Headed, Created
      <4> QED BY <3>2, <4>1, CheckEffect DEF ReposOf
    <3> QED BY <1>8, <3>1, <3>2
  <2> QED BY <2>2, <2>3, <2>4 DEF Unrecorded
<1>9. ASSUME NEW g \in Goers, Label(g) \/ Approve(g) \/ Done(g) \/ Fail(g) PROVE Unrecorded'
  <2>1. pc[g] \in {"label", "approve", "done", "failed"} /\ UNCHANGED <<recorded, tracker>>
    BY <1>9 DEF Label, Approve, Done, Fail, Go
  <2>2. \A h \in Goers : pc'[h] \notin {"publish", "create"}
    BY <1>1, <1>9, <2>1 DEF Label, Approve, Done, Fail, Go, InTurn, TypeOK
  <2>3. recorded # {} \/ tracker = {}
    BY <1>1, <2>1 DEF Unrecorded
  <2> QED BY <2>1, <2>2, <2>3 DEF Unrecorded
<1>10. ASSUME NEW g \in Goers, Crash(g) PROVE Unrecorded'
  BY <1>1, <1>10 DEF Crash, Unrecorded, TypeOK
<1>11. CASE Deny \/ (\E r \in Repos : AddChild(r)) \/ UNCHANGED vars
  BY <1>1, <1>11 DEF Deny, AddChild, vars, Unrecorded
<1> QED BY <1>2, <1>3, <1>4, <1>5, <1>6, <1>7, <1>8, <1>9, <1>10, <1>11 DEF Next

LEMMA OnceStep ==
  ASSUME TypeOK, Unrecorded, NoIssueTwiceInTurn, [Next]_vars
  PROVE  NoIssueTwiceInTurn'
<1> SUFFICES ASSUME ~overlap' PROVE NoIssueTwice'
  BY DEF NoIssueTwiceInTurn
<1> USE DEF session, outside, local, ghosts
<1>1. ~overlap /\ NoIssueTwice
  BY OverlapStays DEF NoIssueTwiceInTurn
<1>2. ASSUME NEW g \in Goers, Create(g) PROVE NoIssueTwice'
  <2>1. tracker = {}
    BY <1>1, <1>2, CreateEffect DEF Unrecorded
  <2>2. PICK new \in SUBSET Issues : tracker' = new /\ \A i, j \in new : i[1] = j[1] => i = j
    BY <1>2, <2>1, CreateEffect
  <2> QED BY <2>2 DEF NoIssueTwice
<1>3. ASSUME NEW r \in Repos, AddChild(r) PROVE NoIssueTwice'
  <2>1. r \notin ReposOf(tracker) /\ tracker' = tracker \cup {NewIssue(r)} /\ NewIssue(r)[1] = r
    BY <1>3, NewIssueIsNew DEF AddChild, Missing, Targets, TypeOK
  <2>2. \A i \in tracker : i[1] # r
    BY <2>1 DEF ReposOf
  <2> QED BY <1>1, <2>1, <2>2 DEF NoIssueTwice
<1>4. ASSUME NEW g \in Goers, Check(g) PROVE tracker' = tracker
  BY <1>4, CheckEffect
<1>5. CASE UNCHANGED tracker
  BY <1>1, <1>5 DEF NoIssueTwice
<1> QED BY <1>2, <1>3, <1>4, <1>5
    DEF Next, Start, Release, Take, Fresh, Publish, Record, Label, Approve, Finish, Done, Fail, Crash,
        Deny, vars

-----------------------------------------------------------------------------
(***************************************************************************)
(* The theorems.                                                           *)
(***************************************************************************)
LEMMA StepInv == IInv /\ [Next]_vars => IInv'
<1> SUFFICES ASSUME IInv, [Next]_vars PROVE IInv'
  OBVIOUS
<1>1. /\ TypeOK /\ Existing /\ Headed /\ Checked /\ InTurn
      /\ DoneIsDelivered /\ DoneIsRecorded /\ ReleasedIsSized
  BY DEF IInv, DoneIsTrue
<1>2. TypeOK' /\ Existing' /\ Headed' /\ Checked' /\ InTurn'
  BY <1>1, TypeStep, ExistingStep, HeadedStep, CheckedStep, InTurnStep
<1>3. DoneIsDelivered' /\ DoneIsRecorded' /\ ReleasedIsSized'
  BY <1>1, DeliveredStep, RecordedStep, ReleasedStep
<1> QED BY <1>2, <1>3 DEF IInv, DoneIsTrue

(* IInv is inductive, whether or not goes overlap and whatever a creation  *)
(* that fails has created: what a go or the record names exists, has the   *)
(* umbrella's issue, and what was checked, labelled and released stays so. *)
THEOREM Invariant == Spec => []IInv
BY InitInv, StepInv, PTL DEF Spec

(* TypeOK: every variable keeps its type.                                  *)
THEOREM TypeCorrect == Spec => []TypeOK
<1>1. IInv => TypeOK
  BY DEF IInv
<1> QED BY <1>1, Invariant, PTL

(* DoneIsTrue: a requirement in DONE has an issue in every repository, a   *)
(* released plan and a sized Epic, also after goes that overlapped, died   *)
(* or failed; and its record is complete and true unless goes overlapped.  *)
THEOREM NeverPretendsDone == Spec => []DoneIsTrue
<1>1. IInv => DoneIsTrue
  BY DEF IInv
<1> QED BY <1>1, Invariant, PTL

(* NoIssueTwiceInTurn: goes that come one after the other, however often   *)
(* they fail, die and are repeated, create no second issue in a repository *)
(* -- if a creation that fails has created nothing, and only then (TLC has *)
(* the counterexample).  A go that dies before it recorded what it created *)
(* leaves WRITING, from which none starts.                                 *)
THEOREM IssuesOnceInTurn == ASSUME Reported = TRUE PROVE Spec => []NoIssueTwiceInTurn
<1>1. Init => IInv /\ Unrecorded /\ NoIssueTwiceInTurn
  BY InitInv DEF NoIssueTwiceInTurn
<1>2. IInv /\ Unrecorded /\ NoIssueTwiceInTurn /\ [Next]_vars
        => (IInv /\ Unrecorded /\ NoIssueTwiceInTurn)'
  BY StepInv, UnrecordedStep, OnceStep DEF IInv
<1> QED BY <1>1, <1>2, PTL DEF Spec

-----------------------------------------------------------------------------

(***************************************************************************)
(* DRIFT RECONCILIATION                                                    *)
(* The drift has been told in this visit, and the verdict not recorded.    *)
(***************************************************************************)
Told == at \in {"detected", "drift"}

\* a settled requirement is not visited; each record of a drift follows an alert
\* of its own, and every alert but one a crash
DriftInv ==
  /\ DriftTypeOK
  /\ reconciled # "none" => at = "idle"
  /\ detected <= alerts /\ (at = "detected" => detected < alerts)
  /\ (Told \/ reconciled = "drift") => alerts > 0
  /\ alerts <= deaths + (IF Told \/ reconciled = "drift" THEN 1 ELSE 0)

\* nothing was told at the start
LEMMA DriftInitInv == DriftInit => DriftInv
<1> SUFFICES ASSUME DriftInit PROVE DriftInv
  OBVIOUS
<1> USE DriftAssumption DEF DriftAssumption, DriftInit
<1>1. DriftTypeOK
  <2>1. contract \in BOOLEAN /\ elapsed \in BOOLEAN /\ heard \in BOOLEAN
    BY Zenon
  <2>2. /\ polls \in 0..MaxPolls /\ deaths \in 0..MaxDriftCrashes
        /\ detected \in 0..(MaxDriftCrashes + 1) /\ alerts \in 0..(MaxDriftCrashes + 1)
    OBVIOUS
  <2> QED BY <2>1, <2>2 DEF DriftTypeOK, Verdicts
<1> QED BY <1>1 DEF DriftInv, Told

\* each step keeps the types, and the order of the crashes and the alerts
LEMMA DriftTypeStep == ASSUME DriftInv, [DriftNext]_driftVars PROVE DriftTypeOK'
<1> USE DriftAssumption DEF DriftAssumption, DriftInv, DriftTypeOK, Told
<1>1. CASE Visit
  <2>1. UNCHANGED <<world, deaths>> /\ elapsed' \in BOOLEAN /\ heard' \in BOOLEAN
    BY <1>1
       DEF Visit, Poll, GiveUp, NotYet, Dropped, Closed, NoContract, Skip, Audit, Alert,
           AppendDetected, Reconciled
  <2>2. from' \in {"DONE", "SHIPPED"}
    BY <1>1
       DEF Visit, Poll, Pollable, GiveUp, NotYet, Dropped, Closed, NoContract, Skip, Audit, Alert,
           AppendDetected, Reconciled
  <2>3. at' \in {"idle", "check", "audit", "alert", "detected", "drift", "clean"}
    BY <1>1
       DEF Visit, Poll, GiveUp, NotYet, Dropped, Closed, NoContract, Skip, Audit, Alert,
           AppendDetected, Reconciled, Moves
  <2>4. reconciled' \in Verdicts
    BY <1>1
       DEF Visit, Poll, GiveUp, NotYet, Dropped, Closed, NoContract, Skip, Audit, Alert,
           AppendDetected, Reconciled, events, Verdicts
  <2>5. polls' \in 0..MaxPolls
    <3>1. polls' = polls \/ (polls < MaxPolls /\ polls' = polls + 1)
      BY <1>1
         DEF Visit, Poll, GiveUp, NotYet, Dropped, Closed, NoContract, Skip, Audit, Alert,
             AppendDetected, Reconciled, events
    <3> QED BY <3>1
  <2>6. detected' \in 0..(MaxDriftCrashes + 1) /\ alerts' \in 0..(MaxDriftCrashes + 1)
    <3>1. \/ UNCHANGED <<detected, alerts>>
          \/ at = "alert" /\ alerts' = alerts + 1 /\ UNCHANGED detected
          \/ at = "detected" /\ detected' = detected + 1 /\ UNCHANGED alerts
      BY <1>1
         DEF Visit, Poll, GiveUp, NotYet, Dropped, Closed, NoContract, Skip, Audit, Alert,
             AppendDetected, Reconciled, events, Moves
    <3>2. at = "alert" => alerts <= MaxDriftCrashes
      OBVIOUS
    <3>3. at = "detected" => detected < alerts
      OBVIOUS
    <3> HIDE <1>1
    <3> QED BY <3>1, <3>2, <3>3
  <2> QED BY <2>1, <2>2, <2>3, <2>4, <2>5, <2>6 DEF world
<1>2. CASE DriftCrash
  BY <1>2 DEF DriftCrash, world, events
<1>3. CASE Window
  BY <1>3 DEF Window, world, events
<1>4. ASSUME NEW i \in TrackedIssues, OnIssue(i) PROVE DriftTypeOK'
  BY <1>4 DEF OnIssue, reconciler, events
<1>5. CASE Implement \/ Ship
  BY <1>5 DEF Implement, Ship, reconciler, events
<1>6. CASE UNCHANGED driftVars
  BY <1>6 DEF driftVars, world, events
<1> QED BY <1>1, <1>2, <1>3, <1>4, <1>5, <1>6 DEF DriftNext

\* each step keeps the invariant
LEMMA DriftStep == ASSUME DriftInv, [DriftNext]_driftVars PROVE DriftInv'
<1> USE DriftTypeStep DEF DriftInv, Told, events
<1>0. detected \in Nat /\ alerts \in Nat /\ deaths \in Nat
  BY DriftAssumption DEF DriftAssumption, DriftTypeOK
<1>1. CASE Poll \/ GiveUp \/ NotYet
  BY <1>0, <1>1 DEF Poll, GiveUp, NotYet, Pollable
<1>2. CASE Dropped \/ NoContract
  BY <1>0, <1>2 DEF Dropped, NoContract, Skip, Moves
<1>3. CASE Closed \/ Audit
  BY <1>0, <1>3 DEF Closed, Audit, Moves
<1>4. CASE Alert
  BY <1>0, <1>4 DEF Alert, Moves
<1>5. CASE AppendDetected
  BY <1>0, <1>5 DEF AppendDetected, Moves
<1>6. CASE Reconciled
  BY <1>0, <1>6 DEF Reconciled
<1>7. CASE DriftCrash
  BY <1>0, <1>7 DEF DriftCrash
<1>8. CASE Window
  BY <1>0, <1>8 DEF Window
<1>9. CASE (\E i \in TrackedIssues : OnIssue(i)) \/ Implement \/ Ship
  BY <1>0, <1>9 DEF OnIssue, Implement, Ship, reconciler
<1>10. CASE UNCHANGED driftVars
  BY <1>0, <1>10 DEF driftVars
<1> QED BY <1>1, <1>2, <1>3, <1>4, <1>5, <1>6, <1>7, <1>8, <1>9, <1>10 DEF DriftNext, Visit

\* the invariant the theorems on drift follow from
THEOREM DriftInvariant == DriftSpec => []DriftInv
<1>1. DriftInv /\ [DriftNext]_driftVars => DriftInv'
  BY DriftStep
<1> QED BY <1>1, DriftInitInv, PTL DEF DriftSpec

(***************************************************************************)
(* The session, its issues and its drift events keep their types.          *)
(***************************************************************************)
THEOREM DriftTypeCorrect == DriftSpec => []DriftTypeOK
<1>1. DriftInv => DriftTypeOK
  BY DEF DriftInv
<1> QED BY <1>1, DriftInvariant, PTL

(***************************************************************************)
(* A drift on record was told first, and is told again only after a crash, *)
(* for any number of issues, polls and crashes.                            *)
(***************************************************************************)
THEOREM DriftIsToldOnce == DriftSpec => []OneAlertPerDrift
<1>1. DriftInv => OneAlertPerDrift
  BY DriftAssumption
     DEF DriftAssumption, DriftInv, DriftTypeOK, OneAlertPerDrift, RecordedIsAlerted,
         AlertsRepeatOnCrash
<1> QED BY <1>1, DriftInvariant, PTL

(***************************************************************************)
(* "It never runs again": once a verdict is on record nothing is polled,   *)
(* judged or told, whatever happens to the issues and the session.         *)
(***************************************************************************)
THEOREM SettledStays ==
  DriftSpec => [][reconciled # "none" => UNCHANGED <<polls, reconciled, detected, alerts>>]_driftVars
<1>1. ASSUME DriftInv, [DriftNext]_driftVars, reconciled # "none"
      PROVE  UNCHANGED <<polls, reconciled, detected, alerts>>
  <2>1. at = "idle"
    BY <1>1 DEF DriftInv
  <2>2. ~Visit
    BY <1>1, <2>1
       DEF Visit, Poll, GiveUp, Pollable, NotYet, Dropped, Closed, NoContract, Skip, Audit, Alert,
           AppendDetected, Reconciled, Moves
  <2> QED BY <1>1, <2>2
       DEF DriftNext, DriftCrash, Window, OnIssue, Implement, Ship, reconciler, driftVars, events
<1> QED BY <1>1, DriftInvariant, PTL DEF DriftSpec
=============================================================================

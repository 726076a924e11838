---------------------------- MODULE RunnersProofs ----------------------------
(***************************************************************************)
(* Proofs about the control plane and its runners, for any number of       *)
(* runners, sessions and mishaps: a session is run by one process, and     *)
(* edits and setups are safe unless the control plane, or a second step    *)
(* of the same runner, took the session while a step was using it.         *)
(***************************************************************************)
EXTENDS Runners, FiniteSetTheorems, TLAPS

\* who runs a session holds its lease
Leases ==
  \A r \in Runners, s \in Sessions :
    Busy(r, s) => r \in up /\ lease[s].by = r /\ lease[s].live

\* one step of the session at a time, also within a process
Alone(s) ==
  \A r, q \in Runners : \A k, l \in Slots :
    at[r][k][s] # "none" /\ at[q][l][s] # "none" => r = q /\ k = l

\* the row a step in this position read or wrote still stands: up to the record of the tree
\* there is nothing to lose, and nothing after it is sent back there
StageAt(p) ==
  CASE p = "enter" -> "requested" [] p \in {"setup", "record", "start"} -> "running"
    [] OTHER -> "loop"

PosOK(s, p) ==
  p # "none" =>
    /\ stage[s] = StageAt(p)
    /\ (path[s] <=> p \in {"start", "loop"})
    /\ p = "record" /\ ~SlowSetup => tree[s] = "young"

RowOK(s) ==
  /\ stage[s] = "requested" => ~path[s]
  /\ stage[s] \in {"loop", "parked"} => path[s]
  /\ work[s] => path[s]

Steady(s) ==
  /\ Alone(s)
  /\ \A r \in Runners, k \in Slots : PosOK(s, at[r][k][s])
  /\ RowOK(s)

Calm == \A s \in Sessions : s \notin disturbed => Steady(s)

IInv == TypeOK /\ Leases /\ Calm

-----------------------------------------------------------------------------
(***************************************************************************)
(* The steps' positions.                                                   *)
(***************************************************************************)
AtTypes == [Runners -> [Slots -> [Sessions -> Positions]]]

\* what is at a session is where it was, perhaps in the other slot
Kept(t) ==
  \A q \in Runners, l \in Slots :
    at'[q][l][t] # "none" => \E m \in Slots : at[q][m][t] = at'[q][l][t]

\* no session gets into both slots
Double(t) ==
  \A q \in Runners :
    at'[q]["tick"][t] # "none" /\ at'[q]["left"][t] # "none" =>
      at[q]["tick"][t] # "none" /\ at[q]["left"][t] # "none"

(* Go changes one position. *)
LEMMA GoAt ==
  ASSUME at \in AtTypes, NEW r \in Runners, NEW k \in Slots, NEW s \in Sessions,
         NEW p \in Positions, Go(r, k, s, p)
  PROVE  /\ at' \in AtTypes
         /\ \A q \in Runners, l \in Slots, t \in Sessions :
              at'[q][l][t] = IF q = r /\ l = k /\ t = s THEN p ELSE at[q][l][t]
<1>1. at' = [at EXCEPT ![r] = [at[r] EXCEPT ![k] = [at[r][k] EXCEPT ![s] = p]]]
  BY DEF Go
<1>2. at[r] \in [Slots -> [Sessions -> Positions]] /\ at[r][k] \in [Sessions -> Positions]
  BY DEF AtTypes
<1>3. [at[r][k] EXCEPT ![s] = p] \in [Sessions -> Positions]
  BY <1>2
<1>4. [at[r] EXCEPT ![k] = [at[r][k] EXCEPT ![s] = p]] \in [Slots -> [Sessions -> Positions]]
  BY <1>2, <1>3
<1>5. at' \in AtTypes
  BY <1>1, <1>4 DEF AtTypes
<1>6. ASSUME NEW q \in Runners, NEW l \in Slots, NEW t \in Sessions
      PROVE  at'[q][l][t] = IF q = r /\ l = k /\ t = s THEN p ELSE at[q][l][t]
  BY <1>1, <1>2 DEF AtTypes
<1> QED BY <1>5, <1>6

(* A tick that ends by an exception leaves its other steps running. *)
LEMMA ThrowAt ==
  ASSUME at \in AtTypes, NEW r \in Runners, NEW s \in Sessions, Throw(r, "tick", s)
  PROVE  /\ at' \in AtTypes
         /\ \A q \in Runners, l \in Slots : q # r => at'[q][l] = at[q][l]
         /\ \A t \in Sessions :
              /\ at'[r]["tick"][t] = "none"
              /\ at'[r]["left"][t] = IF t = s \/ at[r]["tick"][t] = "none"
                                     THEN at[r]["left"][t] ELSE at[r]["tick"][t]
<1> DEFINE left == [t \in Sessions |-> IF t = s \/ at[r]["tick"][t] = "none"
                                       THEN at[r]["left"][t] ELSE at[r]["tick"][t]]
           both == [tick |-> Resting, left |-> left]
<1>1. at' = [at EXCEPT ![r] = both]
  BY DEF Throw
<1>2. "tick" \in Slots /\ "left" \in Slots /\ Slots = {"tick", "left"} /\ "none" \in Positions
  BY DEF Slots, Positions
<1>3. at[r]["tick"] \in [Sessions -> Positions] /\ at[r]["left"] \in [Sessions -> Positions]
  BY <1>2 DEF AtTypes
<1>4. left \in [Sessions -> Positions]
  BY <1>3
<1>5. Resting \in [Sessions -> Positions] /\ \A t \in Sessions : Resting[t] = "none"
  BY <1>2 DEF Resting
<1>6. both \in [Slots -> [Sessions -> Positions]]
  <2>1. both = [k \in Slots |-> IF k = "tick" THEN Resting ELSE left]
    BY <1>2
  <2> QED BY <2>1, <1>4, <1>5
<1>7. at' \in AtTypes
  BY <1>1, <1>6 DEF AtTypes
<1>8. at'[r] = both
  BY <1>1 DEF AtTypes
<1>9. \A q \in Runners, l \in Slots : q # r => at'[q][l] = at[q][l]
  BY <1>1 DEF AtTypes
<1> HIDE DEF both, left
<1>10. at'[r]["tick"] = Resting /\ at'[r]["left"] = left
  BY <1>8 DEF both
<1> QED BY <1>7, <1>9, <1>10, <1>5 DEF left

(* Whatever a step does, it adds nobody to a session. *)
LEMMA StepAt ==
  ASSUME at \in AtTypes, NEW r \in Runners, NEW k \in Slots, NEW s \in Sessions,
         at[r][k][s] # "none", NEW p \in Positions, Go(r, k, s, p) \/ Throw(r, k, s)
  PROVE  /\ at' \in AtTypes
         /\ \A t \in Sessions : Double(t)
         /\ \A t \in Sessions : t # s => Kept(t)
         /\ \A q \in Runners, t \in Sessions : Busy(q, t)' => Busy(q, t)
         /\ Alone(s) => \A q \in Runners, l \in Slots :
              at'[q][l][s] # "none" => at'[q][l][s] = p /\ Go(r, k, s, p)
<1>1. "none" \in Positions /\ Slots = {"tick", "left"}
  BY DEF Positions, Slots
<1>2. ASSUME NEW w \in Positions, Go(r, k, s, w)
      PROVE  /\ at' \in AtTypes
             /\ \A t \in Sessions : Double(t)
             /\ \A t \in Sessions : t # s => Kept(t)
             /\ \A q \in Runners, t \in Sessions : Busy(q, t)' => Busy(q, t)
             /\ Alone(s) => \A q \in Runners, l \in Slots :
                  at'[q][l][s] # "none" => at'[q][l][s] = w
  <2>1. /\ at' \in AtTypes
        /\ \A q \in Runners, l \in Slots, t \in Sessions :
             at'[q][l][t] = IF q = r /\ l = k /\ t = s THEN w ELSE at[q][l][t]
    BY <1>2, GoAt
  <2>2. \A t \in Sessions : Double(t)
    BY <2>1, <1>1 DEF Double
  <2>3. \A t \in Sessions : t # s => Kept(t)
    BY <2>1 DEF Kept
  <2>4. \A q \in Runners, t \in Sessions : Busy(q, t)' => Busy(q, t)
    BY <2>1 DEF Busy
  <2>5. Alone(s) => \A q \in Runners, l \in Slots :
                      at'[q][l][s] # "none" => at'[q][l][s] = w
    BY <2>1 DEF Alone
  <2> QED BY <2>1, <2>2, <2>3, <2>4, <2>5
<1>3. CASE Go(r, k, s, p)
  BY <1>2, <1>3
<1>4. CASE Throw(r, k, s) /\ k = "left"
  <2>1. Go(r, k, s, "none")
    BY <1>4 DEF Throw
  <2>2. Alone(s) => \A q \in Runners, l \in Slots : at'[q][l][s] = "none"
    BY <1>2, <2>1, <1>1
  <2> QED BY <1>2, <2>1, <2>2, <1>1
<1>5. CASE Throw(r, k, s) /\ k = "tick"
  <2>1. /\ at' \in AtTypes
        /\ \A q \in Runners, l \in Slots : q # r => at'[q][l] = at[q][l]
        /\ \A t \in Sessions :
             /\ at'[r]["tick"][t] = "none"
             /\ at'[r]["left"][t] = IF t = s \/ at[r]["tick"][t] = "none"
                                    THEN at[r]["left"][t] ELSE at[r]["tick"][t]
    BY <1>5, ThrowAt
  <2>2. \A t \in Sessions : Double(t)
    BY <2>1, <1>1 DEF Double
  <2>3. \A q \in Runners, l \in Slots, t \in Sessions :
          at'[q][l][t] # "none" => \E m \in Slots : at[q][m][t] = at'[q][l][t]
    BY <2>1, <1>1
  <2>4. Alone(s) => \A q \in Runners, l \in Slots : at'[q][l][s] = "none"
    BY <2>1, <1>1, <1>5 DEF Alone
  <2> QED BY <2>1, <2>2, <2>3, <2>4 DEF Kept, Busy
<1> QED BY <1>1, <1>3, <1>4, <1>5

-----------------------------------------------------------------------------
(***************************************************************************)
(* The invariant, session by session.                                      *)
(***************************************************************************)
SameRow(t) ==
  stage'[t] = stage[t] /\ path'[t] = path[t] /\ tree'[t] = tree[t] /\ work'[t] = work[t]

(* A session an action has nothing to do with stays as it should be. *)
LEMMA Elsewhere ==
  ASSUME NEW t \in Sessions, Steady(t), Kept(t), Double(t), SameRow(t), Leases'
  PROVE  Steady(t)'
<1>1. Slots = {"tick", "left"}
  BY DEF Slots
<1>2. Alone(t)'
  <2> SUFFICES ASSUME NEW q \in Runners, NEW u \in Runners, NEW l \in Slots, NEW m \in Slots,
                      at'[q][l][t] # "none", at'[u][m][t] # "none"
               PROVE  q = u /\ l = m
    BY DEF Alone
  <2>1. Busy(q, t)' /\ Busy(u, t)'
    BY DEF Busy
  <2>2. q = u
    BY <2>1 DEF Leases
  <2>3. l = m
    <3> SUFFICES ASSUME l # m PROVE FALSE
      OBVIOUS
    <3>1. at'[q]["tick"][t] # "none" /\ at'[q]["left"][t] # "none"
      BY <1>1, <2>2
    <3>2. at[q]["tick"][t] # "none" /\ at[q]["left"][t] # "none"
      BY <3>1 DEF Double
    <3> QED BY <3>2, <1>1 DEF Steady, Alone
  <2> QED BY <2>2, <2>3
<1>3. ASSUME NEW q \in Runners, NEW l \in Slots
      PROVE  PosOK(t, at[q][l][t])'
  <2>1. CASE at'[q][l][t] = "none"
    BY <2>1 DEF PosOK
  <2>2. CASE at'[q][l][t] # "none"
    <3>1. PICK m \in Slots : at[q][m][t] = at'[q][l][t]
      BY <2>2 DEF Kept
    <3>2. PosOK(t, at[q][m][t])
      BY DEF Steady
    <3> QED BY <3>1, <3>2 DEF PosOK, SameRow
  <2> QED BY <2>1, <2>2
<1>4. RowOK(t)'
  BY DEF Steady, RowOK, SameRow
<1> QED BY <1>2, <1>3, <1>4 DEF Steady

(* What is left to show of a step: that the row and its next position fit together. *)
LEMMA StepKeeps ==
  ASSUME IInv, NEW r \in Runners, NEW k \in Slots, NEW s \in Sessions,
         at[r][k][s] # "none", NEW p \in Positions, Go(r, k, s, p) \/ Throw(r, k, s),
         \A t \in Sessions : t # s => SameRow(t),
         lease' = lease, up' = up, disturbed' = disturbed,
         s \notin disturbed => RowOK(s)' /\ (Go(r, k, s, p) => PosOK(s, p)')
  PROVE  at' \in AtTypes /\ Leases' /\ Calm'
<1>1. at \in AtTypes
  BY DEF IInv, TypeOK, AtTypes
<1>2. /\ at' \in AtTypes
      /\ \A t \in Sessions : Double(t)
      /\ \A t \in Sessions : t # s => Kept(t)
      /\ \A q \in Runners, t \in Sessions : Busy(q, t)' => Busy(q, t)
      /\ Alone(s) => \A q \in Runners, l \in Slots :
           at'[q][l][s] # "none" => at'[q][l][s] = p /\ Go(r, k, s, p)
  BY <1>1, StepAt
<1>3. Leases'
  BY <1>2 DEF IInv, Leases
<1>4. ASSUME NEW t \in Sessions, t \notin disturbed'
      PROVE  Steady(t)'
  <2>1. Steady(t)
    BY <1>4 DEF IInv, Calm
  <2>2. CASE t # s
    BY <1>2, <1>3, <2>1, <2>2, Elsewhere
  <2>3. CASE t = s
    <3>1. \A q \in Runners, l \in Slots :
            at'[q][l][s] # "none" => at'[q][l][s] = p /\ Go(r, k, s, p)
      BY <1>2, <2>1, <2>3 DEF Steady
    <3>2. RowOK(s)' /\ (Go(r, k, s, p) => PosOK(s, p)')
      BY <1>4, <2>3
    <3>3. \A q \in Runners, l \in Slots : PosOK(s, at[q][l][s])'
      BY <3>1, <3>2 DEF PosOK
    <3>4. Alone(s)'
      <4> SUFFICES ASSUME NEW q \in Runners, NEW u \in Runners, NEW l \in Slots, NEW m \in Slots,
                          at'[q][l][s] # "none", at'[u][m][s] # "none"
                   PROVE  q = u /\ l = m
        BY DEF Alone
      <4>1. Busy(q, s)' /\ Busy(u, s)'
        BY DEF Busy
      <4>2. q = u
        BY <4>1, <1>3 DEF Leases
      <4>3. l = m
        <5> SUFFICES ASSUME l # m PROVE FALSE
          OBVIOUS
        <5>1. at'[q]["tick"][s] # "none" /\ at'[q]["left"][s] # "none"
          BY <4>2 DEF Slots
        <5>2. at[q]["tick"][s] # "none" /\ at[q]["left"][s] # "none"
          BY <5>1, <1>2 DEF Double
        <5> QED BY <5>2, <2>1, <2>3 DEF Steady, Alone, Slots
      <4> QED BY <4>2, <4>3
    <3> QED BY <3>2, <3>3, <3>4, <2>3 DEF Steady
  <2> QED BY <2>2, <2>3
<1> QED BY <1>2, <1>3, <1>4 DEF Calm

(* Its phase is one of a tick's. *)
LEMMA StepPhase ==
  ASSUME TypeOK, NEW r \in Runners, NEW k \in Slots, NEW s \in Sessions, NEW p \in Positions,
         Go(r, k, s, p) \/ Throw(r, k, s)
  PROVE  phase' \in [Runners -> {"idle", "reclaim", "sweep", "run"}]
BY DEF TypeOK, Go, Throw

Phases == {"idle", "reclaim", "sweep", "run"}

(* An exception ends the step and changes no row. *)
LEMMA Thrown ==
  ASSUME IInv, NEW r \in Runners, NEW k \in Slots, NEW s \in Sessions, at[r][k][s] # "none",
         Throw(r, k, s), UNCHANGED <<stage, path, disk, lease, up, disturbed>>
  PROVE  /\ at' \in AtTypes /\ Leases' /\ Calm'
         /\ stage' \in [Sessions -> Stages] /\ phase' \in [Runners -> Phases]
<1>1. TypeOK /\ "none" \in Positions
  BY DEF IInv, Positions
<1>2. \A t \in Sessions : t # s => SameRow(t)
  BY DEF SameRow, disk
<1>3. s \notin disturbed => RowOK(s)' /\ PosOK(s, "none")'
  BY DEF IInv, Calm, Steady, RowOK, PosOK, disk
<1>4. at' \in AtTypes /\ Leases' /\ Calm'
  BY <1>1, <1>2, <1>3, StepKeeps
<1>5. phase' \in [Runners -> Phases]
  BY <1>1, StepPhase DEF Phases
<1> QED BY <1>1, <1>4, <1>5 DEF TypeOK

(* A step that moves its session and goes on, or is done. *)
LEMMA Moved ==
  ASSUME IInv, NEW r \in Runners, NEW k \in Slots, NEW s \in Sessions, at[r][k][s] # "none",
         NEW p \in Positions \ {"record"}, NEW to \in Stages, Go(r, k, s, p), MoveTo(s, to),
         UNCHANGED <<path, disk, lease, up, disturbed>>,
         s \notin disturbed =>
           /\ p # "none" => to = StageAt(p) /\ (path[s] <=> p \in {"start", "loop"})
           /\ to = "requested" => ~path[s]
           /\ to \in {"loop", "parked"} => path[s]
  PROVE  /\ at' \in AtTypes /\ Leases' /\ Calm'
         /\ stage' \in [Sessions -> Stages] /\ phase' \in [Runners -> Phases]
<1>1. TypeOK /\ p \in Positions
  BY DEF IInv
<1>2. stage' = [stage EXCEPT ![s] = to] /\ stage'[s] = to
  BY <1>1 DEF MoveTo, TypeOK
<1>3. \A t \in Sessions : t # s => SameRow(t)
  BY <1>1, <1>2 DEF SameRow, disk, TypeOK
<1>4. s \notin disturbed => RowOK(s)' /\ PosOK(s, p)'
  <2> SUFFICES ASSUME s \notin disturbed PROVE RowOK(s)' /\ PosOK(s, p)'
    OBVIOUS
  <2>1. RowOK(s)
    BY DEF IInv, Calm, Steady
  <2>2. RowOK(s)'
    BY <2>1, <1>2 DEF RowOK, disk
  <2>3. PosOK(s, p)'
    BY <1>2 DEF PosOK
  <2> QED BY <2>2, <2>3
<1>5. at' \in AtTypes /\ Leases' /\ Calm'
  BY <1>1, <1>3, <1>4, StepKeeps
<1>6. stage' \in [Sessions -> Stages]
  BY <1>1, <1>2 DEF TypeOK
<1>7. phase' \in [Runners -> Phases]
  BY <1>1, StepPhase DEF Phases
<1> QED BY <1>5, <1>6, <1>7

(* A failure parks the session, from wherever it was. *)
LEMMA ParkedFailure ==
  ASSUME IInv, NEW r \in Runners, NEW k \in Slots, NEW s \in Sessions, at[r][k][s] # "none",
         parkFailure(r, k, s), UNCHANGED <<path, disk, lease, up, disturbed>>
  PROVE  /\ at' \in AtTypes /\ Leases' /\ Calm'
         /\ stage' \in [Sessions -> Stages] /\ phase' \in [Runners -> Phases]
<1>1. "none" \in Positions \ {"record"} /\ "failed" \in Stages
  BY DEF Positions, Stages
<1>2. CASE CanMove(stage[s], "failed")
  BY <1>1, <1>2, Moved DEF parkFailure
<1>3. CASE ~CanMove(stage[s], "failed")
  BY <1>3, Thrown DEF parkFailure
<1> QED BY <1>2, <1>3

(* What the invariant says of a session in a step's hands. *)
LEMMA Standing ==
  ASSUME IInv, NEW r \in Runners, NEW k \in Slots, NEW s \in Sessions, s \notin disturbed
  PROVE  PosOK(s, at[r][k][s]) /\ RowOK(s) /\ Alone(s)
BY DEF IInv, Calm, Steady

LEMMA StepOnKeeps ==
  ASSUME IInv, NEW r \in Runners, NEW k \in Slots, NEW s \in Sessions, StepOn(r, k, s)
  PROVE  IInv'
<1>1. /\ TypeOK /\ {"none", "setup", "start", "loop"} \subseteq Positions \ {"record"}
      /\ "record" \in Positions /\ {"running", "loop", "parked"} \subseteq Stages
  BY DEF IInv, Positions, Stages
<1>2. UNCHANGED <<lease, up, orphans, doomed, disturbed, mishaps>>
  BY DEF StepOn, Enter, CreateTree, Record, Start, Fail, Pause, Park, ctl
<1>3. at[r][k][s] # "none"
  BY DEF StepOn, Enter, CreateTree, Record, Start, Fail, Pause, Park, Runs
<1> DEFINE Types == stage' \in [Sessions -> Stages] /\ phase' \in [Runners -> Phases]
           Keeps == at' \in AtTypes /\ Leases' /\ Calm' /\ Types
           Typed == path' \in [Sessions -> BOOLEAN]
                    /\ tree' \in [Sessions -> {"none", "young", "old"}]
                    /\ work' \in [Sessions -> BOOLEAN]
                    /\ \A t \in Sessions : work'[t] => tree'[t] # "none"
<1>4. ASSUME Keeps, Typed PROVE IInv'
  <2>1. Leases' /\ Calm'
    BY <1>4
  <2>2. TypeOK'
    BY <1>1, <1>2, <1>4 DEF TypeOK, AtTypes, Phases
  <2> QED BY <2>1, <2>2 DEF IInv
<1>5. UNCHANGED <<path, disk>> => Typed
  BY <1>1 DEF TypeOK, disk
<1>6. CASE Enter(r, k, s)
  <2>1. at[r][k][s] = "enter" /\ UNCHANGED <<path, disk>>
    BY <1>6 DEF Enter, Runs
  <2>2. s \notin disturbed => ~path[s]
    BY <2>1, Standing DEF PosOK
  <2>3. CASE CanMove(stage[s], "running")
    <3>1. MoveTo(s, "running") /\ Go(r, k, s, "setup")
      BY <1>6, <2>3 DEF Enter
    <3>2. s \notin disturbed =>
            "running" = StageAt("setup") /\ (path[s] <=> "setup" \in {"start", "loop"})
      BY <2>2 DEF StageAt
    <3>3. Keeps
      BY <3>1, <3>2, <2>1, <1>1, <1>2, <1>3, Moved
    <3> QED BY <3>3, <2>1, <1>4, <1>5
  <2>4. CASE ~CanMove(stage[s], "running")
    <3>1. Throw(r, k, s) /\ UNCHANGED stage
      BY <1>6, <2>4 DEF Enter
    <3>2. Keeps
      BY <3>1, <2>1, <1>2, <1>3, Thrown
    <3> QED BY <3>2, <2>1, <1>4, <1>5
  <2> QED BY <2>3, <2>4
<1>7. CASE CreateTree(r, k, s)
  <2>1. /\ at[r][k][s] = "setup" /\ UNCHANGED <<stage, path>> /\ Go(r, k, s, "record")
        /\ tree' = [tree EXCEPT ![s] = "young"] /\ work' = [work EXCEPT ![s] = FALSE]
    BY <1>7 DEF CreateTree, Runs, rows
  <2>2. \A t \in Sessions : t # s => SameRow(t)
    BY <2>1, <1>1 DEF SameRow, TypeOK
  <2>3. tree'[s] = "young" /\ ~work'[s]
    BY <2>1, <1>1 DEF TypeOK
  <2>4. s \notin disturbed => RowOK(s)' /\ PosOK(s, "record")'
    <3>1. s \notin disturbed => stage[s] = "running" /\ ~path[s] /\ RowOK(s)
      BY <2>1, Standing DEF PosOK, StageAt
    <3> QED BY <3>1, <2>1, <2>3 DEF RowOK, PosOK, StageAt
  <2>5. at' \in AtTypes /\ Leases' /\ Calm'
    BY <2>1, <2>2, <2>4, <1>1, <1>2, <1>3, StepKeeps
  <2>6. Types
    BY <2>1, <1>1 DEF TypeOK, Go, Phases
  <2>7. Typed
    BY <2>1, <2>3, <1>1 DEF TypeOK
  <2> QED BY <2>5, <2>6, <2>7, <1>4
<1>8. CASE Record(r, k, s)
  <2>1. /\ at[r][k][s] = "record" /\ UNCHANGED <<stage, disk>> /\ Go(r, k, s, "start")
        /\ path' = [path EXCEPT ![s] = TRUE]
    BY <1>8 DEF Record, Runs
  <2>2. \A t \in Sessions : t # s => SameRow(t)
    BY <2>1, <1>1 DEF SameRow, TypeOK, disk
  <2>3. path'[s]
    BY <2>1, <1>1 DEF TypeOK
  <2>4. s \notin disturbed => RowOK(s)' /\ PosOK(s, "start")'
    <3>1. s \notin disturbed => stage[s] = "running" /\ RowOK(s)
      BY <2>1, Standing DEF PosOK, StageAt
    <3> QED BY <3>1, <2>1, <2>3, <1>1 DEF RowOK, PosOK, StageAt, TypeOK
  <2>5. at' \in AtTypes /\ Leases' /\ Calm'
    BY <2>1, <2>2, <2>4, <1>1, <1>2, <1>3, StepKeeps
  <2>6. Types
    BY <2>1, <1>1 DEF TypeOK, Go, Phases
  <2>7. Typed
    BY <2>1, <1>1 DEF TypeOK, disk
  <2> QED BY <2>5, <2>6, <2>7, <1>4
<1>9. CASE Start(r, k, s)
  <2>1. at[r][k][s] = "start" /\ UNCHANGED <<path, disk>>
    BY <1>9 DEF Start, Runs
  <2>2. s \notin disturbed => path[s]
    BY <2>1, Standing DEF PosOK
  <2>3. CASE CanMove(stage[s], "loop")
    <3>1. MoveTo(s, "loop") /\ Go(r, k, s, "loop")
      BY <1>9, <2>3 DEF Start
    <3>2. Keeps
      BY <3>1, <2>1, <2>2, <1>1, <1>2, <1>3, Moved DEF StageAt
    <3> QED BY <3>2, <2>1, <1>4, <1>5
  <2>4. CASE ~CanMove(stage[s], "loop")
    <3>1. Throw(r, k, s) /\ UNCHANGED stage
      BY <1>9, <2>4 DEF Start
    <3>2. Keeps
      BY <3>1, <2>1, <1>2, <1>3, Thrown
    <3> QED BY <3>2, <2>1, <1>4, <1>5
  <2> QED BY <2>3, <2>4
<1>10. CASE Fail(r, k, s)
  <2>1. parkFailure(r, k, s) /\ UNCHANGED <<path, disk>>
    BY <1>10 DEF Fail
  <2>2. Keeps
    BY <2>1, <1>2, <1>3, ParkedFailure
  <2> QED BY <2>1, <2>2, <1>4, <1>5
<1>11. CASE Pause(r, k, s)
  <2>1. at[r][k][s] = "loop" /\ UNCHANGED <<stage, path, disk>> /\ Go(r, k, s, "none")
    BY <1>11 DEF Pause, Runs
  <2>2. \A t \in Sessions : SameRow(t)
    BY <2>1 DEF SameRow, disk
  <2>3. s \notin disturbed => RowOK(s)' /\ PosOK(s, "none")'
    BY <2>1, Standing DEF RowOK, PosOK, disk
  <2>4. at' \in AtTypes /\ Leases' /\ Calm'
    BY <2>1, <2>2, <2>3, <1>1, <1>2, <1>3, StepKeeps
  <2>5. Types
    BY <2>1, <1>1 DEF TypeOK, Go, Phases
  <2> QED BY <2>1, <2>4, <2>5, <1>4, <1>5
<1>12. CASE Park(r, k, s)
  <2>1. at[r][k][s] = "loop" /\ UNCHANGED <<path, disk>>
    BY <1>12 DEF Park, Runs
  <2>2. s \notin disturbed => path[s]
    BY <2>1, Standing DEF PosOK
  <2>3. CASE CanMove(stage[s], "parked")
    <3>1. MoveTo(s, "parked") /\ Go(r, k, s, "none")
      BY <1>12, <2>3 DEF Park
    <3>2. Keeps
      BY <3>1, <2>1, <2>2, <1>1, <1>2, <1>3, Moved
    <3> QED BY <3>2, <2>1, <1>4, <1>5
  <2>4. CASE ~CanMove(stage[s], "parked")
    <3>1. parkFailure(r, k, s)
      BY <1>12, <2>4 DEF Park
    <3>2. Keeps
      BY <3>1, <2>1, <1>2, <1>3, ParkedFailure
    <3> QED BY <3>2, <2>1, <1>4, <1>5
  <2> QED BY <2>3, <2>4
<1> QED BY <1>6, <1>7, <1>8, <1>9, <1>10, <1>11, <1>12 DEF StepOn

(* Actions that leave the steps where they are. *)
LEMMA InPlace ==
  ASSUME IInv, UNCHANGED <<at, up, lease>>, disturbed \subseteq disturbed', NEW s \in Sessions,
         \A t \in Sessions : t # s => SameRow(t),
         s \notin disturbed' =>
           RowOK(s)' /\ \A q \in Runners, l \in Slots : PosOK(s, at[q][l][s])'
  PROVE  Leases' /\ Calm'
<1>1. Leases'
  BY DEF IInv, Leases, Busy
<1>2. ASSUME NEW t \in Sessions, t \notin disturbed'
      PROVE  Steady(t)'
  <2>1. Steady(t) /\ Kept(t) /\ Double(t)
    BY <1>2 DEF IInv, Calm, Kept, Double
  <2>2. CASE t # s
    BY <1>1, <2>1, <2>2, Elsewhere
  <2>3. CASE t = s
    <3>1. Alone(s)'
      BY <2>1, <2>3 DEF Steady, Alone
    <3> QED BY <3>1, <1>2, <2>3 DEF Steady
  <2> QED BY <2>2, <2>3
<1> QED BY <1>1, <1>2 DEF Calm

(* Actions that leave the rows and trees as they are. *)
LEMMA RowsStand ==
  ASSUME IInv, UNCHANGED <<rows, disk>>, disturbed \subseteq disturbed', Leases',
         \A t \in Sessions : Kept(t) /\ Double(t)
  PROVE  Calm'
<1>1. ASSUME NEW t \in Sessions, t \notin disturbed'
      PROVE  Steady(t)'
  <2>1. Steady(t) /\ SameRow(t)
    BY <1>1 DEF IInv, Calm, SameRow, rows, disk
  <2> QED BY <2>1, Elsewhere
<1> QED BY <1>1 DEF Calm

(* Nobody is at a session whose row says that nobody should be. *)
LEMMA Unattended ==
  ASSUME IInv, NEW s \in Sessions, s \notin disturbed, stage[s] \in {"failed", "parked", "shipped"}
  PROVE  \A q \in Runners, l \in Slots : at[q][l][s] = "none"
<1> SUFFICES ASSUME NEW q \in Runners, NEW l \in Slots, at[q][l][s] # "none"
             PROVE  FALSE
  OBVIOUS
<1>1. stage[s] = StageAt(at[q][l][s])
  BY Standing DEF PosOK
<1> QED BY <1>1 DEF StageAt

LEMMA EditKeeps ==
  ASSUME IInv, NEW r \in Runners, NEW k \in Slots, NEW s \in Sessions, Edit(r, k, s)
  PROVE  IInv'
<1>1. /\ at[r][k][s] = "loop" /\ tree[s] # "none" /\ work' = [work EXCEPT ![s] = TRUE]
      /\ UNCHANGED <<stage, path, tree, lease, up, phase, at, orphans, doomed, disturbed, mishaps>>
  BY DEF Edit, Runs, rows, ctl
<1>2. TypeOK
  BY DEF IInv
<1>3. \A t \in Sessions : t # s => SameRow(t)
  BY <1>1, <1>2 DEF SameRow, TypeOK
<1>4. s \notin disturbed' =>
        RowOK(s)' /\ \A q \in Runners, l \in Slots : PosOK(s, at[q][l][s])'
  <2> SUFFICES ASSUME s \notin disturbed
               PROVE  RowOK(s)' /\ \A q \in Runners, l \in Slots : PosOK(s, at[q][l][s])'
    BY <1>1
  <2>1. path[s]
    BY <1>1, Standing DEF PosOK
  <2>2. RowOK(s)'
    BY <1>1, <2>1, Standing DEF RowOK
  <2>3. ASSUME NEW q \in Runners, NEW l \in Slots
        PROVE  PosOK(s, at[q][l][s])'
    BY <1>1, Standing DEF PosOK
  <2> QED BY <2>2, <2>3
<1>5. Leases' /\ Calm'
  BY <1>1, <1>3, <1>4, InPlace
<1>6. TypeOK'
  BY <1>1, <1>2 DEF TypeOK
<1> QED BY <1>5, <1>6 DEF IInv

LEMMA FaultKeeps ==
  ASSUME IInv, NEW r \in Runners, NEW k \in Slots, NEW s \in Sessions, Fault(r, k, s)
  PROVE  IInv'
<1>1. /\ at[r][k][s] # "none" /\ mishaps < MaxMishaps /\ mishaps' = mishaps + 1
      /\ UNCHANGED <<path, disk, lease, up, orphans, doomed, disturbed>>
  BY DEF Fault, ctl
<1>2. TypeOK /\ "none" \in Positions /\ "running" \in Stages /\ "loop" \in Stages
  BY DEF IInv, Positions, Stages
<1> DEFINE Keeps == /\ at' \in AtTypes /\ Leases' /\ Calm'
                    /\ stage' \in [Sessions -> Stages] /\ phase' \in [Runners -> Phases]
<1>3. UNCHANGED stage /\ Throw(r, k, s) => Keeps
  BY <1>1, Thrown
<1>4. ASSUME NEW to \in Stages, MoveTo(s, to), Throw(r, k, s),
             <<at[r][k][s], to>> \in {<<"enter", "running">>, <<"start", "loop">>}
      PROVE  Keeps
  <2>1. stage' = [stage EXCEPT ![s] = to] /\ stage'[s] = to
    BY <1>2, <1>4 DEF MoveTo, TypeOK
  <2>2. \A t \in Sessions : t # s => SameRow(t)
    BY <1>1, <1>2, <2>1 DEF SameRow, TypeOK, disk
  <2>3. s \notin disturbed => RowOK(s)' /\ PosOK(s, "none")'
    <3>1. s \notin disturbed => RowOK(s) /\ (to = "loop" => path[s])
      BY <1>4, Standing DEF PosOK
    <3> QED BY <3>1, <2>1, <1>1, <1>4 DEF RowOK, PosOK, disk
  <2>4. at' \in AtTypes /\ Leases' /\ Calm'
    BY <1>1, <1>2, <1>4, <2>2, <2>3, StepKeeps
  <2>5. stage' \in [Sessions -> Stages]
    BY <2>1, <1>2, <1>4 DEF TypeOK
  <2>6. phase' \in [Runners -> Phases]
    BY <1>2, <1>4, StepPhase DEF Phases
  <2> QED BY <2>4, <2>5, <2>6
<1>5. parkFailure(r, k, s) => Keeps
  BY <1>1, ParkedFailure
<1>6. Keeps
  <2> HIDE DEF Keeps
  <2>1. CASE at[r][k][s] = "enter" /\ MoveTo(s, "running") /\ Throw(r, k, s)
    BY <2>1, <1>2, <1>4
  <2>2. CASE at[r][k][s] = "start" /\ MoveTo(s, "loop") /\ Throw(r, k, s)
    BY <2>2, <1>2, <1>4
  <2> QED BY <2>1, <2>2, <1>3, <1>5 DEF Fault
<1>7. TypeOK'
  <2>1. mishaps' \in 0..MaxMishaps
    BY <1>1, <1>2, RunnersAssumption DEF TypeOK
  <2> QED BY <2>1, <1>1, <1>2, <1>6 DEF TypeOK, AtTypes, Phases, disk
<1> QED BY <1>6, <1>7 DEF IInv

-----------------------------------------------------------------------------
(***************************************************************************)
(* The claim, the control plane's policies, and the rest of the world.     *)
(***************************************************************************)
(* A claim takes no session from a process that runs it. *)
LEMMA ClaimedIsFree ==
  ASSUME IInv, NEW r \in Runners, leaseClaim(r), NEW s \in Sessions
  PROVE  /\ lease' \in [Sessions -> [by : Runners \cup {"nobody", "gone"}, live : BOOLEAN]]
         /\ s \in Batch(r) => lease'[s].by = r /\ lease'[s].live
         /\ s \notin Batch(r) => lease'[s] = lease[s]
         /\ s \in Batch(r) => Due(s) /\ \A q \in Runners : Busy(q, s) => q = r
<1>1. lease \in [Sessions -> [by : Runners \cup {"nobody", "gone"}, live : BOOLEAN]]
  BY DEF IInv, TypeOK
<1>2. lease' = [t \in Sessions |->
                  IF t \in Batch(r) THEN [by |-> r, live |-> TRUE] ELSE lease[t]]
  BY DEF leaseClaim
<1>3. [by |-> r, live |-> TRUE] \in [by : Runners \cup {"nobody", "gone"}, live : BOOLEAN]
  OBVIOUS
<1>4. s \in Batch(r) => Due(s) /\ (lease[s].by \in {"nobody", r} \/ ~lease[s].live)
  BY DEF Batch, Claimable
<1>5. ASSUME s \in Batch(r), NEW q \in Runners, Busy(q, s)
      PROVE  q = r
  <2>1. lease[s].by = q /\ lease[s].live
    BY <1>5 DEF IInv, Leases
  <2>2. q # "nobody"
    BY RunnersAssumption
  <2> QED BY <1>4, <1>5, <2>1, <2>2
<1> QED BY <1>1, <1>2, <1>3, <1>4, <1>5

LEMMA ClaimKeeps ==
  ASSUME IInv, NEW r \in Runners, Claim(r)
  PROVE  IInv'
<1>1. /\ r \in up /\ leaseClaim(r) /\ disturbed' = disturbed \cup {s \in Batch(r) : Busy(r, s)}
      /\ UNCHANGED <<stage, path, tree, work, up, orphans, doomed, mishaps>>
  BY DEF Claim, ReadyToClaim, rows, disk
<1>2. TypeOK /\ Batch(r) \subseteq Sessions /\ Slots = {"tick", "left"}
  BY DEF IInv, Batch, Slots
<1> DEFINE claimed == [s \in Sessions |-> IF s \in Batch(r) THEN Begun(s) ELSE "none"]
<1>3. /\ at' \in AtTypes
      /\ \A q \in Runners, l \in Slots : q # r \/ l # "tick" => at'[q][l] = at[q][l]
      /\ at'[r]["tick"] = at[r]["tick"] \/ at'[r]["tick"] = claimed
      /\ phase' \in [Runners -> Phases]
  <2>1. at \in AtTypes /\ phase \in [Runners -> Phases]
    BY <1>2 DEF TypeOK, AtTypes, Phases
  <2>2. CASE Batch(r) = {}
    BY <2>1, <2>2 DEF Claim, Phases
  <2>3. CASE Batch(r) # {}
    <3>1. at' = [at EXCEPT ![r] = [at[r] EXCEPT !["tick"] = claimed]]
      BY <2>3 DEF Claim
    <3>2. claimed \in [Sessions -> Positions]
      BY DEF Begun, Positions
    <3> HIDE DEF claimed
    <3>3. [at[r] EXCEPT !["tick"] = claimed] \in [Slots -> [Sessions -> Positions]]
      BY <2>1, <3>2, <1>2 DEF AtTypes
    <3>4. at' \in AtTypes
      BY <2>1, <3>1, <3>3 DEF AtTypes
    <3>5. at'[r]["tick"] = claimed
      BY <2>1, <3>1, <1>2 DEF AtTypes
    <3>6. \A q \in Runners, l \in Slots : q # r \/ l # "tick" => at'[q][l] = at[q][l]
      BY <2>1, <3>1, <1>2 DEF AtTypes
    <3>7. phase' \in [Runners -> Phases]
      BY <2>1, <2>3 DEF Claim, Phases
    <3> QED BY <3>4, <3>5, <3>6, <3>7
  <2> QED BY <2>2, <2>3
<1>4. TypeOK'
  <2>1. lease' \in [Sessions -> [by : Runners \cup {"nobody", "gone"}, live : BOOLEAN]]
    <3>1. CASE Sessions = {}
      BY <3>1, <1>1 DEF leaseClaim
    <3>2. CASE Sessions # {}
      BY <3>2, <1>1, ClaimedIsFree
    <3> QED BY <3>1, <3>2
  <2>2. disturbed' \subseteq Sessions
    BY <1>1, <1>2 DEF TypeOK
  <2> QED BY <2>1, <2>2, <1>1, <1>2, <1>3 DEF TypeOK, AtTypes, Phases
<1>5. ASSUME NEW q \in Runners, NEW t \in Sessions, Busy(q, t)'
      PROVE  Busy(q, t) \/ (q = r /\ t \in Batch(r))
  <2>1. PICK l \in Slots : at'[q][l][t] # "none"
    BY <1>5 DEF Busy
  <2>2. CASE q # r \/ l # "tick"
    <3>1. at[q][l][t] # "none"
      BY <2>1, <2>2, <1>3
    <3> QED BY <2>1, <3>1 DEF Busy
  <2>3. CASE q = r /\ l = "tick"
    <3>1. CASE at'[r]["tick"] = at[r]["tick"]
      <4>1. at[q][l][t] # "none"
        BY <2>1, <2>3, <3>1
      <4> QED BY <2>1, <4>1 DEF Busy
    <3>2. CASE at'[r]["tick"] = claimed
      BY <2>1, <2>3, <3>2
    <3> QED BY <3>1, <3>2, <1>3
  <2> QED BY <2>2, <2>3
<1>6. Leases'
  <2> SUFFICES ASSUME NEW q \in Runners, NEW t \in Sessions, Busy(q, t)'
               PROVE  q \in up' /\ lease'[t].by = q /\ lease'[t].live
    BY DEF Leases
  <2>1. CASE q = r /\ t \in Batch(r)
    BY <2>1, <1>1, ClaimedIsFree
  <2>2. CASE Busy(q, t)
    <3>1. q \in up /\ lease[t].by = q /\ lease[t].live
      BY <2>2 DEF IInv, Leases
    <3> QED BY <2>2, <3>1, <1>1, ClaimedIsFree
  <2> QED BY <2>1, <2>2, <1>5
<1>7. ASSUME NEW t \in Sessions, t \notin disturbed'
      PROVE  Steady(t)'
  <2>1. Steady(t) /\ SameRow(t) /\ RowOK(t)'
    BY <1>1, <1>7 DEF IInv, Calm, Steady, SameRow, RowOK
  <2>2. CASE t \notin Batch(r)
    <3>1. Kept(t)
      BY <2>2, <1>3 DEF Kept
    <3>2. Double(t)
      BY <2>2, <1>2, <1>3 DEF Double
    <3> QED BY <2>1, <3>1, <3>2, <1>6, Elsewhere
  <2>3. CASE t \in Batch(r)
    <3>1. \A q \in Runners : ~Busy(q, t)
      BY <2>3, <1>1, <1>7, ClaimedIsFree
    <3>2. \A q \in Runners, l \in Slots :
            at'[q][l][t] # "none" => q = r /\ l = "tick" /\ at'[q][l][t] = Begun(t)
      BY <3>1, <2>3, <1>3 DEF Busy
    <3>3. PosOK(t, Begun(t))'
      <4>1. Due(t)
        BY <2>3, <1>1, ClaimedIsFree
      <4> QED BY <4>1, <2>1, <1>1 DEF Due, Begun, PosOK, StageAt, RowOK
    <3>4. \A q \in Runners, l \in Slots : PosOK(t, at[q][l][t])'
      <4>1. Begun(t)' = Begun(t)
        BY <1>1 DEF Begun
      <4> QED BY <3>2, <3>3, <4>1 DEF PosOK
    <3>5. Alone(t)'
      BY <3>2 DEF Alone
    <3> QED BY <2>1, <3>4, <3>5 DEF Steady
  <2> QED BY <2>2, <2>3
<1> QED BY <1>4, <1>6, <1>7 DEF IInv, Calm

LEMMA ClaimLostKeeps ==
  ASSUME IInv, NEW r \in Runners, ClaimLost(r)
  PROVE  IInv'
<1>1. /\ leaseClaim(r) /\ mishaps < MaxMishaps /\ mishaps' = mishaps + 1
      /\ UNCHANGED <<rows, disk, up, phase, at, ctl>>
  BY DEF ClaimLost
<1>2. TypeOK
  BY DEF IInv
<1>3. TypeOK'
  <2>1. lease' \in [Sessions -> [by : Runners \cup {"nobody", "gone"}, live : BOOLEAN]]
    <3>1. CASE Sessions = {}
      BY <3>1, <1>1 DEF leaseClaim
    <3>2. CASE Sessions # {}
      BY <3>2, <1>1, ClaimedIsFree
    <3> QED BY <3>1, <3>2
  <2>2. mishaps' \in 0..MaxMishaps
    BY <1>1, <1>2, RunnersAssumption DEF TypeOK
  <2> QED BY <2>1, <2>2, <1>1, <1>2 DEF TypeOK, rows, disk, ctl
<1>4. Leases'
  <2> SUFFICES ASSUME NEW q \in Runners, NEW t \in Sessions, Busy(q, t)'
               PROVE  q \in up' /\ lease'[t].by = q /\ lease'[t].live
    BY DEF Leases
  <2>1. Busy(q, t)
    BY <1>1 DEF Busy
  <2>2. q \in up /\ lease[t].by = q /\ lease[t].live
    BY <2>1 DEF IInv, Leases
  <2> QED BY <2>1, <2>2, <1>1, ClaimedIsFree
<1>5. Calm'
  BY <1>1, <1>4, RowsStand DEF Kept, Double, ctl
<1> QED BY <1>3, <1>4, <1>5 DEF IInv

(* With everything standing still but the lists, only the types are to show. *)
LEMMA OnlyLists ==
  ASSUME IInv, UNCHANGED <<rows, disk, lease, up, at, disturbed>>
  PROVE  Leases' /\ Calm'
<1>1. Leases'
  BY DEF IInv, Leases, Busy
<1> QED BY <1>1, RowsStand DEF Kept, Double

LEMMA ResetKeeps ==
  ASSUME IInv, NEW s \in Sessions, ResetOne(s)
  PROVE  IInv'
<1>1. /\ orphans[s] # "none" /\ UNCHANGED <<path, disk, lease, up, at, doomed, mishaps>>
  BY DEF ResetOne
<1>2. TypeOK /\ "failed" \in Stages /\ {"requested", "loop"} \subseteq Stages
  BY DEF IInv, Stages
<1>3. CASE CanMove(stage[s], "failed")
  <2>1. /\ orphans' = [orphans EXCEPT ![s] = "none"] /\ UNCHANGED phase
        /\ disturbed' = IF InUse(s) \/ Orphan(s) # orphans[s]
                        THEN disturbed \cup {s} ELSE disturbed
    BY <1>3 DEF ResetOne
  <2>2. PICK to \in {orphans[s], "failed"} : MoveTo(s, to)
    BY <1>3 DEF ResetOne
  <2>3. to \in Stages /\ stage' = [stage EXCEPT ![s] = to] /\ stage'[s] = to
    BY <2>2, <1>1, <1>2 DEF TypeOK, MoveTo
  <2>4. \A t \in Sessions : t # s => SameRow(t)
    BY <2>3, <1>1, <1>2 DEF SameRow, TypeOK, disk
  <2>5. s \notin disturbed' =>
          RowOK(s)' /\ \A q \in Runners, l \in Slots : PosOK(s, at[q][l][s])'
    <3> SUFFICES ASSUME s \notin disturbed'
                 PROVE  RowOK(s)' /\ \A q \in Runners, l \in Slots : PosOK(s, at[q][l][s])'
      OBVIOUS
    <3>1. s \notin disturbed /\ ~InUse(s) /\ Orphan(s) = orphans[s]
      BY <2>1
    <3>2. stage[s] = "running" /\ RowOK(s)
      BY <3>1, <1>1 DEF Orphan, IInv, Calm, Steady
    <3>3. to = "loop" => path[s]
      BY <3>1, <3>2, <2>2 DEF Orphan
    <3>4. to = "requested" => ~path[s]
      BY <3>1, <3>2, <2>2 DEF Orphan
    <3>5. to # "parked"
      BY <2>2, <1>2 DEF TypeOK
    <3>6. RowOK(s)'
      BY <3>2, <3>3, <3>4, <3>5, <2>3, <1>1 DEF RowOK, disk
    <3>7. \A q \in Runners, l \in Slots : at'[q][l][s] = "none"
      BY <3>1, <1>1 DEF InUse, Busy
    <3> QED BY <3>6, <3>7 DEF PosOK
  <2>6. Leases' /\ Calm'
    BY <2>1, <2>4, <2>5, <1>1, InPlace
  <2>7. TypeOK'
    BY <2>1, <2>3, <1>1, <1>2 DEF TypeOK, disk
  <2> QED BY <2>6, <2>7 DEF IInv
<1>4. CASE ~CanMove(stage[s], "failed")
  <2>1. /\ phase' = [phase EXCEPT ![Controller] = "idle"] /\ orphans' = Resting
        /\ UNCHANGED <<stage, disturbed>>
    BY <1>4 DEF ResetOne
  <2>2. Leases' /\ Calm'
    BY <2>1, <1>1, OnlyLists DEF rows
  <2>3. TypeOK'
    BY <2>1, <1>1, <1>2 DEF TypeOK, Resting, disk
  <2> QED BY <2>2, <2>3 DEF IInv
<1> QED BY <1>3, <1>4

LEMMA SweepOneKeeps ==
  ASSUME IInv, NEW s \in Sessions, SweepOne(s)
  PROVE  IInv'
<1>1. /\ doomed' = doomed \ {s}
      /\ disturbed' = IF Swept(s) THEN disturbed ELSE disturbed \cup {s}
      /\ tree' = [tree EXCEPT ![s] = "none"] /\ work' = [work EXCEPT ![s] = FALSE]
      /\ UNCHANGED <<stage, path, lease, up, phase, at, orphans, mishaps>>
  BY DEF SweepOne, rows
<1>2. TypeOK
  BY DEF IInv
<1>3. \A t \in Sessions : t # s => SameRow(t)
  BY <1>1, <1>2 DEF SameRow, TypeOK
<1>4. ~work'[s]
  BY <1>1, <1>2 DEF TypeOK
<1>5. s \notin disturbed' =>
        RowOK(s)' /\ \A q \in Runners, l \in Slots : PosOK(s, at[q][l][s])'
  <2> SUFFICES ASSUME s \notin disturbed'
               PROVE  RowOK(s)' /\ \A q \in Runners, l \in Slots : PosOK(s, at[q][l][s])'
    OBVIOUS
  <2>1. s \notin disturbed /\ tree[s] = "old"
    BY <1>1 DEF Swept
  <2>2. RowOK(s)'
    <3>1. RowOK(s)
      BY <2>1 DEF IInv, Calm, Steady
    <3> QED BY <3>1, <1>1, <1>4 DEF RowOK
  <2>3. ASSUME NEW q \in Runners, NEW l \in Slots
        PROVE  PosOK(s, at[q][l][s])'
    <3>1. PosOK(s, at[q][l][s])
      BY <2>1, Standing
    <3>2. ~(at[q][l][s] = "record" /\ ~SlowSetup)
      BY <3>1, <2>1 DEF PosOK
    <3> QED BY <3>1, <3>2, <1>1 DEF PosOK
  <2> QED BY <2>2, <2>3
<1>6. Leases' /\ Calm'
  BY <1>1, <1>3, <1>5, InPlace
<1>7. TypeOK'
  BY <1>1, <1>2 DEF TypeOK
<1> QED BY <1>6, <1>7 DEF IInv

LEMMA ListsKeep ==
  ASSUME IInv, TickStart \/ SweepStart \/ \E r \in Runners : TickEnd(r)
  PROVE  IInv'
<1>1. UNCHANGED <<rows, disk, lease, up, at, disturbed, mishaps>>
  BY DEF TickStart, SweepStart, TickEnd, ctl
<1>2. TypeOK'
  <2>1. TypeOK
    BY DEF IInv
  <2>2. CASE TickStart
    BY <1>1, <2>1, <2>2 DEF TickStart, TypeOK, Orphan, rows, disk
  <2>3. CASE SweepStart
    BY <1>1, <2>1, <2>3 DEF SweepStart, TypeOK, rows, disk
  <2>4. CASE \E r \in Runners : TickEnd(r)
    BY <1>1, <2>1, <2>4 DEF TickEnd, TypeOK, rows, disk, ctl
  <2> QED BY <2>2, <2>3, <2>4
<1>3. Leases' /\ Calm'
  BY <1>1, OnlyLists
<1> QED BY <1>2, <1>3 DEF IInv

LEMMA DieKeeps ==
  ASSUME IInv, NEW r \in Runners, Die(r)
  PROVE  IInv'
<1>1. /\ mishaps < MaxMishaps /\ mishaps' = mishaps + 1
      /\ up' = up \ {r} /\ phase' = [phase EXCEPT ![r] = "idle"]
      /\ at' = [at EXCEPT ![r] = [k \in Slots |-> Resting]]
      /\ orphans' = Resting \/ orphans' = orphans
      /\ doomed' = {} \/ doomed' = doomed
      /\ UNCHANGED <<stage, path, tree, work, lease, disturbed>>
  BY DEF Die, rows, disk
<1>2. TypeOK /\ at \in AtTypes /\ "none" \in Positions
  BY DEF IInv, TypeOK, AtTypes, Positions
<1>3. [k \in Slots |-> Resting] \in [Slots -> [Sessions -> Positions]]
  BY <1>2 DEF Resting
<1>4. /\ at' \in AtTypes
      /\ \A q \in Runners, l \in Slots, t \in Sessions :
           at'[q][l][t] = IF q = r THEN "none" ELSE at[q][l][t]
  <2>1. at' \in AtTypes
    BY <1>1, <1>2, <1>3 DEF AtTypes
  <2>2. \A q \in Runners : at'[q] = IF q = r THEN [k \in Slots |-> Resting] ELSE at[q]
    BY <1>1, <1>2 DEF AtTypes
  <2> QED BY <2>1, <2>2 DEF Resting
<1>5. TypeOK'
  <2>1. mishaps' \in 0..MaxMishaps
    BY <1>1, <1>2, RunnersAssumption DEF TypeOK
  <2>2. orphans' \in [Sessions -> {"none", "requested", "loop"}]
    BY <1>1, <1>2 DEF TypeOK, Resting
  <2> QED BY <2>1, <2>2, <1>1, <1>2, <1>4 DEF TypeOK, AtTypes
<1>6. Leases'
  <2>1. ASSUME NEW q \in Runners, NEW t \in Sessions, Busy(q, t)'
        PROVE  q # r /\ Busy(q, t)
    BY <2>1, <1>4 DEF Busy
  <2> QED BY <2>1, <1>1 DEF IInv, Leases
<1>7. \A t \in Sessions : Kept(t) /\ Double(t)
  <2>1. \A t \in Sessions : Kept(t)
    BY <1>4 DEF Kept
  <2>2. \A t \in Sessions : Double(t)
    BY <1>4 DEF Double, Slots
  <2> QED BY <2>1, <2>2
<1>8. Calm'
  BY <1>1, <1>6, <1>7, RowsStand DEF rows, disk
<1> QED BY <1>5, <1>6, <1>8 DEF IInv

LEMMA RestartKeeps ==
  ASSUME IInv, NEW r \in Runners, Restart(r)
  PROVE  IInv'
<1> DEFINE Gone == [s \in Sessions |->
                      IF lease[s].by = r THEN [lease[s] EXCEPT !.by = "gone"] ELSE lease[s]]
<1>1. /\ r \notin up /\ up' = up \cup {r} /\ lease' \in {lease, Gone}
      /\ UNCHANGED <<rows, disk, phase, at, ctl, mishaps>>
  BY DEF Restart
<1>2. TypeOK
  BY DEF IInv
<1>3. TypeOK'
  <2>1. Gone \in [Sessions -> [by : Runners \cup {"nobody", "gone"}, live : BOOLEAN]]
    BY <1>2 DEF TypeOK
  <2> HIDE DEF Gone
  <2> QED BY <2>1, <1>1, <1>2 DEF TypeOK, rows, disk, ctl
<1>4. Leases'
  <2> SUFFICES ASSUME NEW q \in Runners, NEW t \in Sessions, Busy(q, t)'
               PROVE  q \in up' /\ lease'[t].by = q /\ lease'[t].live
    BY DEF Leases
  <2>1. q \in up /\ lease[t].by = q /\ lease[t].live
    BY <1>1 DEF IInv, Leases, Busy
  <2>2. lease'[t] = lease[t]
    BY <2>1, <1>1
  <2> QED BY <2>1, <2>2, <1>1
<1>5. Calm'
  BY <1>1, <1>4, RowsStand DEF Kept, Double, ctl
<1> QED BY <1>3, <1>4, <1>5 DEF IInv

LEMMA ExpireKeeps ==
  ASSUME IInv, NEW s \in Sessions, Expire(s)
  PROVE  IInv'
<1>1. /\ \A r \in Runners : r = lease[s].by => ~Busy(r, s)
      /\ lease' = [lease EXCEPT ![s] = [lease[s] EXCEPT !.live = FALSE]]
      /\ UNCHANGED <<rows, disk, up, phase, at, ctl, mishaps>>
  BY DEF Expire
<1>2. TypeOK
  BY DEF IInv
<1>3. TypeOK'
  <2>1. [lease[s] EXCEPT !.live = FALSE]
          \in [by : Runners \cup {"nobody", "gone"}, live : BOOLEAN]
    BY <1>2 DEF TypeOK
  <2> QED BY <2>1, <1>1, <1>2 DEF TypeOK, rows, disk, ctl
<1>4. Leases'
  <2> SUFFICES ASSUME NEW q \in Runners, NEW t \in Sessions, Busy(q, t)'
               PROVE  q \in up' /\ lease'[t].by = q /\ lease'[t].live
    BY DEF Leases
  <2>1. Busy(q, t)
    BY <1>1 DEF Busy
  <2>2. q \in up /\ lease[t].by = q /\ lease[t].live
    BY <2>1 DEF IInv, Leases
  <2>3. t # s
    BY <2>1, <2>2, <1>1
  <2>4. lease'[t] = lease[t]
    BY <2>3, <1>1, <1>2 DEF TypeOK
  <2> QED BY <2>2, <2>4, <1>1
<1>5. Calm'
  BY <1>1, <1>4, RowsStand DEF Kept, Double, ctl
<1> QED BY <1>3, <1>4, <1>5 DEF IInv

(* What humans and time do to a session that no step is at. *)
LEMMA RestingKeeps ==
  ASSUME IInv, NEW s \in Sessions, Retry(s) \/ Answer(s) \/ Ship(s)
  PROVE  IInv'
<1>1. /\ stage[s] \in {"failed", "parked"}
      /\ UNCHANGED <<path, lease, up, phase, at, orphans, doomed, disturbed, mishaps>>
  BY DEF Retry, Answer, Ship, ctl
<1>2. TypeOK /\ {"loop", "requested", "shipped"} \subseteq Stages
  BY DEF IInv, Stages
<1>3. PICK to \in {"loop", "requested", "shipped"} :
        /\ stage' = [stage EXCEPT ![s] = to]
        /\ to = "requested" => ~path[s]
        /\ to = "loop" => path[s] \/ stage[s] = "parked"
  <2>1. CASE Retry(s)
    BY <2>1 DEF Retry, MoveTo
  <2>2. CASE Answer(s)
    BY <2>2 DEF Answer, MoveTo
  <2>3. CASE Ship(s)
    BY <2>3 DEF Ship, MoveTo
  <2> QED BY <2>1, <2>2, <2>3
<1>4. \/ UNCHANGED disk
      \/ tree' = [tree EXCEPT ![s] = "none"] /\ work' = [work EXCEPT ![s] = FALSE]
  BY DEF Retry, Answer, Ship
<1>5. \A t \in Sessions : t # s => SameRow(t)
  BY <1>1, <1>2, <1>3, <1>4 DEF SameRow, TypeOK, disk
<1>6. s \notin disturbed' =>
        RowOK(s)' /\ \A q \in Runners, l \in Slots : PosOK(s, at[q][l][s])'
  <2> SUFFICES ASSUME s \notin disturbed
               PROVE  RowOK(s)' /\ \A q \in Runners, l \in Slots : PosOK(s, at[q][l][s])'
    BY <1>1
  <2>1. \A q \in Runners, l \in Slots : at'[q][l][s] = "none"
    BY <1>1, Unattended
  <2>2. RowOK(s)
    BY DEF IInv, Calm, Steady
  <2>3. stage'[s] = to /\ (work'[s] => work[s])
    BY <1>2, <1>3, <1>4 DEF TypeOK, disk
  <2>4. RowOK(s)'
    BY <2>2, <2>3, <1>1, <1>3 DEF RowOK
  <2> QED BY <2>1, <2>4 DEF PosOK
<1>7. Leases' /\ Calm'
  BY <1>1, <1>5, <1>6, InPlace
<1>8. TypeOK'
  <2>1. stage' \in [Sessions -> Stages]
    BY <1>2, <1>3 DEF TypeOK
  <2> QED BY <2>1, <1>1, <1>2, <1>4 DEF TypeOK, disk
<1> QED BY <1>7, <1>8 DEF IInv

LEMMA AgeKeeps ==
  ASSUME IInv, NEW s \in Sessions, Age(s)
  PROVE  IInv'
<1>1. /\ SlowSetup \/ \A r \in Runners, k \in Slots : at[r][k][s] # "record"
      /\ tree[s] = "young" /\ tree' = [tree EXCEPT ![s] = "old"]
      /\ UNCHANGED <<stage, path, work, lease, up, phase, at, orphans, doomed, disturbed, mishaps>>
  BY DEF Age, rows, ctl
<1>2. TypeOK
  BY DEF IInv
<1>3. \A t \in Sessions : t # s => SameRow(t)
  BY <1>1, <1>2 DEF SameRow, TypeOK
<1>4. s \notin disturbed' =>
        RowOK(s)' /\ \A q \in Runners, l \in Slots : PosOK(s, at[q][l][s])'
  BY <1>1, Standing DEF RowOK, PosOK, IInv, Calm, Steady
<1>5. Leases' /\ Calm'
  BY <1>1, <1>3, <1>4, InPlace
<1>6. TypeOK'
  BY <1>1, <1>2 DEF TypeOK
<1> QED BY <1>5, <1>6 DEF IInv

-----------------------------------------------------------------------------
(***************************************************************************)
(* The theorems.                                                           *)
(***************************************************************************)
LEMMA InitInv == Init => IInv
<1> SUFFICES ASSUME Init PROVE IInv
  OBVIOUS
<1>1. TypeOK
  BY RunnersAssumption DEF Init, TypeOK, Stages, Positions, Resting
<1>2. \A r \in Runners, k \in Slots, s \in Sessions : at[r][k][s] = "none"
  BY DEF Init
<1>3. Leases
  BY <1>2 DEF Leases, Busy
<1>4. Calm
  <2>1. \A s \in Sessions : RowOK(s)
    BY DEF Init, RowOK
  <2> QED BY <1>2, <2>1 DEF Calm, Steady, Alone, PosOK
<1> QED BY <1>1, <1>3, <1>4 DEF IInv

LEMMA StepInv == IInv /\ [Next]_vars => IInv'
<1> SUFFICES ASSUME IInv, [Next]_vars PROVE IInv'
  OBVIOUS
<1>1. CASE Policies
  BY <1>1, ListsKeep, ResetKeeps, SweepOneKeeps DEF Policies
<1>2. ASSUME NEW r \in Runners, Claim(r) \/ ClaimLost(r) \/ TickEnd(r) \/ Die(r) \/ Restart(r)
      PROVE  IInv'
  BY <1>2, ClaimKeeps, ClaimLostKeeps, ListsKeep, DieKeeps, RestartKeeps
<1>3. ASSUME NEW r \in Runners, NEW k \in Slots, NEW s \in Sessions,
             StepOn(r, k, s) \/ Edit(r, k, s) \/ Fault(r, k, s)
      PROVE  IInv'
  BY <1>3, StepOnKeeps, EditKeeps, FaultKeeps
<1>4. ASSUME NEW s \in Sessions, Retry(s) \/ Answer(s) \/ Ship(s) \/ Age(s) \/ Expire(s)
      PROVE  IInv'
  BY <1>4, RestingKeeps, AgeKeeps, ExpireKeeps
<1>5. CASE UNCHANGED vars
  <2>1. UNCHANGED <<rows, disk, lease, up, phase, at, ctl, mishaps>>
    BY <1>5 DEF vars
  <2>2. TypeOK'
    BY <2>1 DEF IInv, TypeOK, rows, disk, ctl
  <2>3. Leases' /\ Calm'
    BY <2>1, OnlyLists DEF ctl
  <2> QED BY <2>2, <2>3 DEF IInv
<1> QED BY <1>1, <1>2, <1>3, <1>4, <1>5 DEF Next

THEOREM Invariant == Spec => []IInv
BY InitInv, StepInv, PTL DEF Spec

(***************************************************************************)
(* The rows, leases, trees and steps keep their types.                     *)
(***************************************************************************)
THEOREM TypeCorrect == Spec => []TypeOK
<1>1. IInv => TypeOK
  BY DEF IInv
<1> QED BY <1>1, Invariant, PTL

(***************************************************************************)
(* "Nothing is ever double-claimed": no session is run by two processes,   *)
(* for any number of runners, sessions, deaths, restarts and lost calls.   *)
(***************************************************************************)
THEOREM OneRunnerHolds == Spec => []OneRunner
<1>1. IInv => OneRunner
  <2> SUFFICES ASSUME IInv, NEW s \in Sessions
               PROVE  Cardinality({r \in Runners : Busy(r, s)}) <= 1
    BY DEF OneRunner
  <2> DEFINE S == {r \in Runners : Busy(r, s)}
  <2>1. \A q, u \in S : q = u
    BY DEF IInv, Leases
  <2>2. CASE S = {}
    BY <2>2, FS_EmptySet
  <2>3. CASE S # {}
    <3>1. PICK q \in S : TRUE
      BY <2>3
    <3>2. S = {q}
      BY <2>1, <3>1
    <3>3. Cardinality({q}) = 1
      BY FS_Singleton
    <3> QED BY <3>2, <3>3
  <2> QED BY <2>2, <2>3
<1> QED BY <1>1, Invariant, PTL

(* The actions that change what is on the disk. *)
LEMMA DiskChanges ==
  ASSUME [Next]_vars
  PROVE  \/ UNCHANGED work
         \/ \E r \in Runners, k \in Slots, s \in Sessions : CreateTree(r, k, s) \/ Edit(r, k, s)
         \/ \E s \in Sessions : SweepOne(s) \/ Ship(s)
<1>1. CASE UNCHANGED vars
  BY <1>1 DEF vars, disk
<1>2. CASE Next
  BY <1>2 DEF Next, Policies, TickStart, SweepStart, ResetOne, Claim, ClaimLost, TickEnd, Die,
              Restart, StepOn, Enter, Record, Start, Fail, Pause, Park, Fault, Retry, Answer,
              Age, Expire, disk
<1> QED BY <1>1, <1>2

(***************************************************************************)
(* Edits are lost with a shipped session, or to the control plane or a     *)
(* second step that took the session from the step using it: never to the  *)
(* setup of a retry, and never to the sweep alone.                         *)
(***************************************************************************)
THEOREM WorkKept == Spec => WorkIsKept
<1>1. IInv /\ [Next]_vars =>
        [\A s \in Sessions :
           work[s] /\ ~work'[s] => stage'[s] = "shipped" \/ s \in disturbed']_vars
  <2> SUFFICES ASSUME IInv, [Next]_vars, NEW t \in Sessions, work[t], ~work'[t], t \notin disturbed'
               PROVE  stage'[t] = "shipped"
    OBVIOUS
  <2>1. TypeOK
    BY DEF IInv
  <2>2. ASSUME NEW r \in Runners, NEW k \in Slots, NEW s \in Sessions, CreateTree(r, k, s)
        PROVE  FALSE
    <3>1. at[r][k][s] = "setup" /\ work' = [work EXCEPT ![s] = FALSE] /\ disturbed' = disturbed
      BY <2>2 DEF CreateTree, Runs, ctl
    <3>2. t = s
      BY <3>1, <2>1 DEF TypeOK
    <3> QED BY <3>1, <3>2, Standing DEF PosOK, RowOK
  <2>3. ASSUME NEW r \in Runners, NEW k \in Slots, NEW s \in Sessions, Edit(r, k, s)
        PROVE  FALSE
    BY <2>1, <2>3 DEF Edit, TypeOK
  <2>4. ASSUME NEW s \in Sessions, SweepOne(s)
        PROVE  stage'[t] = "shipped"
    <3>1. /\ work' = [work EXCEPT ![s] = FALSE] /\ UNCHANGED stage
          /\ disturbed' = IF Swept(s) THEN disturbed ELSE disturbed \cup {s}
      BY <2>4 DEF SweepOne, rows
    <3>2. t = s
      BY <3>1, <2>1 DEF TypeOK
    <3>3. Swept(t) /\ t \notin disturbed
      BY <3>1, <3>2
    <3>4. path[t]
      BY <3>3 DEF IInv, Calm, Steady, RowOK
    <3> QED BY <3>1, <3>3, <3>4 DEF Swept
  <2>5. ASSUME NEW s \in Sessions, Ship(s)
        PROVE  stage'[t] = "shipped"
    <3>1. t = s
      BY <2>1, <2>5 DEF Ship, TypeOK, disk
    <3> QED BY <3>1, <2>1, <2>5 DEF Ship, MoveTo, TypeOK
  <2> QED BY <2>2, <2>3, <2>4, <2>5, DiskChanges
<1> QED BY <1>1, Invariant, PTL DEF Spec, WorkIsKept

(***************************************************************************)
(* When a setup ends within the hour of the sweep's age guard, the sweep   *)
(* takes no tree from a setup that is under way.                           *)
(***************************************************************************)
THEOREM SetupSpared ==
  ASSUME SlowSetup = FALSE
  PROVE  Spec => SetupIsSpared
<1>1. IInv' =>
        [\A r \in Runners, k \in Slots, s \in Sessions :
           at[r][k][s] = "record" /\ at'[r][k][s] = "record" =>
             tree'[s] # "none" \/ s \in disturbed']_vars
  <2> SUFFICES ASSUME IInv', NEW r \in Runners, NEW k \in Slots, NEW s \in Sessions,
                      at'[r][k][s] = "record", s \notin disturbed'
               PROVE  tree'[s] # "none"
    OBVIOUS
  <2>1. PosOK(s, at[r][k][s])'
    BY DEF IInv, Calm, Steady
  <2> QED BY <2>1 DEF PosOK
<1> QED BY <1>1, Invariant, PTL DEF SetupIsSpared
=============================================================================

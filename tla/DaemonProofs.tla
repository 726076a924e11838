---------------------------- MODULE DaemonProofs ----------------------------
(***************************************************************************)
(* What keeps the daemon alone, connected and alive: the tick lock, the    *)
(* Slack connection and the watchdog, for any number of processes,         *)
(* connections, crashes and faults, and any thresholds.                    *)
(***************************************************************************)
EXTENDS TickLock, SlackSocket, Watchdog, FiniteSetTheorems, TLAPS

(***************************************************************************)
(* THE TICK LOCK                                                           *)
(* The processes that created the claim and have not dropped it.           *)
(***************************************************************************)
Claiming == {p \in Procs : pc[p] \in {"claimTorn", "replace", "unclaim"}}

(***************************************************************************)
(* Until a claim is evicted it is there as long as somebody is claiming,   *)
(* which keeps everybody else out.                                         *)
(***************************************************************************)
Exclusive ==
  ~evicted => /\ \A p, q \in Claiming : p = q
              /\ claim = Absent => Claiming = {}
              /\ \A p \in Procs : pc[p] # "recreate"

LockInv == TypeOK /\ Exclusive /\ ClaimHasOwner

\* nobody is claiming at the start
LEMMA LockInitInv == Init => LockInv
  BY TickLockAssumption
     DEF TickLockAssumption, Init, LockInv, TypeOK, Exclusive, ClaimHasOwner, Claiming,
         Points, File

\* each step keeps the values in their types
LEMMA LockTypeStep == ASSUME TypeOK, [Next]_vars PROVE TypeOK'
<1> USE TickLockAssumption DEF TickLockAssumption, TypeOK, Goto, Points, File
<1>1. ASSUME NEW p \in Procs, CreateLock(p) \/ StampLock(p) \/ CreateFails(p) \/ Judge(p)
      PROVE  TypeOK'
  BY <1>1 DEF CreateLock, StampLock, CreateFails, Judge
<1>2. ASSUME NEW p \in Procs,
             CreateClaim(p) \/ StampClaim(p) \/ JudgeClaim(p) \/ UnlinkClaim(p)
      PROVE  TypeOK'
  BY <1>2 DEF CreateClaim, StampClaim, JudgeClaim, UnlinkClaim
<1>3. ASSUME NEW p \in Procs, RecreateClaim(p) \/ ReplaceLock(p) \/ DropClaim(p)
      PROVE  TypeOK'
  BY <1>3 DEF RecreateClaim, ReplaceLock, DropClaim
<1>4. ASSUME NEW p \in Procs, ReadOwn(p) \/ UnlinkLock(p) PROVE TypeOK'
  BY <1>4 DEF ReadOwn, UnlinkLock
<1>5. ASSUME NEW p \in Procs, Overrun(p) \/ Crash(p) PROVE TypeOK'
  BY <1>5 DEF Overrun, Crash
<1>6. CASE UNCHANGED vars
  BY <1>6 DEF vars
<1> QED BY <1>1, <1>2, <1>3, <1>4, <1>5, <1>6 DEF Next, Acquire, Release

\* a step that touches neither the claim nor anyone who is claiming keeps both parts
LEMMA ClaimStep ==
  ASSUME LockInv, [Next]_vars
  PROVE  Exclusive' /\ ClaimHasOwner'
<1> USE TickLockAssumption
    DEF TickLockAssumption, LockInv, TypeOK, Exclusive, ClaimHasOwner, Claiming, TakingOver,
        Goto, Points, File, Dead
<1>1. ASSUME NEW p \in Procs, CreateLock(p) \/ StampLock(p) \/ CreateFails(p) \/ Judge(p)
      PROVE  Exclusive' /\ ClaimHasOwner'
  BY <1>1 DEF CreateLock, StampLock, CreateFails, Judge
<1>2. ASSUME NEW p \in Procs, CreateClaim(p) PROVE Exclusive' /\ ClaimHasOwner'
  BY <1>2 DEF CreateClaim
<1>3. ASSUME NEW p \in Procs, StampClaim(p) PROVE Exclusive' /\ ClaimHasOwner'
  BY <1>3 DEF StampClaim
<1>4. ASSUME NEW p \in Procs, JudgeClaim(p) PROVE Exclusive' /\ ClaimHasOwner'
  BY <1>4 DEF JudgeClaim
<1>5. ASSUME NEW p \in Procs, UnlinkClaim(p) PROVE Exclusive' /\ ClaimHasOwner'
  BY <1>5 DEF UnlinkClaim
<1>6. ASSUME NEW p \in Procs, RecreateClaim(p) PROVE Exclusive' /\ ClaimHasOwner'
  BY <1>6 DEF RecreateClaim
<1>7. ASSUME NEW p \in Procs, ReplaceLock(p) PROVE Exclusive' /\ ClaimHasOwner'
  BY <1>7 DEF ReplaceLock
<1>8. ASSUME NEW p \in Procs, DropClaim(p) PROVE Exclusive' /\ ClaimHasOwner'
  BY <1>8 DEF DropClaim
<1>9. ASSUME NEW p \in Procs, ReadOwn(p) PROVE Exclusive' /\ ClaimHasOwner'
  BY <1>9 DEF ReadOwn
<1>10. ASSUME NEW p \in Procs, UnlinkLock(p) PROVE Exclusive' /\ ClaimHasOwner'
  BY <1>10 DEF UnlinkLock
<1>11. ASSUME NEW p \in Procs, Overrun(p) PROVE Exclusive' /\ ClaimHasOwner'
  BY <1>11 DEF Overrun
<1>12. ASSUME NEW p \in Procs, Crash(p) PROVE Exclusive' /\ ClaimHasOwner'
  BY <1>12 DEF Crash
<1>13. CASE UNCHANGED vars
  BY <1>13 DEF vars
<1> QED BY <1>1, <1>2, <1>3, <1>4, <1>5, <1>6, <1>7, <1>8, <1>9, <1>10, <1>11, <1>12, <1>13
        DEF Next, Acquire, Release

\* the invariant the other theorems follow from
THEOREM LockInvariant == Spec => []LockInv
<1>1. LockInv /\ [Next]_vars => LockInv'
  BY LockTypeStep, ClaimStep DEF LockInv
<1> QED BY <1>1, LockInitInv, PTL DEF Spec

(***************************************************************************)
(* The lock, the claim and the processes keep their types.                 *)
(***************************************************************************)
THEOREM LockTypeCorrect == Spec => []TypeOK
<1>1. LockInv => TypeOK
  BY DEF LockInv
<1> QED BY <1>1, LockInvariant, PTL

(***************************************************************************)
(* "Only the process that wins the claim may replace the lock": however    *)
(* many processes find a stale lock, one at a time takes it over, until a  *)
(* claim is evicted as the residue of a crash.                             *)
(***************************************************************************)
THEOREM TakeoverIsExclusive == Spec => []OneTakeoverAtATime
<1>1. LockInv => OneTakeoverAtATime
  BY DEF LockInv, Exclusive, OneTakeoverAtATime, Claiming, TakingOver
<1> QED BY <1>1, LockInvariant, PTL

(***************************************************************************)
(* A claim is never left behind by a process that lives.                   *)
(***************************************************************************)
THEOREM ClaimsAreOwned == Spec => []ClaimHasOwner
<1>1. LockInv => ClaimHasOwner
  BY DEF LockInv
<1> QED BY <1>1, LockInvariant, PTL

(***************************************************************************)
(* The claim guards the takeover, for any number of processes, crashes and *)
(* overruns.                                                               *)
(***************************************************************************)
THEOREM ClaimGuards == Spec => []ClaimGuardsTakeover
BY TakeoverIsExclusive, ClaimsAreOwned, PTL DEF ClaimGuardsTakeover

-----------------------------------------------------------------------------

(***************************************************************************)
(* THE SOCKET                                                              *)
(* The connections a first connect() is still making.                      *)
(***************************************************************************)
Young == {c \in Conns : conn[c].first /\ conn[c].at \in {"url", "connecting"}}

\* only a connection that was up is replaced, and it stays marked until it is gone
Replaced ==
  /\ \A c \in Conns : conn[c].superseded => conn[c].at \in {"open", "errored"}
  /\ \A c \in Conns : conn[c].at = "free" => conn[c] = Nobody
  /\ ~closed => \A c \in Conns : (replaces[c] # NoConn => conn[replaces[c]].superseded)

\* there is one first connection, it is alone while it asks for its URL, and
\* a connect() that was rejected has left nothing behind
FirstOnly ==
  /\ \A c \in Conns : (conn[c].first /\ conn[c].at = "url")
       => (sleeping = 0 /\ \A d \in Conns \ {c} : conn[d].at = "free")
  /\ \A c, d \in Young : c = d
  /\ (Young # {} /\ ~closed) => promise = "waiting"
  /\ promise \in {"none", "rejected"} => (sleeping = 0 /\ \A c \in Conns : conn[c] = Nobody)

\* OneHeir without its count
OneChain ==
  Wanted => \/ sleeping = 0 /\ \E c \in Conns : Heirs = {c}
            \/ sleeping = 1 /\ Heirs = {}

SockInv == SockTypeOK /\ Replaced /\ FirstOnly /\ OneChain /\ AllClosed /\ sleeping <= 1

\* there is room for one backoff when there is room for one connection
LEMMA RoomForOne == ASSUME NEW c \in Conns PROVE 1 \in 0..Cardinality(Conns)
<1>1. Cardinality(Conns) \in Nat
  BY SlackSocketAssumption, FS_CardinalityType DEF SlackSocketAssumption
<1>2. Cardinality(Conns) # 0
  BY SlackSocketAssumption, FS_EmptySet DEF SlackSocketAssumption
<1> QED BY <1>1, <1>2

\* nothing is made, and nothing waits, before connect()
LEMMA SockInitInv == SockInit => SockInv
<1>1. Cardinality(Conns) \in Nat
  BY SlackSocketAssumption, FS_CardinalityType DEF SlackSocketAssumption
<1> SUFFICES ASSUME SockInit PROVE SockInv
  OBVIOUS
<1> USE DEF SockInit, Nobody
<1>2. SockTypeOK
  <2>1. 0 \in 0..Cardinality(Conns) BY <1>1
  <2>2. conn \in [Conns -> [at : Phases, superseded : BOOLEAN, first : BOOLEAN]]
    BY DEF Phases
  <2>3. replaces \in [Conns -> Conns \cup {NoConn}] OBVIOUS
  <2> QED BY <2>1, <2>2, <2>3 DEF SockTypeOK
<1>3. Replaced BY DEF Replaced
<1>4. FirstOnly BY DEF FirstOnly, Young
<1>5. OneChain BY DEF OneChain, Wanted
<1>6. AllClosed BY DEF AllClosed
<1> QED BY <1>2, <1>3, <1>4, <1>5, <1>6 DEF SockInv

\* a connection that nobody has replaced reconnects once, whatever ends it
LEMMA Reconnecting ==
  ASSUME SockInv, NEW c \in Conns, c \in Live, Settle(c)
  PROVE  /\ sleeping' \in 0..Cardinality(Conns) /\ wsConnected' \in BOOLEAN
         /\ c \in Heirs => (sleeping' = sleeping + 1)
         /\ c \notin Heirs => (sleeping' = sleeping)
         /\ ~closed /\ Wanted
         /\ sleeping' <= 1
<1> USE DEF SockInv, SockTypeOK, Live, Heirs
<1>1. ~closed /\ Wanted
  BY DEF AllClosed, FirstOnly, Nobody, Wanted
<1>2. c \in Heirs => (sleeping = 0)
  BY <1>1 DEF OneChain
<1>3. c \in Heirs => (sleeping' = sleeping + 1)
  BY DEF Settle
<1>4. c \notin Heirs => (sleeping' = sleeping)
  BY DEF Settle
<1>5. wsConnected' \in BOOLEAN
  BY DEF Settle
<1> QED BY <1>1, <1>2, <1>3, <1>4, <1>5, RoomForOne

\* each step keeps the invariant
LEMMA SockStep == ASSUME SockInv, [SockNext]_sockVars PROVE SockInv'
<1> USE SlackSocketAssumption DEF SlackSocketAssumption, SockInv, SockTypeOK, Phases
<1> DEFINE Goal == SockInv'
<1>1. ASSUME NEW c \in Conns, Connect(c) PROVE Goal
  <2> USE <1>1 DEF Connect, Asking, Nobody, Free
  <2>1. SockTypeOK' OBVIOUS
  <2>2. Replaced'
    <3>1. \A d \in Conns : replaces[d] = NoConn BY DEF Replaced, FirstOnly
    <3>2. \A d \in Conns : d # c => conn'[d] = conn[d] OBVIOUS
    <3>3. conn'[c] = [at |-> "url", superseded |-> FALSE, first |-> TRUE] OBVIOUS
    <3> QED BY <3>1, <3>2, <3>3 DEF Replaced
  <2>3. FirstOnly' BY DEF FirstOnly, Young
  <2>4. OneChain'
    <3>1. Heirs' = {c} BY DEF FirstOnly, Heirs
    <3> QED BY <3>1 DEF FirstOnly, OneChain
  <2>5. AllClosed' BY DEF AllClosed, Live
  <2> QED BY <2>1, <2>2, <2>3, <2>4, <2>5
<1>2. ASSUME NEW c \in Conns, UrlComes(c) PROVE Goal
  <2> USE <1>2 DEF UrlComes, Resolved, Nobody
  <2>0. /\ \A d \in Conns : d # c => conn'[d] = conn[d]
        /\ closed => conn'[c] = Nobody
        /\ ~closed => conn'[c] = [conn[c] EXCEPT !.at = "connecting"]
        /\ UNCHANGED replaces
    OBVIOUS
  <2>1. SockTypeOK'
    <3>1. promise' \in {"none", "waiting", "resolved", "rejected"} OBVIOUS
    <3>2. Nobody \in [at : Phases, superseded : BOOLEAN, first : BOOLEAN] OBVIOUS
    <3>3. [conn[c] EXCEPT !.at = "connecting"] \in [at : Phases, superseded : BOOLEAN, first : BOOLEAN]
      OBVIOUS
    <3>4. conn' \in [Conns -> [at : Phases, superseded : BOOLEAN, first : BOOLEAN]]
      BY <3>2, <3>3
    <3> QED BY <3>1, <3>4
  <2>2. Replaced'
    <3>1. \A d \in Conns : conn'[d].superseded = conn[d].superseded \/ d = c BY <2>0
    <3>2. ~conn[c].superseded BY DEF Replaced
    <3>3. ~conn'[c].superseded BY <2>0, <3>2
    <3>4. conn'[c].at = "free" => conn'[c] = Nobody BY <2>0
    <3>5. ~closed => \A d \in Conns : replaces[d] # NoConn => replaces[d] # c
      BY <3>2 DEF Replaced
    <3>6. \A d \in Conns : conn'[d].superseded => conn'[d].at \in {"open", "errored"}
      BY <2>0, <3>3 DEF Replaced
    <3>7. \A d \in Conns : conn'[d].at = "free" => conn'[d] = Nobody
      BY <2>0, <3>4 DEF Replaced
    <3>8. ~closed => \A d \in Conns : replaces[d] # NoConn => conn'[replaces[d]].superseded
      BY <2>0, <3>5 DEF Replaced
    <3> QED BY <2>0, <3>6, <3>7, <3>8 DEF Replaced
  <2>3. FirstOnly' BY DEF FirstOnly, Young
  <2>4. OneChain'
    <3>1. ~closed => Heirs' = Heirs BY DEF Heirs
    <3> QED BY <3>1 DEF OneChain, Wanted
  <2>5. AllClosed' BY DEF AllClosed, Live
  <2> QED BY <2>1, <2>2, <2>3, <2>4, <2>5
<1>3. ASSUME NEW c \in Conns, UrlFails(c) PROVE Goal
  <2> USE <1>3 DEF UrlFails, Resolved, Nobody
  <2>0. ~closed /\ ~conn[c].first => /\ sleeping = 0 /\ sleeping' = 1 /\ Wanted
                                     /\ Heirs = {c} /\ Heirs' = {}
    <3>1. ASSUME ~closed, ~conn[c].first PROVE Wanted BY <3>1 DEF Wanted, FirstOnly
    <3>2. c \in Heirs BY DEF Heirs, Replaced
    <3>3. ASSUME ~closed, ~conn[c].first PROVE sleeping = 0 /\ Heirs = {c}
      BY <3>1, <3>2, <3>3 DEF OneChain
    <3>4. Heirs' = Heirs \ {c} BY DEF Heirs
    <3> QED BY <3>1, <3>3, <3>4
  <2>1. SockTypeOK'
    <3>1. sleeping' \in 0..Cardinality(Conns) BY <2>0, RoomForOne
    <3> QED BY <3>1
  <2>2. Replaced' BY DEF Replaced
  <2>3. FirstOnly'
    <3>1. \A d \in Conns : conn'[d].first /\ conn'[d].at = "url" => d # c /\ conn[d] = conn'[d]
      OBVIOUS
    <3>2. conn[c].first => \A d \in Conns : conn'[d] = Nobody
      BY DEF FirstOnly, Replaced
    <3>3. \A d \in Young' : d \in Young BY DEF Young
    <3>4. ~conn[c].first => \A d \in Conns : ~(conn[d].first /\ conn[d].at = "url")
      BY DEF FirstOnly
    <3> QED BY <2>0, <3>1, <3>2, <3>3, <3>4 DEF FirstOnly, Young
  <2>4. OneChain'
    <3>1. conn[c].first /\ ~closed => ~Wanted' BY DEF Wanted
    <3> QED BY <2>0, <3>1 DEF OneChain, Wanted
  <2>5. AllClosed' BY DEF AllClosed, Live
  <2>6. (sleeping <= 1)' BY <2>0
  <2> QED BY <2>1, <2>2, <2>3, <2>4, <2>5, <2>6
<1>4. ASSUME NEW c \in Conns, Opened(c) PROVE Goal
  <2> USE <1>4 DEF Opened, Resolved, Nobody
  <2>0. ~closed BY DEF AllClosed, Live
  <2>1. ~conn[c].superseded /\ replaces[c] # c BY <2>0 DEF Replaced
  <2>2. /\ conn'[c] = [conn[c] EXCEPT !.at = "open"]
        /\ \A d \in Conns : d # c /\ d = replaces[c] => conn'[d] = Nobody
        /\ \A d \in Conns : d # c /\ d # replaces[c] => conn'[d] = conn[d]
    BY <2>1
  <2>3. SockTypeOK'
    <3>1. conn' \in [Conns -> [at : Phases, superseded : BOOLEAN, first : BOOLEAN]]
      BY <2>1
    <3> QED BY <3>1
  <2>4. Replaced'
    <3>1. \A d \in Conns : replaces'[d] # NoConn
            => /\ replaces'[d] = replaces[d] /\ replaces[d] # c /\ replaces[d] # replaces[c]
               /\ replaces[d] \in Conns
      OBVIOUS
    <3>2. \A d \in Conns : replaces'[d] # NoConn => conn'[replaces'[d]].superseded
      BY <2>0, <2>2, <3>1 DEF Replaced
    <3>0. conn[c] \in [at : Phases, superseded : BOOLEAN, first : BOOLEAN] OBVIOUS
    <3>3. conn'[c].at = "open" /\ conn'[c].superseded = conn[c].superseded BY <2>2, <3>0
    <3>4. \A d \in Conns : conn'[d].superseded => conn'[d].at \in {"open", "errored"}
      BY <2>2, <3>3 DEF Replaced
    <3>5. \A d \in Conns : conn'[d].at = "free" => conn'[d] = Nobody
      BY <2>2, <3>3 DEF Replaced
    <3> QED BY <3>2, <3>4, <3>5 DEF Replaced
  <2>5. FirstOnly'
    <3>1. \A d \in Conns : conn'[d].first /\ conn'[d].at = "url"
            => conn'[d] = conn[d] /\ d # c
      BY <2>2
    <3>2. \A d \in Conns : ~(conn'[d].first /\ conn'[d].at = "url")
      BY <3>1 DEF FirstOnly
    <3>3. \A d \in Young' : d \in Young /\ d # c BY <2>2 DEF Young
    <3>4. conn[c].first => Young' = {} BY <3>3 DEF FirstOnly, Young
    <3>5. promise \notin {"none", "rejected"} BY DEF FirstOnly
    <3> QED BY <3>2, <3>3, <3>4, <3>5 DEF FirstOnly
  <2>6. OneChain'
    <3>1. Heirs' = Heirs BY <2>0, <2>1, <2>2 DEF Heirs, Replaced
    <3>2. Wanted BY <2>0 DEF FirstOnly, Wanted
    <3> QED BY <3>1, <3>2 DEF OneChain
  <2>7. AllClosed' BY <2>0 DEF AllClosed
  <2> QED BY <2>3, <2>4, <2>5, <2>6, <2>7
<1>5. ASSUME NEW c \in Conns, Error(c) PROVE Goal
  <2> USE <1>5 DEF Error
  <2>0. c \in Live BY DEF Live
  <2>1. /\ sleeping' \in 0..Cardinality(Conns) /\ wsConnected' \in BOOLEAN
        /\ c \in Heirs => (sleeping' = sleeping + 1)
        /\ c \notin Heirs => (sleeping' = sleeping)
        /\ ~closed /\ Wanted
        /\ sleeping' <= 1
    BY <2>0, Reconnecting
  <2>2. SockTypeOK' BY <2>1
  <2>3. Replaced' BY DEF Replaced, Nobody
  <2>4. FirstOnly'
    <3>1. \A d \in Young' : d \in Young /\ d # c BY DEF Young
    <3>2. \A d \in Conns : ~(conn'[d].first /\ conn'[d].at = "url")
      BY DEF FirstOnly
    <3> QED BY <2>1, <3>1, <3>2 DEF FirstOnly, Wanted
  <2>5. OneChain'
    <3>1. Heirs' = Heirs \ {c} BY DEF Heirs
    <3> QED BY <2>1, <3>1 DEF OneChain
  <2>6. AllClosed' BY <2>1 DEF AllClosed
  <2> QED BY <2>1, <2>2, <2>3, <2>4, <2>5, <2>6
<1>6. ASSUME NEW c \in Conns, CloseEvent(c) PROVE Goal
  <2> USE <1>6 DEF CloseEvent, Nobody
  <2>1. /\ sleeping' \in 0..Cardinality(Conns) /\ wsConnected' \in BOOLEAN
        /\ c \in Heirs => (sleeping' = sleeping + 1)
        /\ c \notin Heirs => (sleeping' = sleeping)
        /\ ~closed /\ Wanted
        /\ sleeping' <= 1
    BY Reconnecting
  <2>2. SockTypeOK' BY <2>1
  <2>3. Replaced' BY DEF Replaced
  <2>4. FirstOnly'
    <3>1. \A d \in Young' : d \in Young /\ d # c BY DEF Young
    <3>2. \A d \in Conns : ~(conn'[d].first /\ conn'[d].at = "url")
      BY DEF FirstOnly, Live
    <3> QED BY <2>1, <3>1, <3>2 DEF FirstOnly, Wanted
  <2>5. OneChain'
    <3>1. Heirs' = Heirs \ {c} BY DEF Heirs
    <3> QED BY <2>1, <3>1 DEF OneChain
  <2>6. AllClosed' BY <2>1 DEF AllClosed
  <2> QED BY <2>1, <2>2, <2>3, <2>4, <2>5, <2>6
<1>7. ASSUME NEW c \in Conns, NEW d \in Conns, Swap(c, d) PROVE Goal
  <2> USE <1>7 DEF Swap, Asking, Nobody, Free
  <2>0. ~closed BY DEF AllClosed, Live
  <2>1. c # d OBVIOUS
  <2>2. Wanted BY <2>0 DEF FirstOnly, Wanted
  <2>3. SockTypeOK' BY <2>1
  <2>4. Replaced'
    <3>1. \A e \in Conns : replaces[e] # d BY <2>0 DEF Replaced
    <3> QED BY <2>0, <2>1, <3>1 DEF Replaced
  <2>5. FirstOnly'
    <3>1. Young' = Young BY <2>1 DEF Young
    <3>2. \A e \in Conns : ~(conn'[e].first /\ conn'[e].at = "url")
      BY <2>1 DEF FirstOnly
    <3> QED BY <2>2, <3>1, <3>2 DEF FirstOnly, Wanted
  <2>6. OneChain'
    <3>1. c \in Heirs BY DEF Heirs
    <3>2. Heirs = {c} /\ sleeping = 0 BY <2>2, <3>1 DEF OneChain
    <3>3. Heirs' = (Heirs \ {c}) \cup {d} BY <2>1 DEF Heirs
    <3> QED BY <2>2, <3>2, <3>3 DEF OneChain
  <2>7. AllClosed' BY <2>0 DEF AllClosed
  <2> QED BY <2>3, <2>4, <2>5, <2>6, <2>7
<1>8. ASSUME NEW d \in Conns, Wake(d) PROVE Goal
  <2> USE <1>8 DEF Wake, Asking, Nobody, Free
  <2>1. sleeping = 1 /\ sleeping' = 0 OBVIOUS
  <2>2. ~closed => Wanted BY DEF FirstOnly, Wanted
  <2>0. /\ closed => UNCHANGED conn
        /\ ~closed => (conn[d].at = "free"
             /\ conn' = [conn EXCEPT ![d] = [at |-> "url", superseded |-> FALSE, first |-> FALSE]])
    OBVIOUS
  <2>3. SockTypeOK'
    <3>1. Cardinality(Conns) \in Nat BY FS_CardinalityType
    <3>2. conn' \in [Conns -> [at : Phases, superseded : BOOLEAN, first : BOOLEAN]]
      <4>1. CASE closed BY <2>0, <4>1
      <4>2. CASE ~closed
        <5>1. [at |-> "url", superseded |-> FALSE, first |-> FALSE]
                \in [at : Phases, superseded : BOOLEAN, first : BOOLEAN]
          OBVIOUS
        <5>2. conn' = [conn EXCEPT ![d] = [at |-> "url", superseded |-> FALSE, first |-> FALSE]]
          BY <2>0, <4>2
        <5>3. conn \in [Conns -> [at : Phases, superseded : BOOLEAN, first : BOOLEAN]] OBVIOUS
        <5> HIDE <1>8 DEF Phases
        <5> QED BY <5>1, <5>2, <5>3
      <4> QED BY <4>1, <4>2
    <3> QED BY <2>1, <3>1, <3>2
  <2>4. Replaced'
    <3>1. CASE closed
      BY <2>0, <3>1 DEF Replaced
    <3>2. CASE ~closed
      <4>1. \A e \in Conns : e # d => conn'[e] = conn[e] BY <2>0, <3>2
      <4>2. conn'[d] = [at |-> "url", superseded |-> FALSE, first |-> FALSE] BY <2>0, <3>2
      <4>3. conn[d] = Nobody BY <2>0, <3>2 DEF Replaced
      <4>4. \A e \in Conns : replaces[e] # d BY <3>2, <4>3 DEF Replaced
      <4> QED BY <3>2, <4>1, <4>2, <4>4 DEF Replaced
    <3> QED BY <3>1, <3>2
  <2>5. FirstOnly'
    <3>1. Young' = Young BY <2>0 DEF Young
    <3>2. \A e \in Conns : ~(conn'[e].first /\ conn'[e].at = "url")
      BY <2>1 DEF FirstOnly
    <3> QED BY <2>1, <3>1, <3>2 DEF FirstOnly
  <2>6. OneChain'
    <3>1. ~closed => Heirs' = Heirs \cup {d} BY DEF Heirs
    <3> QED BY <2>1, <2>2, <3>1 DEF OneChain, Wanted
  <2>7. AllClosed' BY DEF AllClosed, Live
  <2> QED BY <2>1, <2>3, <2>4, <2>5, <2>6, <2>7
<1>9. CASE Close
  <2> USE <1>9 DEF Close, Nobody
  <2>1. SockTypeOK' OBVIOUS
  <2>2. Replaced' BY DEF Replaced
  <2>3. FirstOnly'
    <3>1. \A c \in Conns : conn'[c] = Nobody \/ conn'[c] = conn[c] OBVIOUS
    <3>2. Young' \subseteq Young BY <3>1 DEF Young
    <3>3. \A c \in Conns : conn[c].at = "free" => conn'[c].at = "free" BY <3>1
    <3>4. \A c \in Conns : (conn'[c].first /\ conn'[c].at = "url") => conn'[c] = conn[c]
      BY <3>1
    <3> QED BY <3>1, <3>2, <3>3, <3>4 DEF FirstOnly
  <2>4. OneChain' BY DEF OneChain, Wanted
  <2>5. AllClosed' BY DEF AllClosed, Live
  <2> QED BY <2>1, <2>2, <2>3, <2>4, <2>5
<1>10. CASE UNCHANGED sockVars
  BY <1>10 DEF sockVars, Replaced, FirstOnly, OneChain, AllClosed, Wanted, Young, Heirs, Live
<1> QED BY <1>1, <1>2, <1>3, <1>4, <1>5, <1>6, <1>7, <1>8, <1>9, <1>10 DEF SockNext

\* the invariant the theorems on the connection follow from
THEOREM SockInvariant == SockSpec => []SockInv
<1>1. SockInv /\ [SockNext]_sockVars => SockInv'
  BY SockStep
<1> QED BY <1>1, SockInitInv, PTL DEF SockSpec

(***************************************************************************)
(* The connections, the backoffs and the promise keep their types.         *)
(***************************************************************************)
THEOREM SockTypeCorrect == SockSpec => []SockTypeOK
<1>1. SockInv => SockTypeOK
  BY DEF SockInv
<1> QED BY <1>1, SockInvariant, PTL

(***************************************************************************)
(* "Reconnecting on both events opens two connections": for any number of  *)
(* connections, dying in any order, the channel has one chain that leads   *)
(* to a connection, or one backoff, and never both.                        *)
(***************************************************************************)
THEOREM OneReconnect == SockSpec => []OneHeir
<1>1. SockInv => OneHeir
  BY FS_EmptySet, FS_Singleton DEF SockInv, OneChain, OneHeir
<1> QED BY <1>1, SockInvariant, PTL

(***************************************************************************)
(* A channel that was closed has no connection alive, however many         *)
(* overlapped when close() was called and whatever URL comes after it.     *)
(***************************************************************************)
THEOREM CloseClosesAll == SockSpec => []AllClosed
<1>1. SockInv => AllClosed
  BY DEF SockInv
<1> QED BY <1>1, SockInvariant, PTL

(***************************************************************************)
(* Only the network or close() takes the last open connection: a swap      *)
(* closes the old one in the step that opens its successor.                *)
(***************************************************************************)
THEOREM SwapKeepsOne == SockSpec => NoGap
<1> DEFINE Step == OpenConns # {} /\ OpenConns' = {}
                     => closed' \/ \E c \in OpenConns : Error(c) \/ CloseEvent(c)
<1>1. ASSUME SockInv, [SockNext]_sockVars PROVE Step
  <2> USE <1>1 DEF SockInv, SockTypeOK, OpenConns
  <2>1. ASSUME NEW c \in Conns, Connect(c) \/ UrlComes(c) \/ UrlFails(c) \/ Wake(c)
        PROVE  Step
    BY <2>1 DEF Connect, UrlComes, UrlFails, Wake, Free
  <2>2. ASSUME NEW c \in Conns, Opened(c) PROVE Step
    <3>1. ~closed BY <2>2 DEF Opened, AllClosed, Live
    <3>2. replaces[c] # c BY <2>2, <3>1, SlackSocketAssumption
      DEF SlackSocketAssumption, Opened, Replaced
    <3>3. c \in OpenConns' BY <2>2, <3>2 DEF Opened
    <3> QED BY <3>3
  <2>3. ASSUME NEW c \in Conns, Error(c) \/ CloseEvent(c) PROVE Step
    BY <2>3 DEF Error, CloseEvent, Live
  <2>4. ASSUME NEW c \in Conns, NEW d \in Conns, Swap(c, d) PROVE Step
    BY <2>4 DEF Swap, Free
  <2>5. CASE Close
    BY <2>5 DEF Close
  <2>6. CASE UNCHANGED sockVars
    BY <2>6 DEF sockVars
  <2> QED BY <2>1, <2>2, <2>3, <2>4, <2>5, <2>6 DEF SockNext
<1> QED BY <1>1, SockInvariant, PTL DEF SockSpec, NoGap

-----------------------------------------------------------------------------

(***************************************************************************)
(* THE WATCHDOG                                                            *)
(* The stored class lags behind the last alert only after a torn run.      *)
(***************************************************************************)
Current == told = wd.klass \/ torn

\* one alert under way shows the last sample, and an overtaken one shows nothing
Flips ==
  /\ sample = "none" => (sending = {} /\ shown = "none")
  /\ sending = {} => (shown # "mixed" /\ (shown # "none" => shown = sample))
  /\ (sending # {} /\ shown # "mixed") => sending = {sample}

\* no grace window, stored or decided, is older than the last clean round
Windows ==
  /\ wd.since <= seen /\ decision.since <= seen
  /\ decision.clean => decision.since = None
  /\ round \in {"idle", "probed", "done"} => decision.act = "none"

DogInv == WatchTypeOK /\ Current /\ Flips /\ Windows

\* nothing runs, and nothing was said, at the start
LEMMA DogInitInv == WatchInit => DogInv
<1> SUFFICES ASSUME WatchInit PROVE DogInv
  OBVIOUS
<1> USE WatchdogAssumption DEF WatchdogAssumption, WatchInit, Clean, Nothing, None
<1>1. WatchTypeOK
  <2>1. hb \in [age : {None} \cup 0..Stale, gates : BOOLEAN] OBVIOUS
  <2>2. wd \in [fails : 0..Threshold, since : {None} \cup 0..Grace, klass : Class]
    BY DEF Class
  <2>3. decision \in [act : {"none", "restart", "kill", "defer", "alert"},
                     since : {None} \cup 0..Grace, klass : Class, clean : BOOLEAN]
    BY DEF Class
  <2>4. seen \in 0..Grace /\ faults \in 0..MaxFaults OBVIOUS
  <2> HIDE DEF None
  <2> QED BY <2>1, <2>2, <2>3, <2>4 DEF WatchTypeOK, Class
<1>2. Current BY DEF Current
<1>3. Flips BY DEF Flips
<1>4. Windows BY DEF Windows
<1> QED BY <1>1, <1>2, <1>3, <1>4 DEF DogInv

\* the decision, for the ages and the failures a round can find
LEMMA Decision ==
  ASSUME WatchTypeOK, Windows, NEW fails \in 0..Threshold, NEW d, d = Decide(fails)
  PROVE  /\ d.act \in {"none", "restart", "kill", "defer", "alert"}
         /\ d.since \in {None} \cup 0..Grace /\ d.since <= seen
         /\ d.klass \in Class
         /\ (healthzOk /\ Fresh /\ d.klass = "ok") => d.since = None
         /\ (d.act = "kill" /\ hb.gates) => wd.since = Grace
<1> DEFINE clean    == healthzOk /\ Fresh
           degraded == ~healthzOk /\ fails >= Threshold /\ Fresh
           held     == hb.gates /\ wd.since # Grace
           down     == proc = "down"
           wedged   == IsWedged(fails)
           since    == IF wd.since = None THEN 0 ELSE wd.since
<1>1. since \in 0..Grace /\ since <= seen
  BY WatchdogAssumption DEF WatchdogAssumption, WatchTypeOK, Windows, None
<1>2. None <= seen /\ wd.since \in {None} \cup 0..Grace /\ wd.since <= seen
  BY DEF WatchTypeOK, Windows, None
<1>3. \/ down /\ d = [act |-> "restart", since |-> None, klass |-> "process-down"]
      \/ clean /\ d = [act |-> "none", since |-> None, klass |-> "ok"]
      \/ degraded /\ d = [act |-> "alert", since |-> None, klass |-> "http-degraded"]
      \/ wedged /\ held /\ d = [act |-> "defer", since |-> since, klass |-> "wedged-deferred"]
      \/ wedged /\ ~held /\ d = [act |-> "kill", since |-> None, klass |-> "wedged"]
      \/ ~clean /\ d = [act |-> "none", since |-> wd.since, klass |-> "ok"]
  <2> HIDE DEF clean, degraded, held, down, wedged, since
  <2>1. d = CASE down -> [act |-> "restart", since |-> None, klass |-> "process-down"]
        [] ~down /\ clean -> [act |-> "none", since |-> None, klass |-> "ok"]
        [] ~down /\ degraded -> [act |-> "alert", since |-> None, klass |-> "http-degraded"]
        [] ~down /\ wedged /\ held ->
             [act |-> "defer", since |-> since, klass |-> "wedged-deferred"]
        [] ~down /\ wedged /\ ~held ->
             [act |-> "kill", since |-> None, klass |-> "wedged"]
        [] OTHER    -> [act |-> "none", since |-> wd.since, klass |-> "ok"]
    BY DEF Decide, clean, degraded, held, down, wedged, since
  <2> QED BY <2>1
<1> QED BY <1>1, <1>2, <1>3 DEF Class

\* ages grow together up to their bound
LEMMA Ages ==
  ASSUME NEW b \in Nat, NEW age \in {None} \cup 0..b, NEW longer \in 0..b, age <= longer
  PROVE  /\ Older(age, b) \in {None} \cup 0..b /\ Older(longer, b) \in 0..b
         /\ Older(age, b) <= Older(longer, b)
         /\ age = None => Older(age, b) = None
BY DEF Older, None

\* each step keeps the invariant
LEMMA DogStep == ASSUME DogInv, [WatchNext]_watchVars PROVE DogInv'
<1> USE WatchdogAssumption DEF WatchdogAssumption, DogInv
<1>1. CASE Daemon
  <2>1. CASE KeepAlive \/ Ready \/ Ping \/ Wedge \/ HttpDies \/ Gates
    <3>1. UNCHANGED <<dogVars, sampleVars, faults>>
      BY <2>1 DEF KeepAlive, Ready, Ping, Wedge, HttpDies, Gates
    <3>2. WatchTypeOK'
      <4>1. proc' \in {"down", "boot", "up", "wedged"}
        BY <2>1 DEF KeepAlive, Ready, Ping, Wedge, HttpDies, Gates, WatchTypeOK
      <4>2. http' \in BOOLEAN /\ active' \in BOOLEAN
        BY <2>1 DEF KeepAlive, Ready, Ping, Wedge, HttpDies, Gates, WatchTypeOK
      <4>3. hb' \in [age : {None} \cup 0..Stale, gates : BOOLEAN]
        <5>1. 0 \in 0..Stale BY DEF WatchTypeOK
        <5>2. UNCHANGED hb \/ hb' = [age |-> 0, gates |-> FALSE]
              \/ hb' = [age |-> 0, gates |-> active]
          BY <2>1 DEF KeepAlive, Ready, Ping, Wedge, HttpDies, Gates
        <5>3. CASE UNCHANGED hb BY <5>3 DEF WatchTypeOK
        <5>4. CASE hb' = [age |-> 0, gates |-> FALSE] BY <5>1, <5>4
        <5>5. CASE hb' = [age |-> 0, gates |-> active] BY <5>1, <5>5 DEF WatchTypeOK
        <5> QED BY <5>2, <5>3, <5>4, <5>5
      <4> QED BY <3>1, <4>1, <4>2, <4>3 DEF WatchTypeOK, dogVars, sampleVars
    <3> QED BY <3>1, <3>2 DEF dogVars, sampleVars, Current, Flips, Windows
  <2>2. CASE Exit
    <3>1. WatchTypeOK'
      <4>1. /\ proc' = "down" /\ http' = FALSE /\ sending' = {}
            /\ shown' \in {"none", "mixed"} \cup Status
        BY <2>2 DEF Exit, Gone, WatchTypeOK
      <4>2. UNCHANGED <<active, hb, dogVars, sample, faults>> BY <2>2 DEF Exit
      <4>3. sending' \subseteq Status BY <4>1
      <4>4. proc' \in {"down", "boot", "up", "wedged"} /\ http' \in BOOLEAN BY <4>1
      <4> QED BY <4>1, <4>2, <4>3, <4>4 DEF WatchTypeOK, dogVars
    <3>2. Flips'
      BY <2>2 DEF Exit, Gone, WatchTypeOK, Flips
    <3> QED BY <2>2, <3>1, <3>2 DEF Exit, dogVars, Current, Windows
  <2> QED BY <1>1, <2>1, <2>2 DEF Daemon
<1>2. ASSUME NEW s \in Status, Sample(s) \/ Shown(s) PROVE DogInv'
  <2>1. UNCHANGED <<daemonVars, dogVars, faults>>
    BY <1>2 DEF Sample, Shown
  <2>2. WatchTypeOK'
    BY <1>2 DEF Sample, Shown, WatchTypeOK, daemonVars, dogVars, Class
  <2>3. ASSUME Sample(s) PROVE Flips'
    BY <2>3 DEF Sample, WatchTypeOK, Flips
  <2>4. ASSUME Shown(s) PROVE Flips'
    BY <2>4 DEF Shown, WatchTypeOK, Flips
  <2> QED BY <1>2, <2>1, <2>2, <2>3, <2>4 DEF daemonVars, dogVars, Current, Windows
<1>3. CASE Probe
  <2>1. WatchTypeOK'
    BY <1>3 DEF Probe, WatchGoto, Answers, WatchTypeOK, daemonVars, sampleVars, Class
  <2> QED BY <1>3, <2>1 DEF Probe, WatchGoto, sampleVars, Current, Flips, Windows
<1>4. CASE Look
  <2>0. Fails \in 0..Threshold BY DEF Fails, WatchTypeOK
  <2> DEFINE d == Decide(Fails)
  <2>1. /\ d.act \in {"none", "restart", "kill", "defer", "alert"}
        /\ d.since \in {None} \cup 0..Grace /\ d.since <= seen
        /\ d.klass \in Class
        /\ (healthzOk /\ Fresh /\ d.klass = "ok") => d.since = None
    BY <2>0, Decision
  <2>2. decision' = [act |-> d.act, since |-> d.since, klass |-> d.klass,
                     clean |-> d.klass = "ok" /\ healthzOk /\ Fresh]
    BY <1>4 DEF Look
  <2> HIDE DEF d
  <2>3. decision' \in [act : {"none", "restart", "kill", "defer", "alert"},
                       since : {None} \cup 0..Grace, klass : Class, clean : BOOLEAN]
    BY <2>1, <2>2 DEF Fresh
  <2>4. UNCHANGED <<daemonVars, wd, healthzOk, told, torn, seen, sampleVars, faults>>
        /\ round' = "decided"
    BY <1>4 DEF Look, WatchGoto
  <2>5. WatchTypeOK'
    BY <2>3, <2>4 DEF WatchTypeOK, daemonVars, sampleVars
  <2>6. Windows'
    BY <2>1, <2>2, <2>4 DEF Windows
  <2> QED BY <2>4, <2>5, <2>6 DEF sampleVars, Current, Flips
<1>5. CASE Act
  <2>1. UNCHANGED <<wd, healthzOk, decision, told, torn, seen>> /\ round' = "acted"
    BY <1>5 DEF Act, WatchGoto
  <2>2. WatchTypeOK'
    <3>1. /\ proc' \in {"down", "boot", "up", "wedged"} /\ http' \in BOOLEAN
          /\ UNCHANGED <<active, hb, sample>>
      BY <1>5 DEF Act, Gone, WatchTypeOK, daemonVars, sampleVars
    <3>2. sending' \subseteq Status /\ shown' \in {"none", "mixed"} \cup Status
      BY <1>5 DEF Act, Gone, WatchTypeOK, sampleVars
    <3>3. faults' \in 0..MaxFaults
      BY <1>5 DEF Act, Fault, WatchTypeOK
    <3> QED BY <2>1, <3>1, <3>2, <3>3 DEF WatchTypeOK
  <2>3. Flips'
    BY <1>5 DEF Act, Gone, WatchTypeOK, sampleVars, Flips
  <2> QED BY <2>1, <2>2, <2>3 DEF Current, Windows
<1>6. CASE Report
  <2>0. Fails \in 0..Threshold BY DEF Fails, WatchTypeOK
  <2>1. WatchTypeOK'
    <3>1. wd' \in [fails : 0..Threshold, since : {None} \cup 0..Grace, klass : Class]
      BY <1>6, <2>0 DEF Report, WatchTypeOK
    <3>2. decision' = [act |-> "none", since |-> None, klass |-> "ok", clean |-> FALSE]
      BY <1>6 DEF Report, Ends, Nothing
    <3>3. told' \in Class /\ seen' \in 0..Grace
      BY <1>6 DEF Report, WatchTypeOK
    <3>4. UNCHANGED <<daemonVars, torn, sampleVars, faults>> /\ round' = "done"
          /\ healthzOk' = FALSE
      BY <1>6 DEF Report, Ends
    <3> QED BY <3>1, <3>2, <3>3, <3>4 DEF WatchTypeOK, daemonVars, sampleVars, Class
  <2>2. Current' BY <1>6 DEF Report, Current
  <2>3. Windows' BY <1>6 DEF Report, Ends, Nothing, Windows, WatchTypeOK, None
  <2> QED BY <1>6, <2>1, <2>2, <2>3 DEF Report, sampleVars, Flips
<1>7. CASE Dies
  <2>1. WatchTypeOK'
    <3>1. decision' = [act |-> "none", since |-> None, klass |-> "ok", clean |-> FALSE]
      BY <1>7 DEF Dies, Ends, Nothing
    <3>2. told' \in Class /\ torn' \in BOOLEAN
      BY <1>7 DEF Dies, WatchTypeOK
    <3>4. faults' \in 0..MaxFaults
      BY <1>7 DEF Dies, Fault, WatchTypeOK
    <3>3. UNCHANGED <<daemonVars, wd, seen, sampleVars>> /\ round' = "done"
          /\ healthzOk' = FALSE
      BY <1>7 DEF Dies, Ends
    <3> QED BY <3>1, <3>2, <3>3, <3>4 DEF WatchTypeOK, daemonVars, sampleVars, Class
  <2>2. Current' BY <1>7 DEF Dies, Current
  <2>3. Windows' BY <1>7 DEF Dies, Ends, Nothing, Windows, WatchTypeOK, None
  <2> QED BY <1>7, <2>1, <2>2, <2>3 DEF Dies, sampleVars, Flips
<1>8. CASE Minute
  <2>1. /\ Older(wd.since, Grace) \in {None} \cup 0..Grace
        /\ Older(decision.since, Grace) \in {None} \cup 0..Grace
        /\ Older(seen, Grace) \in 0..Grace
        /\ Older(wd.since, Grace) <= Older(seen, Grace)
        /\ Older(decision.since, Grace) <= Older(seen, Grace)
        /\ decision.since = None => Older(decision.since, Grace) = None
    BY Ages DEF WatchTypeOK, Windows
  <2>2. Older(hb.age, Stale) \in {None} \cup 0..Stale
    BY DEF Older, WatchTypeOK, None
  <2>3. /\ wd' = [wd EXCEPT !.since = Older(wd.since, Grace)]
        /\ decision' = [decision EXCEPT !.since = Older(decision.since, Grace)]
        /\ hb' = [hb EXCEPT !.age = Older(hb.age, Stale)]
        /\ seen' = Older(seen, Grace)
        /\ round' = (IF round = "done" THEN "idle" ELSE round)
        /\ UNCHANGED <<proc, http, active, healthzOk, told, torn, sampleVars, faults>>
    BY <1>8 DEF Minute
  <2> HIDE DEF Older
  <2>4. WatchTypeOK'
    BY <2>1, <2>2, <2>3 DEF WatchTypeOK, sampleVars
  <2>5. Current' BY <2>3 DEF Current, WatchTypeOK
  <2>6. Windows' BY <2>1, <2>3 DEF Windows, WatchTypeOK
  <2> QED BY <2>3, <2>4, <2>5, <2>6 DEF sampleVars, Flips
<1>9. CASE UNCHANGED watchVars
  BY <1>9 DEF watchVars, daemonVars, dogVars, sampleVars, WatchTypeOK, Current, Flips, Windows
<1> QED BY <1>1, <1>2, <1>3, <1>4, <1>5, <1>6, <1>7, <1>8, <1>9 DEF WatchNext, Sampler, Run

\* the invariant the theorems on the watchdog and the sampler follow from
THEOREM DogInvariant == WatchSpec => []DogInv
<1>1. DogInv /\ [WatchNext]_watchVars => DogInv'
  BY DogStep
<1> QED BY <1>1, DogInitInv, PTL DEF WatchSpec

(***************************************************************************)
(* The daemon, the heartbeat, watchdog.json and the samples keep their     *)
(* types, for every threshold and every grace window.                      *)
(***************************************************************************)
THEOREM WatchTypeCorrect == WatchSpec => []WatchTypeOK
<1>1. DogInv => WatchTypeOK
  BY DEF DogInv
<1> QED BY <1>1, DogInvariant, PTL

(***************************************************************************)
(* Between two runs the class the watchdog stored is the one it last       *)
(* alerted, unless a run was killed between the alert and the write.       *)
(***************************************************************************)
THEOREM OperatorKnows == WatchSpec => []AlertIsCurrent
<1>1. DogInv => AlertIsCurrent
  BY DEF DogInv, Current, AlertIsCurrent
<1> QED BY <1>1, DogInvariant, PTL

(***************************************************************************)
(* The sampler shows every flip of the status: with no alert under way,    *)
(* lost or overtaken, the last one shown is the last sample.               *)
(***************************************************************************)
THEOREM FlipsAreShown == WatchSpec => []FlipIsShown
<1>1. DogInv => FlipIsShown
  BY DEF DogInv, Flips, FlipIsShown
<1> QED BY <1>1, DogInvariant, PTL

(***************************************************************************)
(* A daemon whose heartbeat counts a running gate is killed only after a   *)
(* whole grace window without a clean round, whatever became of the runs   *)
(* in between.                                                             *)
(***************************************************************************)
THEOREM GatesAreSpared == WatchSpec => GateIsSpared
<1> DEFINE Spared == (round = "probed" /\ decision'.act = "kill" /\ hb.gates) => (seen = Grace)
<1>1. ASSUME DogInv, [WatchNext]_watchVars PROVE Spared
  <2> SUFFICES ASSUME round = "probed", decision'.act = "kill", hb.gates PROVE seen = Grace
    OBVIOUS
  <2> USE <1>1, WatchdogAssumption DEF WatchdogAssumption, DogInv
  <2>1. decision.act = "none" BY DEF Windows
  <2>2. CASE Look
    <3>0. Fails \in 0..Threshold BY DEF Fails, WatchTypeOK
    <3>1. Decide(Fails).act = "kill" BY <2>2 DEF Look
    <3>2. wd.since = Grace BY <3>0, <3>1, Decision
    <3> QED BY <3>2 DEF Windows, WatchTypeOK
  <2>3. CASE Dies
    BY <2>3 DEF Dies, Ends, Nothing
  <2>4. CASE Minute
    BY <2>1, <2>4 DEF Minute, WatchTypeOK
  <2>5. CASE Daemon \/ Sampler \/ UNCHANGED watchVars
    <3>1. decision' = decision
      BY <2>5 DEF Daemon, KeepAlive, Ready, Ping, Wedge, HttpDies, Gates, Exit, Sampler, Sample,
                  Shown, watchVars, dogVars
    <3> QED BY <2>1, <3>1
  <2>6. CASE Probe \/ Act \/ Report
    BY <2>6 DEF Probe, Act, Report, WatchGoto
  <2> QED BY <2>2, <2>3, <2>4, <2>5, <2>6 DEF WatchNext, Run
<1> QED BY <1>1, DogInvariant, PTL DEF WatchSpec, GateIsSpared
=============================================================================

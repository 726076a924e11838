----------------------------- MODULE IntakeProofs -----------------------------
(***************************************************************************)
(* Proofs about Intake, for any number of messages, documents, handlers,   *)
(* crashes, failures and repeats: no document is registered twice, the     *)
(* cursor never goes back, and, when a history that breaks off keeps its   *)
(* oldest part, it passes no requirement that is not accounted for.        *)
(***************************************************************************)
EXTENDS Intake, WellFoundedInduction, TLAPS

(* The extreme elements of the two kinds of sets the code takes them of.   *)
LEMMA MaxOfTwo ==
  ASSUME NEW x \in Int, NEW y \in Int
  PROVE  Max({x, y}) = IF x >= y THEN x ELSE y
<1> DEFINE z == IF x >= y THEN x ELSE y
<1>1. z \in {x, y} /\ \A v \in {x, y} : z >= v
  OBVIOUS
<1>2. \A u \in {x, y} : (\A v \in {x, y} : u >= v) => u = z
  OBVIOUS
<1> HIDE DEF z
<1>3. (CHOOSE u \in {x, y} : \A v \in {x, y} : u >= v) = z
  BY <1>1, <1>2
<1> QED BY <1>3 DEF Max, z

LEMMA MinOfSet ==
  ASSUME NEW S \in SUBSET Int, NEW z \in S, \A v \in S : z <= v
  PROVE  Min(S) = z
<1>1. \A u \in S : (\A v \in S : u <= v) => u = z
  OBVIOUS
<1>2. (CHOOSE u \in S : \A v \in S : u <= v) = z
  BY <1>1
<1> QED BY <1>2 DEF Min

LEMMA MinOfMessages ==
  ASSUME NEW S \in SUBSET Msgs, S # {}
  PROVE  Min(S) \in S
<1>1. S \subseteq Nat
  BY IntakeAssumption DEF Msgs
<1>2. PICK z \in S : \A v \in S : ~ (<<v, z>> \in OpToRel(<, Nat))
  BY <1>1, NatLessThanWellFounded, WFMin
<1>3. ASSUME NEW v \in S PROVE z <= v
  <2>1. <<v, z>> \in Nat \X Nat
    BY <1>1
  <2>2. ~ (v < z)
    BY <2>1, <1>2 DEF OpToRel
  <2> QED BY <2>2, <1>1
<1> QED BY <1>1, <1>3, MinOfSet

-----------------------------------------------------------------------------
(***************************************************************************)
(* What is true of a requirement that needs no reading again.              *)
(***************************************************************************)
Settled(m) == Registered(m) \/ m \in lost
Held(m) == Settled(m) \/ InHand(m)

\* the messages up to m are accounted for
HeldUpTo(m) == \A k \in 1..m : Wanted(k) => Held(k)

Backfilling == at["backfill"] \in {"next", "find", "read", "create"}

Positions ==
  /\ at["backfill"] # "tick"
  /\ \A h \in Handlers : at[h] \in {"idle", "find", "read", "create", "tick"}
  /\ \A a \in Actors : at[a] \in {"find", "read", "create", "tick"} => msg[a] \in Msgs

\* a handler is done with its message when the gates run
TickSettled == \A h \in Handlers : at[h] = "tick" => Settled(msg[h])

\* the backfill has left nothing out below the one it is at
BackfillKept ==
  /\ at["backfill"] = "list" => reached <= cursor
  /\ at["backfill"] \in {"find", "read", "create"} => msg["backfill"] = reached
  /\ Backfilling => HeldUpTo(reached) /\ \E n \in Int : todo = (reached + 1)..n

IInv == TypeOK /\ Positions /\ TickSettled /\ BackfillKept /\ HeldUpTo(cursor)

-----------------------------------------------------------------------------
(***************************************************************************)
(* Types and positions.                                                    *)
(***************************************************************************)
LEMMA AdvanceTypes ==
  ASSUME TypeOK, NEW m \in Msgs, Advance(m)
  PROVE  cursor' \in 0..NMsgs /\ lost' \subseteq Msgs /\ cursor' >= cursor /\ cursor' >= m
         /\ (cursor' = cursor \/ cursor' = m)
<1>1. cursor \in 0..NMsgs /\ cursor \in Int /\ m \in Int /\ NMsgs \in Nat
  BY IntakeAssumption DEF TypeOK, Msgs
<1>2. cursor' = IF cursor >= m THEN cursor ELSE m
  BY <1>1, MaxOfTwo DEF Advance
<1>3. lost' \subseteq Msgs
  <2>1. (cursor + 1)..m \subseteq Msgs
    BY <1>1 DEF Msgs
  <2>2. lost' \subseteq lost \cup (cursor + 1)..m
    BY DEF Advance
  <2> QED BY <2>1, <2>2 DEF TypeOK
<1> QED BY <1>1, <1>2, <1>3 DEF Msgs

LEMMA MinTodo ==
  ASSUME TypeOK, BackfillKept, at["backfill"] = "next", todo # {}
  PROVE  /\ Min(todo) = reached + 1 /\ Min(todo) \in Msgs
         /\ \E n \in Int : todo \ {Min(todo)} = (Min(todo) + 1)..n
<1>1. PICK n \in Int : todo = (reached + 1)..n
  BY DEF BackfillKept, Backfilling
<1>2. reached \in Int /\ todo \subseteq Msgs
  BY DEF TypeOK
<1>3. reached + 1 \in todo /\ (\A v \in todo : reached + 1 <= v) /\ todo \in SUBSET Int
  BY <1>1, <1>2
<1>4. Min(todo) = reached + 1
  BY <1>3, MinOfSet
<1>5. todo \ {reached + 1} = (reached + 2)..n
  BY <1>1, <1>2
<1>6. (reached + 1) + 1 = reached + 2
  BY <1>2
<1> QED BY <1>2, <1>3, <1>4, <1>5, <1>6

Points == {"idle", "list", "next", "find", "read", "create", "tick"}

LEMMA TypeStep == TypeOK /\ Positions /\ [Next]_vars => TypeOK'
<1> SUFFICES ASSUME TypeOK, Positions, [Next]_vars PROVE TypeOK'
  OBVIOUS
<1> USE IntakeAssumption
<1>1. CASE Post
  BY <1>1 DEF Post, TypeOK, work, store, spent, Msgs
<1>2. CASE LinkUp \/ LinkDown
  BY <1>2 DEF LinkUp, LinkDown, TypeOK, world, work, store, spent
<1>3. CASE Crash \/ Boot
  <2>1. CASE Crash
    <3>1. lost' \subseteq Msgs
      <4>1. 1..cursor \subseteq Msgs
        BY DEF TypeOK, Msgs
      <4>2. lost' \subseteq lost \cup 1..cursor
        BY <2>1 DEF Crash
      <4> QED BY <4>1, <4>2 DEF TypeOK
    <3>2. crashes' \in 0..MaxCrashes
      BY <2>1 DEF Crash, TypeOK
    <3>3. /\ at' \in [Actors -> {"idle", "list", "next", "find", "read", "create", "tick"}]
          /\ msg' \in [Actors -> Msgs \cup {NoMsg}]
      BY <2>1 DEF Crash
    <3>4. reached' \in 0..NMsgs /\ todo' \subseteq Msgs /\ coming' \subseteq Msgs
      BY <2>1 DEF Crash
    <3>5. UNCHANGED <<gate, posted, cursor, made, failures, repeats>> /\ up' = FALSE /\ link' = FALSE
      BY <2>1 DEF Crash, world, store
    <3> QED BY <3>1, <3>2, <3>3, <3>4, <3>5 DEF TypeOK
  <2>2. CASE Boot
    BY <2>2 DEF Boot, TypeOK, world, work, store, spent
  <2> QED BY <1>3, <2>1, <2>2
<1>4. ASSUME NEW a \in Actors, AddPrd(a)
      PROVE  TypeOK'
  <2>1. a = "backfill" \/ a \in Handlers
    BY DEF Actors
  <2>2. Done(a) \in Points
    BY DEF Done, Points
  <2>3. at[a] \in {"find", "read", "create"} /\ msg[a] \in Msgs
    BY <1>4 DEF AddPrd, Find, Read, Create, Goto, Positions
  <2>4. at' \in [Actors -> Points]
    BY <1>4, <2>2 DEF AddPrd, Find, Read, Create, Goto, TypeOK, Points
  <2>5. made' \in [Docs -> Nat]
    BY <1>4 DEF AddPrd, Find, Read, Create, Insert, TypeOK, store
  <2>6. lost' \subseteq Msgs /\ failures' \in 0..MaxFailures
    BY <1>4, <2>3 DEF AddPrd, Find, Read, Create, Fails, TypeOK, spent
  <2>7. UNCHANGED <<gate, posted, up, link, coming, msg, todo, reached, cursor, crashes, repeats>>
    BY <1>4 DEF AddPrd, Find, Read, Create, world, conn, store, spent
  <2> QED BY <2>4, <2>5, <2>6, <2>7 DEF TypeOK, Points
<1>5. ASSUME NEW h \in Handlers, Ticked(h)
      PROVE  TypeOK'
  <2>1. h \in Actors /\ msg[h] \in Msgs /\ Advance(msg[h])
    BY <1>5 DEF Ticked, Positions, Actors
  <2>2. cursor' \in 0..NMsgs /\ lost' \subseteq Msgs
    BY <2>1, AdvanceTypes
  <2> QED BY <1>5, <2>1, <2>2 DEF Ticked, Leave, TypeOK, world, conn, spent
<1>6. ASSUME NEW h \in Handlers, NEW m \in Msgs, Deliver(h, m)
      PROVE  TypeOK'
  <2>1. h \in Actors
    BY DEF Actors
  <2>2. /\ coming' \subseteq Msgs /\ repeats' \in 0..MaxRepeats
        /\ UNCHANGED <<gate, posted, up, link, todo, reached, made, crashes, failures>>
    BY <1>6 DEF Deliver, TypeOK, world
  <2>3. CASE Wanted(m)
    BY <1>6, <2>1, <2>2, <2>3 DEF Deliver, TypeOK
  <2>4. CASE ~Wanted(m)
    <3>1. Advance(m) /\ UNCHANGED <<at, msg>>
      BY <1>6, <2>4 DEF Deliver
    <3>2. cursor' \in 0..NMsgs /\ lost' \subseteq Msgs
      BY <3>1, AdvanceTypes
    <3> QED BY <2>2, <3>1, <3>2 DEF TypeOK
  <2> QED BY <2>3, <2>4
<1>7. CASE Backfill \/ List
  <2>1. CASE Backfill
    BY <2>1 DEF Backfill, Goto, TypeOK, world, conn, store, spent
  <2>2. CASE List
    <3>1. (reached + 1)..posted \subseteq Msgs
      BY DEF TypeOK, Msgs
    <3>2. todo' \subseteq (reached + 1)..posted
      BY <2>2 DEF List
    <3>3. failures' \in 0..MaxFailures
      BY <2>2 DEF List, Fails, TypeOK
    <3> QED BY <2>2, <3>1, <3>2, <3>3 DEF List, Goto, TypeOK, world, conn, store
  <2> QED BY <1>7, <2>1, <2>2
<1>8. CASE NextMsg
  <2>1. Min(todo) \in Msgs
    BY <1>8, MinOfMessages DEF NextMsg, TypeOK
  <2>2. /\ todo' = todo \ {Min(todo)} /\ reached' = Min(todo)
        /\ UNCHANGED <<gate, posted, up, link, coming, cursor, made, lost, crashes, failures, repeats>>
    BY <1>8 DEF NextMsg, world, conn, store, spent
  <2>3. /\ at' = at \/ at' = [at EXCEPT !["backfill"] = "find"]
        /\ msg' \in {[msg EXCEPT !["backfill"] = Min(todo)], [msg EXCEPT !["backfill"] = NoMsg]}
    BY <1>8 DEF NextMsg
  <2>4. Min(todo) \in 0..NMsgs
    BY <2>1 DEF Msgs
  <2>5. /\ at' \in [Actors -> {"idle", "list", "next", "find", "read", "create", "tick"}]
        /\ msg' \in [Actors -> Msgs \cup {NoMsg}]
    BY <2>1, <2>3 DEF TypeOK
  <2> QED BY <2>2, <2>4, <2>5 DEF TypeOK
<1>9. CASE Finish
  <2>1. Max({cursor, reached}) \in 0..NMsgs
    <3>1. cursor \in Int /\ reached \in Int
      BY DEF TypeOK
    <3> QED BY <3>1, MaxOfTwo DEF TypeOK
  <2> QED BY <1>9, <2>1 DEF Finish, Leave, TypeOK, world, conn, spent, Actors
<1>10. CASE UNCHANGED vars
  BY <1>10 DEF vars, TypeOK, world, conn, work, store, spent
<1> QED BY <1>1, <1>2, <1>3, <1>4, <1>5, <1>6, <1>7, <1>8, <1>9, <1>10
        DEF Next, Handle, BackfillStep, Actors

LEMMA PositionStep == TypeOK /\ Positions /\ [Next]_vars => Positions'
<1> SUFFICES ASSUME TypeOK, Positions, [Next]_vars PROVE Positions'
  OBVIOUS
<1> USE IntakeAssumption DEF Actors
<1>1. CASE Post \/ LinkUp \/ LinkDown \/ Boot \/ UNCHANGED vars
  BY <1>1 DEF Post, LinkUp, LinkDown, Boot, vars, work, Positions
<1>2. CASE Crash
  BY <1>2 DEF Crash, Positions
<1>3. ASSUME NEW a \in Actors, AddPrd(a)
      PROVE  Positions'
  <2>1. at[a] \in {"find", "read", "create"} /\ msg[a] \in Msgs /\ msg' = msg
    BY <1>3 DEF AddPrd, Find, Read, Create, Goto, Positions
  <2>2. PICK p \in {"read", "create", Done(a)} : at' = [at EXCEPT ![a] = p]
    BY <1>3 DEF AddPrd, Find, Read, Create, Goto
  <2>3. at'[a] = p /\ \A b \in Actors : b # a => at'[b] = at[b]
    BY <2>2 DEF TypeOK
  <2>4. CASE a = "backfill"
    BY <2>1, <2>2, <2>3, <2>4 DEF Done, Positions
  <2>5. CASE a # "backfill"
    BY <2>1, <2>2, <2>3, <2>5 DEF Done, Positions
  <2> QED BY <2>4, <2>5
<1>4. ASSUME NEW h \in Handlers, Ticked(h)
      PROVE  Positions'
  BY <1>4 DEF Ticked, Leave, Positions, TypeOK
<1>5. ASSUME NEW h \in Handlers, NEW m \in Msgs, Deliver(h, m)
      PROVE  Positions'
  BY <1>5 DEF Deliver, Positions, TypeOK
<1>6. CASE Backfill \/ List \/ Finish
  BY <1>6 DEF Backfill, List, Finish, Goto, Leave, Positions, TypeOK
<1>7. CASE NextMsg
  <2>1. Min(todo) \in Msgs
    BY <1>7, MinOfMessages DEF NextMsg, TypeOK
  <2> QED BY <1>7, <2>1 DEF NextMsg, Positions, TypeOK
<1> QED BY <1>1, <1>2, <1>3, <1>4, <1>5, <1>6, <1>7 DEF Next, Handle, BackfillStep

-----------------------------------------------------------------------------
(***************************************************************************)
(* What is accounted for stays so, until a crash.                          *)
(***************************************************************************)
LEMMA SettledStays ==
  ASSUME TypeOK, Positions, [Next]_vars, NEW m \in Msgs, Settled(m)
  PROVE  Settled(m)'
<1>1. lost \subseteq lost'
  BY DEF Next, Handle, BackfillStep, AddPrd, Post, LinkUp, LinkDown, Crash, Boot, Find, Read, Create,
         Deliver, Ticked, Advance, Backfill, List, NextMsg, Finish, vars
<1>2. made' = made \/ \E d \in Docs : Insert(d)
  <2>1. ASSUME NEW a \in Actors, Create(a)
        PROVE  \E d \in Docs : Insert(d)
    <3>1. msg[a] \in Msgs
      BY <2>1 DEF Create, Goto, Positions
    <3> QED BY <2>1, <3>1, IntakeAssumption DEF Create
  <2> QED BY <2>1
          DEF Next, Handle, BackfillStep, AddPrd, Post, LinkUp, LinkDown, Crash, Boot, Find, Read,
              Deliver, Ticked, Backfill, List, NextMsg, Finish, vars, store, Actors
<1>3. Registered(m) => Registered(m)'
  <2> SUFFICES ASSUME Registered(m) PROVE Registered(m)'
    OBVIOUS
  <2>1. DocOf[m] \in Docs
    BY IntakeAssumption
  <2> QED BY <1>2, <2>1 DEF Registered, Insert, TypeOK
<1> QED BY <1>1, <1>3 DEF Settled

(* When addPrd lets go of a message, it is settled. *)
LEMMA AddPrdHolds ==
  ASSUME TypeOK, Positions, NEW a \in Actors, AddPrd(a)
  PROVE  /\ msg' = msg /\ msg[a] \in Msgs /\ at[a] \in {"find", "read", "create"}
         /\ at'[a] \in {"read", "create"} \/ (at'[a] = Done(a) /\ Settled(msg[a])')
         /\ \A b \in Actors : b # a => at'[b] = at[b]
<1>1. at[a] \in {"find", "read", "create"} /\ msg[a] \in Msgs /\ msg' = msg
  BY DEF AddPrd, Find, Read, Create, Goto, Positions
<1>2. DocOf[msg[a]] \in Docs
  BY <1>1, IntakeAssumption
<1>3. \A b \in Actors : b # a => at'[b] = at[b]
  BY DEF AddPrd, Find, Read, Create, Goto, TypeOK
<1>4. CASE Find(a)
  <2>1. CASE Registered(msg[a])
    <3>1. at'[a] = Done(a) /\ made' = made
      BY <1>4, <2>1 DEF Find, Goto, TypeOK, store
    <3> QED BY <3>1, <2>1, <1>1, <1>3 DEF Settled, Registered
  <2>2. CASE ~Registered(msg[a])
    <3>1. at'[a] = "read"
      BY <1>4, <2>2 DEF Find, Goto, TypeOK
    <3> QED BY <3>1, <1>1, <1>3
  <2> QED BY <2>1, <2>2
<1>5. CASE Read(a)
  <2>1. at'[a] = "create" \/ (at'[a] = Done(a) /\ msg[a] \in lost')
    BY <1>5 DEF Read, Goto, TypeOK
  <2> QED BY <2>1, <1>1, <1>3 DEF Settled
<1>6. CASE Create(a)
  <2>1. at'[a] = Done(a) /\ Insert(DocOf[msg[a]])
    BY <1>6 DEF Create, Goto, TypeOK
  <2>2. made'[DocOf[msg[a]]] > 0
    BY <2>1, <1>2 DEF Insert, TypeOK
  <2> QED BY <2>1, <2>2, <1>1, <1>3 DEF Settled, Registered
<1> QED BY <1>4, <1>5, <1>6 DEF AddPrd

LEMMA HeldStays ==
  ASSUME IInv, [Next]_vars, ~Crash, NEW m \in Msgs, Held(m)
  PROVE  Held(m)'
<1>1. TypeOK /\ Positions
  BY DEF IInv
<1>2. CASE Settled(m)
  BY <1>1, <1>2, SettledStays DEF Held
<1>3. CASE InHand(m)
  <2>1. PICK b \in Actors : msg[b] = m /\ at[b] \in {"find", "read", "create"}
    BY <1>3 DEF InHand
  <2>2. CASE at'[b] = at[b] /\ msg'[b] = msg[b]
    BY <2>1, <2>2 DEF Held, InHand
  <2>3. ASSUME NEW a \in Actors, AddPrd(a)
        PROVE  Held(m)'
    <3>1. /\ msg' = msg
          /\ at'[a] \in {"read", "create"} \/ (at'[a] = Done(a) /\ Settled(msg[a])')
          /\ \A c \in Actors : c # a => at'[c] = at[c]
      BY <1>1, <2>3, AddPrdHolds
    <3>2. CASE a = b
      <4>1. CASE at'[a] \in {"read", "create"}
        BY <2>1, <3>1, <3>2, <4>1 DEF Held, InHand
      <4>2. CASE Settled(msg[a])'
        BY <2>1, <3>1, <3>2, <4>2 DEF Held, Settled, Registered
      <4> QED BY <3>1, <4>1, <4>2
    <3>3. CASE a # b
      BY <2>1, <2>2, <3>1, <3>3
    <3> QED BY <3>2, <3>3
  <2>4. CASE ~\E a \in Actors : AddPrd(a)
    <3>1. at'[b] = at[b] /\ msg'[b] = msg[b]
      <4>1. CASE UNCHANGED <<at, msg>>
        BY <4>1
      <4>2. ASSUME NEW h \in Handlers, Ticked(h)
            PROVE  at'[b] = at[b] /\ msg'[b] = msg[b]
        BY <2>1, <4>2, <1>1 DEF Ticked, Leave, TypeOK
      <4>3. ASSUME NEW h \in Handlers, NEW k \in Msgs, Deliver(h, k)
            PROVE  at'[b] = at[b] /\ msg'[b] = msg[b]
        BY <2>1, <4>3, <1>1 DEF Deliver, TypeOK
      <4>4. CASE Backfill \/ List \/ NextMsg \/ Finish
        BY <2>1, <4>4, <1>1 DEF Backfill, List, NextMsg, Finish, Goto, Leave, TypeOK
      <4>5. CASE Post \/ LinkUp \/ LinkDown \/ Boot \/ UNCHANGED vars
        BY <4>5 DEF Post, LinkUp, LinkDown, Boot, vars, work
      <4> QED BY <2>4, <4>2, <4>3, <4>4, <4>5 DEF Next, Handle, BackfillStep, Actors
    <3> QED BY <2>2, <3>1
  <2> QED BY <2>3, <2>4
<1> QED BY <1>2, <1>3 DEF Held

(* No action changes what the mention gate says of a message. *)
LEMMA GateStands == ASSUME [Next]_vars PROVE gate' = gate
BY DEF Next, Handle, BackfillStep, AddPrd, Post, LinkUp, LinkDown, Crash, Boot, Find, Read, Create,
       Deliver, Ticked, Backfill, List, NextMsg, Finish, vars, world

LEMMA HeldUpToStays ==
  ASSUME IInv, [Next]_vars, ~Crash, NEW n \in 0..NMsgs, HeldUpTo(n)
  PROVE  HeldUpTo(n)'
<1> SUFFICES ASSUME NEW k \in 1..n, Wanted(k)' PROVE Held(k)'
  BY DEF HeldUpTo
<1>1. k \in Msgs
  BY IntakeAssumption DEF Msgs
<1>2. Wanted(k)
  BY GateStands DEF Wanted
<1>3. Held(k)
  BY <1>2 DEF HeldUpTo
<1> QED BY <1>1, <1>3, HeldStays

(* What a live message passes is settled, in hand, or given up. *)
LEMMA AdvanceHolds ==
  ASSUME IInv, [Next]_vars, ~Crash, NEW m \in Msgs, Advance(m), Wanted(m) => Held(m)
  PROVE  HeldUpTo(cursor)'
<1>1. TypeOK /\ HeldUpTo(cursor)
  BY DEF IInv
<1>2. /\ cursor' \in 0..NMsgs /\ (cursor' = cursor \/ cursor' = m) /\ cursor' >= cursor
      /\ cursor \in Int /\ m \in Int /\ NMsgs \in Nat
  BY <1>1, AdvanceTypes, IntakeAssumption DEF TypeOK, Msgs
<1> SUFFICES ASSUME NEW k \in 1..cursor', Wanted(k)' PROVE Held(k)'
  BY DEF HeldUpTo
<1>3. k \in Msgs /\ k \in Int
  BY <1>2 DEF Msgs
<1>4. Wanted(k)
  BY GateStands DEF Wanted
<1>5. CASE Held(k)
  BY <1>3, <1>5, HeldStays
<1>6. CASE ~Held(k)
  <2>1. k \in (cursor + 1)..m /\ k # m
    <3>1. ~(k \in 1..cursor)
      BY <1>1, <1>4, <1>6 DEF HeldUpTo
    <3>2. k # m
      BY <1>4, <1>6
    <3> QED BY <3>1, <3>2, <1>2, <1>3
  <2>2. k \in lost'
    BY <2>1, <1>4, <1>6 DEF Advance, Held, Settled
  <2> QED BY <2>2 DEF Held, Settled
<1> QED BY <1>5, <1>6

LEMMA CursorHeld ==
  ASSUME IInv, [Next]_vars
  PROVE  HeldUpTo(cursor)'
<1>1. TypeOK /\ Positions /\ HeldUpTo(cursor) /\ TickSettled /\ BackfillKept /\ cursor \in 0..NMsgs
  BY DEF IInv, TypeOK
<1>2. CASE Crash
  <2>1. cursor' = cursor /\ lost' = lost \cup {m \in 1..cursor : InHand(m)}
    BY <1>2 DEF Crash, store
  <2> SUFFICES ASSUME NEW k \in 1..cursor', Wanted(k)' PROVE Held(k)'
    BY DEF HeldUpTo
  <2>2. k \in 1..cursor /\ k \in Msgs
    BY <1>1, <2>1, IntakeAssumption DEF Msgs
  <2>3. Held(k)
    BY <1>1, <2>2, GateStands DEF HeldUpTo, Wanted
  <2>4. CASE Settled(k)
    BY <1>1, <2>2, <2>4, SettledStays DEF Held
  <2>5. CASE InHand(k)
    BY <2>1, <2>2, <2>5 DEF Held, Settled
  <2> QED BY <2>3, <2>4, <2>5 DEF Held
<1>3. CASE ~Crash /\ cursor' = cursor
  BY <1>1, <1>3, HeldUpToStays DEF HeldUpTo
<1>4. ASSUME NEW h \in Handlers, Ticked(h)
      PROVE  HeldUpTo(cursor)'
  <2>1. msg[h] \in Msgs /\ Advance(msg[h]) /\ Settled(msg[h])
    BY <1>1, <1>4 DEF Ticked, Positions, TickSettled, Actors
  <2>2. ~Crash
    <3>1. at[h] = "tick" /\ at'[h] = "idle" /\ UNCHANGED <<up, crashes>>
      BY <1>1, <1>4 DEF Ticked, Leave, TypeOK, Actors, conn, spent
    <3> QED BY <3>1, <1>1 DEF Crash, TypeOK
  <2> QED BY <2>1, <2>2, AdvanceHolds DEF Held
<1>5. ASSUME NEW h \in Handlers, NEW m \in Msgs, Deliver(h, m), cursor' # cursor
      PROVE  HeldUpTo(cursor)'
  <2>1. Advance(m) /\ ~Wanted(m)
    BY <1>5 DEF Deliver
  <2>2. ~Crash
    BY <1>5 DEF Crash, store
  <2> QED BY <2>1, <2>2, AdvanceHolds
<1>6. CASE Finish
  <2>1. cursor' = Max({cursor, reached}) /\ at["backfill"] = "next" /\ UNCHANGED up
    BY <1>6 DEF Finish, conn
  <2>2. cursor' = cursor \/ cursor' = reached
    BY <2>1, <1>1, MaxOfTwo DEF TypeOK
  <2>3. ~Crash
    BY <1>6, <1>1 DEF Crash, Finish, conn, TypeOK
  <2>4. HeldUpTo(reached) /\ reached \in 0..NMsgs
    BY <2>1, <1>1 DEF BackfillKept, Backfilling, TypeOK
  <2>5. CASE cursor' = reached
    BY <2>3, <2>4, <2>5, HeldUpToStays DEF HeldUpTo
  <2> QED BY <2>2, <2>3, <2>5, <1>3
<1>7. cursor' = cursor \/ Finish
        \/ \E h \in Handlers : Ticked(h) \/ \E m \in Msgs : Deliver(h, m)
  BY DEF Next, Handle, BackfillStep, AddPrd, Post, LinkUp, LinkDown, Crash, Boot, Find, Read, Create,
         Backfill, List, NextMsg, vars, store
<1> QED BY <1>2, <1>3, <1>4, <1>5, <1>6, <1>7

(* The gates run for messages that are settled, and settled they stay. *)
LEMMA TickHeld ==
  ASSUME IInv, [Next]_vars
  PROVE  TickSettled'
<1>1. TypeOK /\ Positions /\ TickSettled
  BY DEF IInv
<1> SUFFICES ASSUME NEW h \in Handlers, at'[h] = "tick" PROVE Settled(msg[h])'
  BY DEF TickSettled
<1>2. h \in Actors /\ h # "backfill"
  BY IntakeAssumption DEF Actors
<1>3. CASE at[h] = "tick" /\ msg'[h] = msg[h]
  <2>1. msg[h] \in Msgs /\ Settled(msg[h])
    BY <1>1, <1>2, <1>3 DEF Positions, TickSettled
  <2>2. ASSUME NEW m \in Msgs, m = msg[h], Settled(m) PROVE Settled(m)'
    BY <1>1, <2>2, SettledStays
  <2> QED BY <1>3, <2>1, <2>2 DEF Settled, Registered
<1>4. ASSUME NEW a \in Actors, AddPrd(a)
      PROVE  Settled(msg[h])'
  <2>1. /\ msg' = msg
        /\ at'[a] \in {"read", "create"} \/ (at'[a] = Done(a) /\ Settled(msg[a])')
        /\ \A c \in Actors : c # a => at'[c] = at[c]
    BY <1>1, <1>4, AddPrdHolds
  <2>2. CASE a = h
    BY <2>1, <2>2
  <2>3. CASE a # h
    BY <2>1, <2>3, <1>2, <1>3
  <2> QED BY <2>2, <2>3
<1>5. CASE ~\E a \in Actors : AddPrd(a)
  <2>1. at[h] = "tick" /\ msg'[h] = msg[h]
    <3>1. CASE UNCHANGED <<at, msg>>
      BY <3>1
    <3>2. CASE Crash
      BY <1>2, <3>2 DEF Crash
    <3>3. ASSUME NEW g \in Handlers, Ticked(g)
          PROVE  at[h] = "tick" /\ msg'[h] = msg[h]
      BY <3>3, <1>1, <1>2 DEF Ticked, Leave, TypeOK
    <3>4. ASSUME NEW g \in Handlers, NEW m \in Msgs, Deliver(g, m)
          PROVE  at[h] = "tick" /\ msg'[h] = msg[h]
      BY <3>4, <1>1, <1>2 DEF Deliver, TypeOK
    <3>5. CASE Backfill \/ List \/ NextMsg \/ Finish
      BY <3>5, <1>1, <1>2 DEF Backfill, List, NextMsg, Finish, Goto, Leave, TypeOK
    <3>6. CASE Post \/ LinkUp \/ LinkDown \/ Boot \/ UNCHANGED vars
      BY <3>6 DEF Post, LinkUp, LinkDown, Boot, vars, work
    <3> QED BY <1>5, <3>2, <3>3, <3>4, <3>5, <3>6 DEF Next, Handle, BackfillStep, Actors
  <2> QED BY <2>1, <1>3
<1> QED BY <1>4, <1>5

(* The history the backfill reads is whole from the cursor on, as far as it goes. *)
LEMMA ListedFromCursor ==
  ASSUME TypeOK, NewestFirst = FALSE, List
  PROVE  \E n \in Int : todo' = (reached + 1)..n
<1>1. reached \in Int /\ posted \in Int
  BY DEF TypeOK
<1>2. CASE todo' = (reached + 1)..posted
  BY <1>1, <1>2
<1>3. CASE \E k \in (reached + 1)..posted : todo' = {m \in (reached + 1)..posted : m < k}
  <2>1. PICK k \in (reached + 1)..posted : todo' = {m \in (reached + 1)..posted : m < k}
    BY <1>3
  <2>2. k - 1 \in Int /\ {m \in (reached + 1)..posted : m < k} = (reached + 1)..(k - 1)
    BY <1>1
  <2> QED BY <2>1, <2>2
<1> QED BY <1>2, <1>3 DEF List

LEMMA BackfillHeld ==
  ASSUME IInv, [Next]_vars, NewestFirst = FALSE
  PROVE  BackfillKept'
<1>1. /\ TypeOK /\ Positions /\ HeldUpTo(cursor) /\ BackfillKept
      /\ cursor \in 0..NMsgs /\ reached \in 0..NMsgs
  BY DEF IInv, TypeOK
<1> DEFINE b == "backfill"
<1>2. b \in Actors
  BY DEF Actors
<1>3. CASE Crash
  BY <1>2, <1>3 DEF Crash, BackfillKept, Backfilling
<1>4. ASSUME ~Crash, UNCHANGED <<reached, todo>>, at'[b] = at[b], msg'[b] = msg[b], cursor' >= cursor
      PROVE  BackfillKept'
  <2>1. at'[b] = "list" => reached' <= cursor'
    <3>1. cursor' \in Int
      BY <1>1, TypeStep DEF TypeOK
    <3> QED BY <3>1, <1>1, <1>4 DEF BackfillKept
  <2>2. Backfilling' => Backfilling
    BY <1>4 DEF Backfilling
  <2>3. Backfilling => HeldUpTo(reached)'
    <3>1. Backfilling => HeldUpTo(reached)
      BY <1>1 DEF BackfillKept
    <3>2. ASSUME NEW n \in 0..NMsgs, n = reached, HeldUpTo(n) PROVE HeldUpTo(n)'
      BY <1>4, <3>2, HeldUpToStays
    <3> QED BY <3>1, <3>2, <1>1, <1>4 DEF HeldUpTo
  <2> QED BY <2>1, <2>2, <2>3, <1>1, <1>4 DEF BackfillKept, Backfilling
<1>5. ASSUME AddPrd(b)
      PROVE  BackfillKept'
  <2>1. ~Crash /\ UNCHANGED <<reached, todo, cursor>>
    BY <1>5, <1>1, <1>2 DEF AddPrd, Find, Read, Create, Goto, Crash, TypeOK, spent, store
  <2>2. msg' = msg /\ at[b] \in {"find", "read", "create"} /\ at'[b] \in {"read", "create", "next"}
    BY <1>5, <1>1, <1>2, AddPrdHolds DEF Done
  <2>3. HeldUpTo(reached)'
    <3>1. HeldUpTo(reached)
      BY <1>1, <2>2 DEF BackfillKept, Backfilling
    <3>2. ASSUME NEW n \in 0..NMsgs, n = reached, HeldUpTo(n) PROVE HeldUpTo(n)'
      BY <2>1, <3>2, HeldUpToStays
    <3> QED BY <3>1, <3>2, <1>1, <2>1 DEF HeldUpTo
  <2> QED BY <2>1, <2>2, <2>3, <1>1 DEF BackfillKept, Backfilling
<1>6. CASE Backfill
  BY <1>1, <1>2, <1>6 DEF Backfill, Goto, BackfillKept, Backfilling, TypeOK, store
<1>7. CASE List
  <2>1. ~Crash /\ UNCHANGED <<reached, msg>> /\ at[b] = "list" /\ at'[b] = "next"
    BY <1>7, <1>1, <1>2 DEF List, Goto, Crash, TypeOK
  <2>2. HeldUpTo(reached)
    BY <2>1, <1>1 DEF BackfillKept, HeldUpTo
  <2>3. HeldUpTo(reached)'
    <3>1. ASSUME NEW n \in 0..NMsgs, n = reached, HeldUpTo(n) PROVE HeldUpTo(n)'
      BY <2>1, <3>1, HeldUpToStays
    <3> QED BY <3>1, <2>1, <2>2, <1>1 DEF HeldUpTo
  <2>4. \E n \in Int : todo' = (reached' + 1)..n
    BY <2>1, <1>1, <1>7, ListedFromCursor
  <2> QED BY <2>1, <2>3, <2>4 DEF BackfillKept, Backfilling
<1>8. CASE NextMsg
  <2>0. at[b] = "next" /\ todo # {}
    BY <1>8 DEF NextMsg
  <2>8. PICK m \in Msgs : m = Min(todo)
    BY <2>0, <1>1, MinTodo
  <2>1. todo' = todo \ {m} /\ reached' = m
    BY <1>8, <2>8 DEF NextMsg
  <2>2. m = reached + 1 /\ \E n \in Int : todo' = (m + 1)..n
    BY <2>0, <2>1, <2>8, <1>1, MinTodo
  <2>3. \/ ~Wanted(m) /\ at'[b] = "next"
        \/ at'[b] = "find" /\ msg'[b] = m
    BY <1>8, <1>1, <1>2, <2>8 DEF NextMsg, Wanted, TypeOK
  <2>4. ~Crash
    BY <1>8, <2>0, <2>3, <1>2 DEF Crash
  <2>5. HeldUpTo(m)'
    <3> SUFFICES ASSUME NEW k \in 1..m, Wanted(k)' PROVE Held(k)'
      BY DEF HeldUpTo
    <3>1. k \in Msgs /\ k \in Int
      BY IntakeAssumption DEF Msgs
    <3>4. Wanted(k)
      BY GateStands DEF Wanted
    <3>2. CASE k = m
      BY <2>3, <3>4, <3>2, <1>2 DEF Held, InHand, Wanted
    <3>3. CASE k # m
      <4>1. Held(k)
        BY <3>1, <3>3, <3>4, <2>0, <2>2, <1>1 DEF BackfillKept, Backfilling, HeldUpTo
      <4> QED BY <4>1, <3>1, <2>4, HeldStays
    <3> QED BY <3>2, <3>3
  <2>6. HeldUpTo(reached)'
    BY <2>1, <2>5 DEF HeldUpTo
  <2>7. \E n \in Int : todo' = (reached' + 1)..n
    BY <2>1, <2>2
  <2> QED BY <2>0, <2>1, <2>3, <2>6, <2>7 DEF BackfillKept, Backfilling
<1>9. CASE Finish
  BY <1>1, <1>2, <1>9 DEF Finish, Leave, BackfillKept, Backfilling, TypeOK
<1>10. CASE Post \/ LinkUp \/ LinkDown \/ Boot \/ UNCHANGED vars
  <2>1. UNCHANGED <<at, msg, todo, reached, cursor>> /\ ~Crash
    BY <1>10, <1>1 DEF Post, LinkUp, LinkDown, Boot, vars, work, store, spent, Crash, TypeOK
  <2> QED BY <2>1, <1>1, <1>4
<1>11. ASSUME NEW h \in Handlers, Handle(h)
       PROVE  BackfillKept'
  <2>1. h \in Actors /\ h # b
    BY IntakeAssumption DEF Actors
  <2>2. CASE AddPrd(h)
    <3>1. ~Crash /\ UNCHANGED <<msg, reached, todo, cursor>>
      BY <2>2, <1>1, <2>1 DEF AddPrd, Find, Read, Create, Goto, Crash, TypeOK, spent, store
    <3>2. at'[b] = at[b]
      BY <2>1, <2>2, <1>1, <1>2, AddPrdHolds
    <3> QED BY <3>1, <3>2, <1>1, <1>4
  <2>3. CASE Ticked(h)
    <3>1. UNCHANGED <<reached, todo>> /\ at'[b] = at[b] /\ msg'[b] = msg[b] /\ ~Crash
      BY <2>1, <2>3, <1>1, <1>2 DEF Ticked, Leave, Crash, TypeOK, spent
    <3>2. cursor' >= cursor
      <4>1. msg[h] \in Msgs /\ Advance(msg[h])
        BY <2>1, <2>3, <1>1 DEF Ticked, Positions
      <4> QED BY <4>1, <1>1, AdvanceTypes
    <3> QED BY <3>1, <3>2, <1>4
  <2> QED BY <1>11, <2>2, <2>3 DEF Handle
<1>12. ASSUME NEW h \in Handlers, NEW m \in Msgs, Deliver(h, m)
       PROVE  BackfillKept'
  <2>1. h \in Actors /\ h # b
    BY IntakeAssumption DEF Actors
  <2>2. UNCHANGED <<reached, todo>> /\ at'[b] = at[b] /\ msg'[b] = msg[b] /\ ~Crash
    BY <2>1, <1>12, <1>1, <1>2 DEF Deliver, Crash, TypeOK
  <2>3. cursor' >= cursor
    <3>1. cursor' = cursor \/ Advance(m)
      BY <1>12 DEF Deliver
    <3> QED BY <3>1, <1>1, AdvanceTypes
  <2> QED BY <2>2, <2>3, <1>4
<1> QED BY <1>3, <1>5, <1>6, <1>7, <1>8, <1>9, <1>10, <1>11, <1>12
        DEF Next, BackfillStep

-----------------------------------------------------------------------------
(***************************************************************************)
(* The theorems.                                                           *)
(***************************************************************************)
LEMMA InitInv == Init => IInv
<1> SUFFICES ASSUME Init PROVE IInv
  OBVIOUS
<1> USE IntakeAssumption DEF Init
<1>1. TypeOK
  <2>1. at \in [Actors -> {"idle", "list", "next", "find", "read", "create", "tick"}]
    OBVIOUS
  <2>2. msg \in [Actors -> Msgs \cup {NoMsg}] /\ made \in [Docs -> Nat]
    OBVIOUS
  <2>3. posted \in 0..NMsgs /\ reached \in 0..NMsgs /\ cursor \in 0..NMsgs
    OBVIOUS
  <2>4. crashes \in 0..MaxCrashes /\ failures \in 0..MaxFailures /\ repeats \in 0..MaxRepeats
    OBVIOUS
  <2> QED BY <2>1, <2>2, <2>3, <2>4 DEF TypeOK
<1>2. Positions /\ TickSettled /\ BackfillKept
  BY DEF Positions, TickSettled, BackfillKept, Backfilling, Actors
<1>3. HeldUpTo(cursor)
  BY DEF HeldUpTo
<1> QED BY <1>1, <1>2, <1>3 DEF IInv

(* TypeOK: every variable keeps its type, with both orders of a history    *)
(* that breaks off.                                                        *)
THEOREM TypeCorrect == Spec => [](TypeOK /\ Positions)
<1>1. Init => TypeOK /\ Positions
  BY InitInv DEF IInv
<1>2. TypeOK /\ Positions /\ [Next]_vars => (TypeOK /\ Positions)'
  BY TypeStep, PositionStep
<1> QED BY <1>1, <1>2, PTL DEF Spec

(* IInv is inductive where a history that breaks off has its oldest part,  *)
(* which is what fetchHistory returns of Feishu: the backfill then never   *)
(* leaves a message out below the one it is at.                            *)
THEOREM Invariant == ASSUME NewestFirst = FALSE PROVE Spec => []IInv
<1>1. Init => IInv
  BY InitInv
<1>2. IInv /\ [Next]_vars => IInv'
  <2> SUFFICES ASSUME IInv, [Next]_vars PROVE IInv'
    OBVIOUS
  <2>1. TypeOK' /\ Positions'
    BY TypeStep, PositionStep DEF IInv
  <2>2. TickSettled' /\ BackfillKept' /\ HeldUpTo(cursor)'
    BY TickHeld, BackfillHeld, CursorHeld
  <2> QED BY <2>1, <2>2 DEF IInv
<1> QED BY <1>1, <1>2, PTL DEF Spec

(* NothingForgotten: the cursor, below which nothing is read again, passes *)
(* a requirement only when it is registered, in hand or given up, however  *)
(* live messages, the backfill and crashes interleave.                     *)
THEOREM RequirementsAccounted == ASSUME NewestFirst = FALSE PROVE Spec => []NothingForgotten
<1>1. IInv => NothingForgotten
  BY DEF IInv, HeldUpTo, Held, Settled, NothingForgotten
<1> QED BY <1>1, Invariant, PTL

(* NeverTwice: a document has at most one session over whichever paths it  *)
(* arrives, because the insert is refused, and not because the look-up     *)
(* before it is still true.                                                *)
THEOREM OneSessionEach == Spec => []NeverTwice
<1> DEFINE Once == made \in [Docs -> 0..1]
<1>1. Init => Once
  BY DEF Init
<1>2. Once /\ [Next]_vars => Once'
  <2> SUFFICES ASSUME Once, [Next]_vars PROVE Once'
    OBVIOUS
  <2>1. ASSUME NEW d, Insert(d) PROVE Once'
    <3>1. made' = made \/ made' = [made EXCEPT ![d] = 1]
      BY <2>1 DEF Insert
    <3>2. CASE made' = [made EXCEPT ![d] = 1]
      <4>1. DOMAIN made' = Docs /\ made' = [x \in Docs |-> made'[x]]
        BY <3>2
      <4>2. \A x \in Docs : made'[x] \in 0..1
        BY <3>2
      <4> QED BY <4>1, <4>2
    <3> QED BY <3>1, <3>2
  <2>2. UNCHANGED made \/ \E a \in Actors : Create(a)
    BY DEF Next, Handle, BackfillStep, AddPrd, Post, LinkUp, LinkDown, Crash, Boot, Find, Read,
           Deliver, Ticked, Backfill, List, NextMsg, Finish, vars, store, Actors
  <2> QED BY <2>1, <2>2 DEF Create
<1>3. Once => NeverTwice
  BY DEF NeverTwice
<1> QED BY <1>1, <1>2, <1>3, PTL DEF Spec

(* CursorForward: no step of the handlers, the backfill or a crash moves   *)
(* the cursor back, in whatever order they finish.                         *)
THEOREM CursorNeverBack == Spec => CursorForward
<1>1. TypeOK /\ Positions /\ [Next]_vars => [cursor' >= cursor]_vars
  <2> SUFFICES ASSUME TypeOK, Positions, [Next]_vars PROVE cursor' >= cursor
    OBVIOUS
  <2>1. cursor \in Int /\ reached \in Int
    BY DEF TypeOK
  <2>2. ASSUME NEW m \in Msgs, Advance(m) PROVE cursor' >= cursor
    BY <2>2, AdvanceTypes
  <2>3. ASSUME NEW h \in Handlers, Ticked(h) PROVE cursor' >= cursor
    <3>1. msg[h] \in Msgs /\ Advance(msg[h])
      BY <2>3 DEF Ticked, Positions, Actors
    <3> QED BY <3>1, <2>2
  <2>4. ASSUME NEW h \in Handlers, NEW m \in Msgs, Deliver(h, m) PROVE cursor' >= cursor
    <3>1. cursor' = cursor \/ Advance(m)
      BY <2>4 DEF Deliver
    <3> QED BY <3>1, <2>1, <2>2
  <2>5. CASE Finish
    BY <2>1, <2>5, MaxOfTwo DEF Finish
  <2>6. UNCHANGED cursor \/ Finish \/ (\E h \in Handlers : Ticked(h) \/ \E m \in Msgs : Deliver(h, m))
    BY DEF Next, Handle, BackfillStep, AddPrd, Post, LinkUp, LinkDown, Crash, Boot, Find, Read,
           Create, Backfill, List, NextMsg, vars, store
  <2> QED BY <2>1, <2>3, <2>4, <2>5, <2>6
<1> QED BY <1>1, TypeCorrect, PTL DEF Spec, CursorForward
=============================================================================

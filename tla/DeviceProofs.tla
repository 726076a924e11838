---------------------------- MODULE DeviceProofs ----------------------------
(***************************************************************************)
(* Proofs about the two ends of the device protocol: the agent on the      *)
(* device, DeviceAgent, and the Hub that queues its jobs, DeviceHub.       *)
(***************************************************************************)
EXTENDS DeviceAgent, DeviceHub, FiniteSetTheorems, TLAPS

(***************************************************************************)
(* The least and the greatest number of a set: the finite sets 0..n are    *)
(* well ordered by inclusion.                                              *)
(***************************************************************************)
LEMMA LeastExists ==
  ASSUME NEW S, S \subseteq Nat, S # {}
  PROVE  Min(S) \in S /\ \A n \in S : Min(S) <= n
<1> DEFINE T == {0..n : n \in S}
<1>1. T # {} /\ T \subseteq FiniteSubsetsOf(Nat)
  <2>1. \A n \in Nat : IsFiniteSet(0..n) /\ 0..n \in SUBSET Nat
    BY FS_Interval
  <2> QED BY <2>1 DEF FiniteSubsetsOf
<1>2. PICK x \in T : \A y \in T : <<y, x>> \notin StrictSubsetOrdering(Nat)
  <2> HIDE DEF T
  <2> QED BY <1>1, FS_StrictSubsetOrderingWellFounded, WFMin, Zenon
<1>3. PICK m \in S : x = 0..m
  OBVIOUS
<1>4. ASSUME NEW n \in S, ~(m <= n) PROVE FALSE
  <2>1. n \in Nat /\ m \in Nat /\ n < m
    BY <1>4
  <2>2. 0..n \subseteq 0..m /\ 0..n # 0..m
    <3>1. m \in 0..m /\ m \notin 0..n
      BY <2>1
    <3> QED BY <2>1, <3>1
  <2>3. 0..n \in SUBSET Nat /\ 0..m \in SUBSET Nat
    BY <2>1
  <2>4. <<0..n, 0..m>> \in StrictSubsetOrdering(Nat)
    BY <2>2, <2>3 DEF StrictSubsetOrdering
  <2> QED BY <1>2, <1>3, <2>4
<1>5. \A n \in S : m <= n
  BY <1>4
<1> QED BY <1>5 DEF Min

LEMMA GreatestExists ==
  ASSUME NEW S, NEW bound \in Nat, S \subseteq 0..bound, S # {}
  PROVE  Max(S) \in S /\ \A n \in S : n <= Max(S)
<1> DEFINE T == {bound - n : n \in S}
<1>1. T \subseteq Nat /\ T # {}
  <2>1. \A n \in S : bound - n \in Nat
    OBVIOUS
  <2> QED BY <2>1
<1>2. Min(T) \in T /\ \A n \in T : Min(T) <= n
  BY <1>1, LeastExists
<1>3. PICK m \in S : Min(T) = bound - m
  BY <1>2
<1>4. \A n \in S : Min(T) <= bound - n
  BY <1>2
<1> HIDE DEF T
<1>5. ASSUME NEW n \in S PROVE n <= m
  <2>1. n \in Int /\ m \in Int /\ bound - m <= bound - n
    BY <1>3, <1>4
  <2> QED BY <2>1
<1> QED BY <1>3, <1>5 DEF Max

-----------------------------------------------------------------------------
(***************************************************************************)
(* The device agent.  A job that is being handled has its entry, and no    *)
(* handler is under way without a connection.                              *)
(***************************************************************************)
AtRest ==
  /\ pc # "idle" => conn = "online" /\ cur \in Jobs /\ mem[cur] # None
  /\ conn = "dead" => mem = [j \in Jobs |-> None]

\* the entries in memory are those of the files, although not their contents
InStep == conn # "dead" => \A j \in Jobs : mem[j] = None <=> disk[j] = None

Answered(j) == runs[j] > 0 \/ answers[j] # {}

Unissued ==
  \A j \in Jobs : issued[j] = Never =>
    disk[j] = None /\ mem[j] = None /\ ~Answered(j) /\ (pc # "idle" => cur # j)

\* an entry is kept until its job expires
Dated ==
  \A j \in Jobs :
    /\ disk[j].kept # Never => disk[j].kept = Expires(j)
    /\ mem[j].kept # Never => mem[j].kept = Expires(j)

\* what ran or was answered is in the journal until it can run no more
Remembered == \A j \in Jobs \ blind : Answered(j) => disk[j] # None \/ now >= Expires(j)

\* the job that the gates let through is a new one
Unrun == pc = "run" /\ ~Refused /\ cur \notin blind => ~Answered(cur)

IInv == TypeOK /\ AtRest /\ InStep /\ Unissued /\ Dated /\ Remembered /\ Unrun /\ RunsAtMostOnce

LEMMA EntryTyped ==
  /\ None \notin Entry /\ Torn \notin Entry /\ None # Torn
  /\ \A e \in Entry : \A r \in Results : [e EXCEPT !.result = r] \in Entry
BY DEF None, Torn, Entry, Results

LEMMA NowTyped == TypeOK => now \in Times /\ now \in Int /\ \A j \in Jobs : Expires(j) \in Int
BY DeviceAssumption DEF TypeOK, now, Times, Expires, Never

LEMMA LoadedTyped == TypeOK => \A j \in Jobs : Loaded(j) \in Entry \cup {None}
<1> SUFFICES ASSUME TypeOK, NEW j \in Jobs PROVE Loaded(j) \in Entry \cup {None}
  OBVIOUS
<1>1. [at |-> now, kept |-> Never, result |-> "none"] \in Entry
  BY NowTyped DEF Entry, Results
<1> QED BY <1>1 DEF Loaded, TypeOK

LEMMA NewEntryTyped ==
  ASSUME TypeOK, NEW j \in Jobs, issued[j] # Never
  PROVE  NewEntry(j) \in Entry
<1>1. Expires(j) \in 0..(MaxTime + Life)
  BY DeviceAssumption DEF TypeOK, Expires
<1> QED BY <1>1, NowTyped DEF NewEntry, Entry, Results

LEMMA NewEventTyped ==
  ASSUME TypeOK, NewEvent
  PROVE  /\ events' \in 0..MaxEvents /\ faults' \in 0..MaxFaults /\ spool' \subseteq Items
         /\ spool \subseteq spool'
<1>1. events' \in 1..MaxEvents
  BY DeviceAssumption DEF NewEvent, TypeOK
<1>2. Event(events + 1) \in Items
  BY <1>1 DEF NewEvent, Event, Items
<1>3. faults' \in 0..MaxFaults
  BY DeviceAssumption DEF NewEvent, Works, Breaks, TypeOK
<1> QED BY <1>1, <1>2, <1>3 DEF NewEvent, TypeOK

LEMMA FaultTyped == TypeOK /\ (Works \/ Breaks) => faults' \in 0..MaxFaults
BY DeviceAssumption DEF TypeOK, Works, Breaks

LEMMA TypeStep == TypeOK /\ AtRest /\ [Next]_vars => TypeOK'
<1> SUFFICES ASSUME TypeOK, AtRest, [Next]_vars PROVE TypeOK'
  OBVIOUS
<1> USE DEF journal, job, queue, hooks, cloud, past, bounds
<1>1. CASE Start
  <2>1. \A j \in Jobs : Loaded(j) \in Entry \cup {None}
    BY LoadedTyped
  <2> QED BY <1>1, <2>1 DEF Start, TypeOK
<1>2. CASE Open \/ Lose
  BY <1>2 DEF Open, Lose, SpooledEvents, TypeOK
<1>3. CASE Refuse
  <2>1. mem[cur] \in Entry /\ "rejected" \in Results
    BY <1>3 DEF Refuse, AtRest, TypeOK, Results
  <2> QED BY <1>3, <2>1, EntryTyped DEF Refuse, Result, TypeOK
<1>4. CASE Execute
  <2>1. cur \in Jobs /\ mem[cur] \in Entry /\ {"done", "failed"} \subseteq Results
    BY <1>4 DEF Execute, AtRest, TypeOK, Results
  <2>2. faults' \in 0..MaxFaults
    BY <1>4, FaultTyped DEF Execute
  <2>3. runs' \in [Jobs -> Nat]
    BY <1>4, <2>1 DEF Execute, TypeOK
  <2>4. mem' \in [Jobs -> Entry \cup {None}]
    <3>1. PICK result \in Results : mem' = [mem EXCEPT ![cur].result = result]
      BY <1>4, <2>1 DEF Execute, Result
    <3>2. [mem[cur] EXCEPT !.result = result] \in Entry
      BY <2>1, EntryTyped
    <3> QED BY <2>1, <3>1, <3>2 DEF TypeOK
  <2> QED BY <1>4, <2>2, <2>3, <2>4 DEF Execute, TypeOK
<1>5. CASE Emit
  BY <1>5, NewEventTyped DEF Emit, TypeOK
<1>6. CASE Finish
  <2>1. mem[cur] \in Entry /\ "none" \in Results /\ cur \in Jobs /\ mem[cur].result \in Results
    BY <1>6 DEF Finish, AtRest, TypeOK, Results, Entry
  <2>2. faults' \in 0..MaxFaults
    BY <1>6, FaultTyped DEF Finish
  <2>3. mem' \in [Jobs -> Entry \cup {None}] /\ disk' \in [Jobs -> Entry \cup {None, Torn}]
    BY <1>6, <2>1, EntryTyped DEF Finish, Record, Result, TypeOK
  <2>4. answers' \in [Jobs -> SUBSET Results]
    BY <1>6, <2>1 DEF Finish, TypeOK
  <2> QED BY <1>6, <2>2, <2>3, <2>4 DEF Finish, Idle, TypeOK
<1>7. CASE Reply
  <2>1. cur \in Jobs /\ mem[cur].result \in Results
    BY <1>7 DEF Reply, AtRest, TypeOK, Results, Entry
  <2>2. answers' \in [Jobs -> SUBSET Results]
    BY <1>7, <2>1 DEF Reply, TypeOK
  <2> QED BY <1>7, <2>2 DEF Reply, Idle, SpooledEvents, TypeOK
<1>8. ASSUME NEW j \in Jobs, Issue(j) PROVE TypeOK'
  BY <1>8 DEF Issue, TypeOK
<1>9. ASSUME NEW j \in Jobs, Journal(j) PROVE TypeOK'
  <2>1. NewEntry(j) \in Entry
    BY <1>9, NewEntryTyped DEF Journal, Arrives
  <2>2. faults' \in 0..MaxFaults
    BY <1>9, FaultTyped DEF Journal
  <2> QED BY <1>9, <2>1, <2>2 DEF Journal, Record, TypeOK
<1>10. ASSUME NEW j \in Jobs, Duplicate(j) PROVE TypeOK'
  <2>1. PICK result \in Results :
          /\ \/ Record(j, [mem[j] EXCEPT !.result = result])
             \/ UNCHANGED journal
          /\ \/ answers' = [answers EXCEPT ![j] = @ \cup {result}] /\ UNCHANGED conn
             \/ UNCHANGED answers /\ conn' = "offline"
    <3>1. mem[j].result \in Results /\ "failed" \in Results
      BY <1>10 DEF Duplicate, TypeOK, Results, Entry
    <3> QED BY <1>10, <3>1 DEF Duplicate
  <2>2. mem[j] \in Entry
    BY <1>10 DEF Duplicate, TypeOK
  <2>3. faults' \in 0..MaxFaults
    BY <1>10, FaultTyped DEF Duplicate
  <2>4. mem' \in [Jobs -> Entry \cup {None}] /\ disk' \in [Jobs -> Entry \cup {None, Torn}]
    BY <2>1, <2>2, EntryTyped DEF Record, TypeOK
  <2>5. answers' \in [Jobs -> SUBSET Results] /\ conn' \in {"dead", "offline", "online"}
    BY <2>1 DEF TypeOK
  <2> QED BY <1>10, <2>3, <2>4, <2>5 DEF Duplicate, TypeOK
<1>11. ASSUME NEW j \in Jobs, Damage(j) PROVE TypeOK'
  <2>1. faults' \in 0..MaxFaults
    BY <1>11, FaultTyped DEF Damage
  <2> QED BY <1>11, <2>1 DEF Damage, TypeOK
<1>12. ASSUME NEW e \in received, Acknowledged(e) PROVE TypeOK'
  <2>1. faults' \in 0..MaxFaults
    BY <1>12, FaultTyped DEF Acknowledged
  <2> QED BY <1>12, <2>1 DEF Acknowledged, TypeOK
<1>13. CASE Pause \/ Resume
  BY <1>13, NewEventTyped DEF Pause, Resume, TypeOK
<1>14. CASE Hook
  <2>1. reports' \in 1..MaxReports /\ reports' = reports + 1
    BY <1>14, DeviceAssumption DEF Hook, TypeOK
  <2>2. Report(reports + 1) \in Items
    BY <2>1 DEF Report, Items
  <2>3. spool' \subseteq Items /\ late' \subseteq 1..MaxReports /\ session' \in 0..MaxReports
    <3>1. spool' \subseteq Items
      BY <1>14, <2>2 DEF Hook, TypeOK
    <3>2. late' = late \/ late' = late \cup {reports + 1}
      BY <1>14 DEF Hook
    <3>3. session' \in {session, reports + 1}
      BY <1>14 DEF Hook, RecordSession
    <3>4. late' \subseteq 1..MaxReports
      BY <2>1, <3>2 DEF TypeOK
    <3>5. session' \in 0..MaxReports
      BY <2>1, <3>3, DeviceAssumption DEF TypeOK
    <3> QED BY <3>1, <3>4, <3>5
  <2> QED BY <1>14, <2>1, <2>3 DEF Hook, TypeOK
<1>15. CASE Drain
  <2> DEFINE S == {i[2] : i \in SpooledReports}
  <2>1. S \subseteq 0..MaxReports /\ S # {}
    BY <1>15 DEF Drain, SpooledReports, TypeOK, Items
  <2>2. Max(S) \in 0..MaxReports
    BY <2>1, GreatestExists, DeviceAssumption
  <2>3. session' \in 0..MaxReports
    BY <1>15, <2>2 DEF Drain, RecordSession, TypeOK
  <2>4. faults' \in 0..MaxFaults
    BY <1>15, FaultTyped DEF Drain
  <2> QED BY <1>15, <2>3, <2>4 DEF Drain, TypeOK
<1>16. ASSUME NEW n \in late, HandleLate(n) PROVE TypeOK'
  BY <1>16, DeviceAssumption DEF HandleLate, RecordSession, TypeOK
<1>17. CASE Tick
  BY <1>17, DeviceAssumption DEF Tick, TypeOK
<1>18. CASE Die
  BY <1>18, DeviceAssumption DEF Die, Idle, TypeOK
<1>19. CASE UNCHANGED vars
  BY <1>19 DEF vars, TypeOK
<1> QED BY <1>1, <1>2, <1>3, <1>4, <1>5, <1>6, <1>7, <1>8, <1>9, <1>10, <1>11, <1>12, <1>13,
           <1>14, <1>15, <1>16, <1>17, <1>18, <1>19 DEF Next, Step

LEMMA AtRestStep == TypeOK /\ AtRest /\ [Next]_vars => AtRest'
<1> SUFFICES ASSUME TypeOK, AtRest, [Next]_vars PROVE AtRest'
  OBVIOUS
<1> USE DEF journal, job, queue, hooks, cloud, past, bounds
<1>1. CASE Start
  BY <1>1 DEF Start, AtRest
<1>2. CASE Open \/ Lose
  BY <1>2 DEF Open, Dialling, Lose, AtRest
<1>3. CASE Refuse
  <2>1. mem'[cur] # None
    BY <1>3, EntryTyped DEF Refuse, Result, AtRest, TypeOK, None, Results
  <2> QED BY <1>3, <2>1 DEF Refuse, AtRest
<1>4. CASE Execute
  <2>1. cur \in Jobs /\ mem[cur] \in Entry /\ {"done", "failed"} \subseteq Results
    BY <1>4 DEF Execute, AtRest, TypeOK, Results
  <2>2. PICK result \in Results : mem' = [mem EXCEPT ![cur].result = result]
    BY <1>4, <2>1 DEF Execute, Result
  <2>3. mem'[cur] # None
    BY <2>1, <2>2, EntryTyped DEF TypeOK
  <2> QED BY <1>4, <2>3 DEF Execute, AtRest
<1>5. CASE Emit
  BY <1>5 DEF Emit, AtRest
<1>6. CASE Finish
  BY <1>6 DEF Finish, Record, Idle, AtRest, TypeOK
<1>7. CASE Reply
  BY <1>7 DEF Reply, Idle, AtRest
<1>8. ASSUME NEW j \in Jobs, Issue(j) \/ Damage(j) PROVE AtRest'
  BY <1>8 DEF Issue, Damage, AtRest
<1>9. ASSUME NEW j \in Jobs, Journal(j) PROVE AtRest'
  <2>1. NewEntry(j) # None
    BY <1>9, NewEntryTyped, EntryTyped DEF Journal, Arrives
  <2> QED BY <1>9, <2>1 DEF Journal, Arrives, Record, AtRest, TypeOK
<1>10. ASSUME NEW j \in Jobs, Duplicate(j) PROVE AtRest'
  BY <1>10 DEF Duplicate, Arrives, AtRest
<1>11. CASE Pause \/ Resume \/ Hook \/ Drain \/ Tick \/ UNCHANGED vars
  BY <1>11 DEF Pause, Resume, Hook, Drain, Tick, vars, AtRest
<1>12. ASSUME NEW e \in received, Acknowledged(e) PROVE AtRest'
  BY <1>12 DEF Acknowledged, AtRest
<1>13. ASSUME NEW n \in late, HandleLate(n) PROVE AtRest'
  BY <1>13 DEF HandleLate, AtRest
<1>14. CASE Die
  BY <1>14 DEF Die, Idle, AtRest
<1> QED BY <1>1, <1>2, <1>3, <1>4, <1>5, <1>6, <1>7, <1>8, <1>9, <1>10, <1>11, <1>12, <1>13, <1>14
        DEF Next, Step

-----------------------------------------------------------------------------
(***************************************************************************)
(* What each action does to the journal, the runs and the answers.         *)
(***************************************************************************)
tracked == <<clock, issued, disk, mem, cur, runs, blind, answers>>

Elsewhere ==
  \/ Open \/ Lose \/ Emit \/ Pause \/ Resume \/ Hook \/ Drain
  \/ (\E e \in received : Acknowledged(e)) \/ (\E n \in late : HandleLate(n))
  \/ UNCHANGED vars

LEMMA ElsewhereKeeps ==
  Elsewhere => UNCHANGED tracked /\ pc' \in {pc, "finish"} /\ (conn' = "dead" <=> conn = "dead")
<1> USE DEF journal, job, queue, hooks, cloud, past, bounds
<1>1. CASE Open \/ Lose \/ Emit \/ UNCHANGED vars
  BY <1>1 DEF Open, Dialling, Lose, Emit, vars, tracked
<1>2. CASE Pause \/ Resume \/ Hook \/ Drain
  BY <1>2 DEF Pause, Resume, Hook, Drain, tracked
<1>3. ASSUME NEW e \in received, Acknowledged(e) PROVE UNCHANGED <<tracked, pc, conn>>
  BY <1>3 DEF Acknowledged, tracked
<1>4. ASSUME NEW n \in late, HandleLate(n) PROVE UNCHANGED <<tracked, pc, conn>>
  BY <1>4 DEF HandleLate, tracked
<1> QED BY <1>1, <1>2, <1>3, <1>4 DEF Elsewhere

\* a step on the current job changes the result of its entry in memory, and may
\* write that entry
LEMMA StepEffect ==
  ASSUME TypeOK, AtRest, Refuse \/ Execute \/ Finish \/ Reply
  PROVE  /\ cur \in Jobs /\ mem[cur] \in Entry /\ pc # "idle" /\ conn = "online" /\ conn' # "dead"
         /\ UNCHANGED <<clock, issued, blind>> /\ pc' # "run"
         /\ \E entry \in Entry :
              /\ entry.kept = mem[cur].kept
              /\ mem' = [mem EXCEPT ![cur] = entry]
              /\ disk' = disk \/ disk' = [disk EXCEPT ![cur] = entry]
         /\ \A j \in Jobs : j # cur => runs'[j] = runs[j] /\ answers'[j] = answers[j]
         /\ cur' \in {cur, "none"}
<1> USE DEF journal, job, queue, hooks, cloud, past, bounds
<1>1. cur \in Jobs /\ mem[cur] \in Entry /\ pc # "idle" /\ conn = "online"
  BY DEF Refuse, Execute, Finish, Reply, AtRest, TypeOK
<1>2. /\ conn' # "dead" /\ UNCHANGED <<clock, issued, blind>> /\ pc' # "run"
      /\ cur' \in {cur, "none"}
  BY <1>1 DEF Refuse, Execute, Finish, Reply, Idle
<1>3. \A j \in Jobs : j # cur => runs'[j] = runs[j] /\ answers'[j] = answers[j]
  BY <1>1 DEF Refuse, Execute, Finish, Reply, TypeOK
<1>4. \E entry \in Entry :
        /\ entry.kept = mem[cur].kept
        /\ mem' = [mem EXCEPT ![cur] = entry]
        /\ disk' = disk \/ disk' = [disk EXCEPT ![cur] = entry]
  <2>1. CASE mem' = mem /\ disk' = disk
    <3>1. mem' = [mem EXCEPT ![cur] = mem[cur]]
      BY <1>1, <2>1 DEF TypeOK
    <3> QED BY <1>1, <2>1, <3>1
  <2>2. CASE mem' = [mem EXCEPT ![cur] = mem[cur]] /\ disk' = [disk EXCEPT ![cur] = mem[cur]]
    BY <1>1, <2>2
  <2>3. ASSUME NEW result \in Results, disk' = disk, mem' = [mem EXCEPT ![cur].result = result]
        PROVE  \E entry \in Entry :
                 /\ entry.kept = mem[cur].kept
                 /\ mem' = [mem EXCEPT ![cur] = entry]
                 /\ disk' = disk \/ disk' = [disk EXCEPT ![cur] = entry]
    <3> DEFINE entry == [mem[cur] EXCEPT !.result = result]
    <3>1. entry \in Entry /\ entry.kept = mem[cur].kept
      BY <1>1, EntryTyped DEF Entry
    <3>2. mem' = [mem EXCEPT ![cur] = entry]
      BY <2>3
    <3> QED BY <2>3, <3>1, <3>2
  <2>4. {"none", "done", "rejected", "failed"} \subseteq Results
    BY DEF Results
  <2>5. CASE Refuse
    BY <2>3, <2>4, <2>5 DEF Refuse, Result
  <2>6. CASE Execute
    BY <2>3, <2>4, <2>6 DEF Execute, Result
  <2>7. CASE Finish
    BY <2>2, <2>3, <2>4, <2>7 DEF Finish, Record, Result
  <2>8. CASE Reply
    BY <2>1, <2>8 DEF Reply
  <2> QED BY <2>5, <2>6, <2>7, <2>8
<1> QED BY <1>1, <1>2, <1>3, <1>4

LEMMA DuplicateEffect ==
  ASSUME TypeOK, NEW j \in Jobs, Duplicate(j)
  PROVE  /\ mem[j] \in Entry /\ pc = "idle" /\ conn = "online" /\ conn' # "dead"
         /\ UNCHANGED <<clock, issued, blind, pc, cur, runs>>
         /\ \E entry \in Entry :
              /\ entry.kept = mem[j].kept
              /\ \/ mem' = [mem EXCEPT ![j] = entry] /\ disk' = [disk EXCEPT ![j] = entry]
                 \/ mem' = mem /\ disk' = disk
         /\ \A k \in Jobs : k # j => answers'[k] = answers[k]
<1> USE DEF journal, job, past
<1>1. mem[j] \in Entry /\ mem[j].result \in Results /\ "failed" \in Results
  BY DEF Duplicate, TypeOK, Results, Entry
<1>2. PICK result \in Results :
        /\ \/ Record(j, [mem[j] EXCEPT !.result = result])
           \/ UNCHANGED journal
        /\ \/ answers' = [answers EXCEPT ![j] = @ \cup {result}] /\ UNCHANGED conn
           \/ UNCHANGED answers /\ conn' = "offline"
  BY <1>1 DEF Duplicate
<1> DEFINE entry == [mem[j] EXCEPT !.result = result]
<1>3. entry \in Entry /\ entry.kept = mem[j].kept
  BY <1>1, EntryTyped DEF Entry
<1>4. \/ mem' = [mem EXCEPT ![j] = entry] /\ disk' = [disk EXCEPT ![j] = entry]
      \/ mem' = mem /\ disk' = disk
  BY <1>2 DEF Record
<1>5. /\ pc = "idle" /\ conn = "online" /\ conn' # "dead"
      /\ UNCHANGED <<clock, issued, blind, pc, cur, runs>>
  BY <1>2 DEF Duplicate, Arrives
<1>6. \A k \in Jobs : k # j => answers'[k] = answers[k]
  BY <1>2 DEF TypeOK
<1> HIDE DEF entry
<1> QED BY <1>1, <1>3, <1>4, <1>5, <1>6

LEMMA JournalEffect ==
  ASSUME TypeOK, NEW j \in Jobs, Journal(j)
  PROVE  /\ issued[j] # Never /\ mem[j] = None /\ pc = "idle" /\ conn = "online"
         /\ NewEntry(j) \in Entry
         /\ UNCHANGED <<clock, issued, conn, runs, blind, answers>>
         /\ \/ /\ mem' = [mem EXCEPT ![j] = NewEntry(j)] /\ disk' = [disk EXCEPT ![j] = NewEntry(j)]
               /\ cur' = j /\ pc' = "run"
            \/ UNCHANGED <<mem, disk, cur, pc>>
BY NewEntryTyped DEF Journal, Arrives, Record, journal, job, past, cloud

\* what is pruned had expired, or its expiry was not known
LEMMA StartEffect ==
  ASSUME TypeOK, Dated, Start
  PROVE  /\ conn = "dead" /\ UNCHANGED <<clock, issued, pc, cur, runs, answers>>
         /\ blind \subseteq blind'
         /\ \A j \in Jobs :
              /\ mem'[j] = None <=> disk'[j] = None
              /\ mem'[j] \in {None, Loaded(j)} /\ disk'[j] \in {None, disk[j]}
              /\ disk[j] # None /\ disk'[j] = None => j \in blind' \/ now >= Expires(j)
<1> USE DEF journal, job, past, cloud
<1> DEFINE old == {j \in Jobs : disk[j] # None /\ Outlived(Loaded(j))}
<1>1. /\ mem' = [j \in Jobs |-> IF j \in old THEN None ELSE Loaded(j)]
      /\ disk' = [j \in Jobs |-> IF j \in old THEN None ELSE disk[j]]
      /\ blind' = blind \cup {j \in old : disk[j].kept = Never /\ now < Expires(j)}
  BY DEF Start
<1>2. \A j \in Jobs : Loaded(j) = None <=> disk[j] = None
  <2>1. [at |-> now, kept |-> Never, result |-> "none"] \in Entry
    BY NowTyped DEF Entry, Results
  <2> QED BY <2>1, EntryTyped DEF Loaded
<1>3. ASSUME NEW j \in old PROVE j \in blind' \/ now >= Expires(j)
  <2>1. disk[j] # Torn
    BY <1>3, NowTyped, DeviceAssumption DEF Outlived, Loaded
  <2>2. Loaded(j) = disk[j]
    BY <2>1 DEF Loaded
  <2>3. CASE disk[j].kept = Never
    BY <1>1, <2>3, NowTyped
  <2>4. CASE disk[j].kept # Never
    BY <1>3, <2>2, <2>4 DEF Outlived, Dated
  <2> QED BY <2>3, <2>4
<1>4. conn = "dead" /\ UNCHANGED <<clock, issued, pc, cur, runs, answers>>
  BY DEF Start
<1>5. \A j \in Jobs :
        /\ mem'[j] = None <=> disk'[j] = None
        /\ mem'[j] \in {None, Loaded(j)} /\ disk'[j] \in {None, disk[j]}
        /\ disk[j] # None /\ disk'[j] = None => j \in old
  <2> HIDE DEF old
  <2> QED BY <1>1, <1>2
<1> HIDE DEF old
<1> QED BY <1>1, <1>3, <1>4, <1>5

-----------------------------------------------------------------------------
LEMMA InStepStep == TypeOK /\ AtRest /\ InStep /\ Dated /\ [Next]_vars => InStep'
<1> SUFFICES ASSUME TypeOK, AtRest, InStep, Dated, [Next]_vars PROVE InStep'
  OBVIOUS
<1>1. CASE Start
  BY <1>1, StartEffect DEF InStep
<1>2. CASE Refuse \/ Execute \/ Finish \/ Reply
  <2>1. PICK entry \in Entry :
          /\ mem' = [mem EXCEPT ![cur] = entry]
          /\ disk' = disk \/ disk' = [disk EXCEPT ![cur] = entry]
    BY <1>2, StepEffect
  <2>2. cur \in Jobs /\ mem[cur] # None /\ conn = "online" /\ entry # None
    BY <1>2, StepEffect, EntryTyped
  <2> QED BY <2>1, <2>2 DEF InStep, TypeOK
<1>3. ASSUME NEW j \in Jobs, Issue(j) PROVE InStep'
  BY <1>3 DEF Issue, InStep, journal
<1>4. ASSUME NEW j \in Jobs, Journal(j) PROVE InStep'
  BY <1>4, JournalEffect DEF InStep, TypeOK
<1>5. ASSUME NEW j \in Jobs, Duplicate(j) PROVE InStep'
  <2>1. PICK entry \in Entry :
          \/ mem' = [mem EXCEPT ![j] = entry] /\ disk' = [disk EXCEPT ![j] = entry]
          \/ mem' = mem /\ disk' = disk
    BY <1>5, DuplicateEffect
  <2>2. conn = "online" /\ entry # None
    BY <1>5, DuplicateEffect, EntryTyped
  <2> QED BY <2>1, <2>2 DEF InStep, TypeOK
<1>6. ASSUME NEW j \in Jobs, Damage(j) PROVE InStep'
  BY <1>6, EntryTyped DEF Damage, InStep, TypeOK
<1>7. CASE Tick \/ Die
  BY <1>7 DEF Tick, Die, InStep, journal
<1>8. CASE Elsewhere
  BY <1>8, ElsewhereKeeps DEF InStep, tracked
<1> QED BY <1>1, <1>2, <1>3, <1>4, <1>5, <1>6, <1>7, <1>8 DEF Next, Step, Elsewhere

LEMMA UnissuedStep == TypeOK /\ AtRest /\ Dated /\ Unissued /\ [Next]_vars => Unissued'
<1> SUFFICES ASSUME TypeOK, AtRest, Dated, Unissued, [Next]_vars, NEW k \in Jobs, issued'[k] = Never
             PROVE  /\ disk'[k] = None /\ mem'[k] = None /\ (pc' # "idle" => cur' # k)
                    /\ runs'[k] = 0 /\ answers'[k] = {}
  BY DEF Unissued, Answered
<1> DEFINE Untouched == disk[k] = None /\ mem[k] = None /\ (pc # "idle" => cur # k)
                        /\ runs[k] = 0 /\ answers[k] = {}
<1>0. issued[k] = Never => Untouched
  BY DEF Unissued, Answered, TypeOK
<1>1. CASE Start
  <2>1. Untouched /\ Loaded(k) = None
    BY <1>0, <1>1, StartEffect DEF Loaded, None, Torn
  <2> QED BY <1>1, <2>1, StartEffect
<1>2. CASE Refuse \/ Execute \/ Finish \/ Reply
  <2>1. Untouched /\ k # cur
    BY <1>0, <1>2, StepEffect
  <2>2. PICK entry \in Entry :
          /\ mem' = [mem EXCEPT ![cur] = entry]
          /\ disk' = disk \/ disk' = [disk EXCEPT ![cur] = entry]
    BY <1>2, StepEffect
  <2>3. pc' # "idle" => cur' # k
    BY <1>2, <2>1 DEF Refuse, Execute, Finish, Reply, Idle
  <2>4. runs'[k] = runs[k] /\ answers'[k] = answers[k]
    BY <1>2, <2>1, StepEffect
  <2> QED BY <2>1, <2>2, <2>3, <2>4 DEF TypeOK
<1>3. ASSUME NEW j \in Jobs, Issue(j) PROVE UNCHANGED <<disk, mem, pc, cur, runs, answers>> /\ Untouched
  <2>1. issued[k] = Never
    BY <1>3, DeviceAssumption DEF Issue, TypeOK, Never
  <2> QED BY <1>0, <1>3, <2>1 DEF Issue, journal, job, past, cloud
<1>4. ASSUME NEW j \in Jobs, Journal(j)
      PROVE  /\ disk'[k] = None /\ mem'[k] = None /\ (pc' # "idle" => cur' # k)
             /\ runs'[k] = 0 /\ answers'[k] = {}
  <2>1. Untouched /\ k # j
    BY <1>0, <1>4, JournalEffect
  <2> QED BY <1>4, <2>1, JournalEffect DEF TypeOK
<1>5. ASSUME NEW j \in Jobs, Duplicate(j)
      PROVE  /\ disk'[k] = None /\ mem'[k] = None /\ (pc' # "idle" => cur' # k)
             /\ runs'[k] = 0 /\ answers'[k] = {}
  <2>1. Untouched /\ mem[j] # None
    BY <1>0, <1>5, DuplicateEffect, EntryTyped
  <2>2. k # j /\ answers'[k] = answers[k] /\ UNCHANGED <<pc, cur, runs>>
    BY <1>5, <2>1, DuplicateEffect
  <2>3. PICK entry \in Entry :
          \/ mem' = [mem EXCEPT ![j] = entry] /\ disk' = [disk EXCEPT ![j] = entry]
          \/ mem' = mem /\ disk' = disk
    BY <1>5, DuplicateEffect
  <2> QED BY <2>1, <2>2, <2>3 DEF TypeOK
<1>6. ASSUME NEW j \in Jobs, Damage(j)
      PROVE  disk'[k] = None /\ Untouched /\ UNCHANGED <<mem, pc, cur, runs, answers>>
  BY <1>0, <1>6, EntryTyped DEF Damage, TypeOK, job, past, cloud
<1>7. CASE Tick
  BY <1>0, <1>7 DEF Tick, journal, job, past, cloud
<1>8. CASE Die
  BY <1>0, <1>8 DEF Die, Idle, past, cloud
<1>9. CASE Elsewhere
  <2>1. Untouched /\ UNCHANGED <<disk, mem, cur, runs, answers>> /\ (pc' = "idle" \/ pc # "idle")
    BY <1>0, <1>9, ElsewhereKeeps DEF Elsewhere, Open, Lose, Emit, Pause, Resume, Hook, Drain,
       Acknowledged, HandleLate, vars, tracked, job
  <2> QED BY <2>1
<1> QED BY <1>1, <1>2, <1>3, <1>4, <1>5, <1>6, <1>7, <1>8, <1>9 DEF Next, Step, Elsewhere

LEMMA DatedStep == TypeOK /\ AtRest /\ Unissued /\ Dated /\ [Next]_vars => Dated'
<1> SUFFICES ASSUME TypeOK, AtRest, Unissued, Dated, [Next]_vars PROVE Dated'
  OBVIOUS
<1>0. None.kept = Never /\ Torn.kept = Never
  BY DEF None, Torn
<1>1. CASE Start
  <2>1. \A j \in Jobs : Loaded(j).kept # Never => Loaded(j).kept = Expires(j)
    BY DEF Loaded, Dated
  <2>2. \A j \in Jobs : mem'[j] \in {None, Loaded(j)} /\ disk'[j] \in {None, disk[j]}
    BY <1>1, StartEffect
  <2>3. UNCHANGED issued
    BY <1>1, StartEffect
  <2> QED BY <1>0, <2>1, <2>2, <2>3 DEF Dated, Expires
<1>2. CASE Refuse \/ Execute \/ Finish \/ Reply
  <2>1. PICK entry \in Entry :
          /\ entry.kept = mem[cur].kept
          /\ mem' = [mem EXCEPT ![cur] = entry]
          /\ disk' = disk \/ disk' = [disk EXCEPT ![cur] = entry]
    BY <1>2, StepEffect
  <2>2. cur \in Jobs /\ UNCHANGED issued
    BY <1>2, StepEffect
  <2> QED BY <2>1, <2>2 DEF Dated, Expires, TypeOK
<1>3. ASSUME NEW j \in Jobs, Issue(j) PROVE Dated'
  BY <1>0, <1>3 DEF Issue, Unissued, Dated, Expires, TypeOK, journal
<1>4. ASSUME NEW j \in Jobs, Journal(j) PROVE Dated'
  <2>1. NewEntry(j).kept # Never => NewEntry(j).kept = Expires(j)
    BY DEF NewEntry
  <2> QED BY <1>4, <2>1, JournalEffect DEF Dated, Expires, TypeOK
<1>5. ASSUME NEW j \in Jobs, Duplicate(j) PROVE Dated'
  <2>1. PICK entry \in Entry :
          /\ entry.kept = mem[j].kept
          /\ \/ mem' = [mem EXCEPT ![j] = entry] /\ disk' = [disk EXCEPT ![j] = entry]
             \/ mem' = mem /\ disk' = disk
    BY <1>5, DuplicateEffect
  <2>2. UNCHANGED issued
    BY <1>5, DuplicateEffect
  <2> QED BY <2>1, <2>2 DEF Dated, Expires, TypeOK
<1>6. ASSUME NEW j \in Jobs, Damage(j) PROVE Dated'
  BY <1>0, <1>6 DEF Damage, Dated, Expires, TypeOK
<1>7. CASE Tick \/ Die
  BY <1>0, <1>7 DEF Tick, Die, Dated, Expires, journal
<1>8. CASE Elsewhere
  BY <1>8, ElsewhereKeeps DEF Dated, Expires, tracked
<1> QED BY <1>1, <1>2, <1>3, <1>4, <1>5, <1>6, <1>7, <1>8 DEF Next, Step, Elsewhere

LEMMA RememberedStep ==
  TypeOK /\ AtRest /\ InStep /\ Unissued /\ Dated /\ Remembered /\ [Next]_vars => Remembered'
<1> SUFFICES ASSUME TypeOK, AtRest, InStep, Unissued, Dated, Remembered, [Next]_vars,
                    NEW k \in Jobs, k \notin blind', Answered(k)'
             PROVE  disk'[k] # None \/ now' >= Expires(k)'
  BY DEF Remembered
<1>1. CASE Start
  <2>1. k \notin blind /\ Answered(k) /\ now' = now /\ Expires(k)' = Expires(k)
    BY <1>1, StartEffect DEF Answered, now, Expires
  <2> QED BY <1>1, <2>1, StartEffect DEF Remembered
<1>2. CASE Refuse \/ Execute \/ Finish \/ Reply
  <2>1. PICK entry \in Entry : disk' = disk \/ disk' = [disk EXCEPT ![cur] = entry]
    BY <1>2, StepEffect
  <2>2. disk[cur] # None /\ entry # None /\ cur \in Jobs
    BY <1>2, StepEffect, EntryTyped DEF InStep
  <2>3. UNCHANGED <<clock, issued, blind>>
    BY <1>2, StepEffect
  <2>4. CASE k = cur
    BY <2>1, <2>2, <2>4 DEF TypeOK
  <2>5. CASE k # cur
    <3>1. runs'[k] = runs[k] /\ answers'[k] = answers[k]
      BY <1>2, <2>5, StepEffect
    <3>2. disk[k] # None \/ now >= Expires(k)
      BY <2>3, <3>1 DEF Remembered, Answered
    <3> QED BY <2>1, <2>3, <2>5, <3>2 DEF TypeOK, now, Expires
  <2> QED BY <2>4, <2>5
<1>3. ASSUME NEW j \in Jobs, Issue(j) PROVE disk'[k] # None \/ now' >= Expires(k)'
  <2>1. Answered(k) /\ k \notin blind /\ UNCHANGED <<clock, disk>>
    BY <1>3 DEF Issue, Answered, past, cloud, journal
  <2>2. issued[k] # Never /\ issued[j] = Never
    BY <1>3, <2>1 DEF Unissued, Issue
  <2>3. issued'[k] = issued[k]
    BY <1>3, <2>2 DEF Issue, TypeOK
  <2> QED BY <2>1, <2>3 DEF Remembered, now, Expires
<1>4. ASSUME NEW j \in Jobs, Journal(j) PROVE disk'[k] # None \/ now' >= Expires(k)'
  <2>1. NewEntry(j) # None
    BY <1>4, JournalEffect, EntryTyped
  <2>2. Answered(k) /\ k \notin blind /\ UNCHANGED <<clock, issued>>
    BY <1>4, JournalEffect DEF Answered
  <2>3. disk' = disk \/ disk' = [disk EXCEPT ![j] = NewEntry(j)]
    BY <1>4, JournalEffect
  <2> QED BY <2>1, <2>2, <2>3 DEF Remembered, TypeOK, now, Expires
<1>5. ASSUME NEW j \in Jobs, Duplicate(j) PROVE disk'[k] # None \/ now' >= Expires(k)'
  <2>1. PICK entry \in Entry : disk' = disk \/ disk' = [disk EXCEPT ![j] = entry]
    BY <1>5, DuplicateEffect
  <2>2. disk[j] # None /\ entry # None
    BY <1>5, DuplicateEffect, EntryTyped DEF InStep
  <2>3. UNCHANGED <<clock, issued, blind, runs>>
    BY <1>5, DuplicateEffect
  <2>4. CASE k = j
    BY <2>1, <2>2, <2>4 DEF TypeOK
  <2>5. CASE k # j
    <3>1. answers'[k] = answers[k]
      BY <1>5, <2>5, DuplicateEffect
    <3>2. disk[k] # None \/ now >= Expires(k)
      BY <2>3, <3>1 DEF Remembered, Answered
    <3> QED BY <2>1, <2>3, <2>5, <3>2 DEF TypeOK, now, Expires
  <2> QED BY <2>4, <2>5
<1>6. ASSUME NEW j \in Jobs, Damage(j) PROVE disk'[k] # None \/ now' >= Expires(k)'
  <2>1. Answered(k) /\ k \notin blind /\ UNCHANGED <<clock, issued>>
    BY <1>6 DEF Damage, Answered, past, cloud
  <2>2. disk' = [disk EXCEPT ![j] = Torn] /\ Torn # None
    BY <1>6, EntryTyped DEF Damage
  <2> QED BY <2>1, <2>2 DEF Remembered, TypeOK, now, Expires
<1>7. CASE Tick
  <2>1. Answered(k) /\ k \notin blind /\ disk' = disk /\ Expires(k)' = Expires(k)
    BY <1>7 DEF Tick, Answered, Expires, past, cloud, journal
  <2>2. now' = now + 1
    BY <1>7, DeviceAssumption DEF Tick, TypeOK, now
  <2> QED BY <2>1, <2>2, NowTyped DEF Remembered
<1>8. CASE Die
  BY <1>8 DEF Die, Remembered, Answered, now, Expires, past, cloud
<1>9. CASE Elsewhere
  BY <1>9, ElsewhereKeeps DEF Remembered, Answered, now, Expires, tracked
<1> QED BY <1>1, <1>2, <1>3, <1>4, <1>5, <1>6, <1>7, <1>8, <1>9 DEF Next, Step, Elsewhere

LEMMA UnrunStep ==
  TypeOK /\ AtRest /\ InStep /\ Dated /\ Remembered /\ Unrun /\ [Next]_vars => Unrun'
<1> SUFFICES ASSUME TypeOK, AtRest, InStep, Dated, Remembered, Unrun, [Next]_vars,
                    pc' = "run", ~Refused', cur' \notin blind'
             PROVE  ~Answered(cur)'
  BY DEF Unrun
<1>1. CASE Start
  BY <1>1, StartEffect DEF AtRest
<1>2. CASE Refuse \/ Execute \/ Finish \/ Reply
  BY <1>2, StepEffect
<1>3. ASSUME NEW j \in Jobs, Journal(j) PROVE ~Answered(cur)'
  <2>1. /\ cur' = j /\ mem' = [mem EXCEPT ![j] = NewEntry(j)]
        /\ UNCHANGED <<clock, issued, runs, blind, answers>>
    BY <1>3, JournalEffect
  <2>2. j \notin BadJobs /\ ~(now >= Expires(j))
    BY <2>1 DEF Refused, NewEntry, TypeOK
  <2>3. disk[j] = None
    BY <1>3, JournalEffect DEF InStep
  <2>4. ~Answered(j)
    BY <2>1, <2>2, <2>3 DEF Remembered
  <2> QED BY <2>1, <2>4 DEF Answered
<1>4. ASSUME NEW j \in Jobs, Duplicate(j) PROVE FALSE
  BY <1>4, DuplicateEffect
<1>5. ASSUME NEW j \in Jobs, Issue(j) \/ Damage(j) PROVE ~Answered(cur)'
  <2>1. UNCHANGED <<pc, cur, mem, runs, answers, blind>>
    BY <1>5 DEF Issue, Damage, journal, job, past, cloud
  <2> QED BY <2>1 DEF Unrun, Answered, Refused
<1>6. CASE Tick
  BY <1>6 DEF Tick, Unrun, Answered, Refused, journal, job, past, cloud
<1>7. CASE Die
  BY <1>7 DEF Die, Idle
<1>8. CASE Elsewhere
  <2>1. pc = "run" /\ UNCHANGED <<cur, mem, runs, answers, blind>>
    BY <1>8, ElsewhereKeeps DEF tracked
  <2> QED BY <2>1 DEF Unrun, Answered, Refused
<1> QED BY <1>1, <1>2, <1>3, <1>4, <1>5, <1>6, <1>7, <1>8 DEF Next, Step, Elsewhere

\* only Execute runs a job, and only the job that the gates let through
LEMMA RunsEffect ==
  ASSUME TypeOK, AtRest, Dated, [Next]_vars
  PROVE  /\ blind \subseteq blind'
         /\ \/ UNCHANGED runs
            \/ /\ pc = "run" /\ ~Refused /\ cur \in Jobs /\ runs' = [runs EXCEPT ![cur] = @ + 1]
               /\ UNCHANGED blind
<1>1. CASE Start
  BY <1>1, StartEffect
<1>2. CASE Refuse \/ Finish \/ Reply
  BY <1>2 DEF Refuse, Finish, Reply, past
<1>3. CASE Execute
  BY <1>3, StepEffect DEF Execute
<1>4. ASSUME NEW j \in Jobs, Issue(j) \/ Journal(j) \/ Duplicate(j) \/ Damage(j)
      PROVE UNCHANGED <<runs, blind>>
  BY <1>4 DEF Issue, Journal, Duplicate, Damage, past
<1>5. CASE Tick \/ Die
  BY <1>5 DEF Tick, Die, past
<1>6. CASE Elsewhere
  BY <1>6, ElsewhereKeeps DEF tracked
<1> QED BY <1>1, <1>2, <1>3, <1>4, <1>5, <1>6 DEF Next, Step, Elsewhere

LEMMA OnceStep ==
  ASSUME TypeOK, AtRest, Dated, Unrun, RunsAtMostOnce, [Next]_vars
  PROVE  RunsAtMostOnce'
<1> SUFFICES ASSUME NEW k \in Jobs, k \notin blind' PROVE runs'[k] <= 1
  BY DEF RunsAtMostOnce
<1>1. runs[k] <= 1 /\ k \notin blind
  BY RunsEffect DEF RunsAtMostOnce
<1>2. CASE UNCHANGED runs
  BY <1>1, <1>2
<1>3. CASE pc = "run" /\ ~Refused /\ cur \in Jobs /\ runs' = [runs EXCEPT ![cur] = @ + 1]
  <2>1. k = cur => runs[k] = 0
    BY <1>1, <1>3 DEF Unrun, Answered, TypeOK
  <2> QED BY <1>1, <1>3, <2>1 DEF TypeOK
<1> QED BY <1>2, <1>3, RunsEffect

LEMMA AgentInit == Init => IInv
<1> SUFFICES ASSUME Init PROVE IInv
  OBVIOUS
<1>1. TypeOK
  <2>1. /\ clock \in 0..MaxTime /\ events \in 0..MaxEvents /\ reports \in 0..MaxReports
        /\ session \in 0..MaxReports /\ faults \in 0..MaxFaults /\ crashes \in 0..MaxCrashes
    BY DeviceAssumption DEF Init
  <2>2. issued \in [Jobs -> {Never} \cup 0..MaxTime]
    BY DEF Init
  <2>3. disk \in [Jobs -> Entry \cup {None, Torn}] /\ mem \in [Jobs -> Entry \cup {None}]
    BY DEF Init
  <2>4. runs \in [Jobs -> Nat] /\ answers \in [Jobs -> SUBSET Results]
    BY DEF Init
  <2> QED BY <2>1, <2>2, <2>3, <2>4 DEF Init, TypeOK
<1>2. AtRest /\ InStep /\ Unissued /\ Remembered /\ Unrun /\ RunsAtMostOnce
  BY DEF Init, AtRest, InStep, Unissued, Remembered, Unrun, RunsAtMostOnce, Answered
<1>3. Dated
  BY DEF Init, Dated, None
<1> QED BY <1>1, <1>2, <1>3 DEF IInv

(***************************************************************************)
(* The inductive invariant of the device agent.                            *)
(***************************************************************************)
THEOREM AgentInvariant == Spec => []IInv
<1>1. IInv /\ [Next]_vars => IInv'
  BY TypeStep, AtRestStep, InStepStep, UnissuedStep, DatedStep, RememberedStep, UnrunStep, OnceStep
     DEF IInv
<1> QED BY <1>1, AgentInit, PTL DEF Spec

(***************************************************************************)
(* Every variable keeps its type; so no step acts on the entry of a job    *)
(* that has none.                                                          *)
(***************************************************************************)
THEOREM AgentTypeCorrect == Spec => []TypeOK
<1>1. IInv => TypeOK
  BY DEF IInv
<1> QED BY <1>1, AgentInvariant, PTL

(***************************************************************************)
(* No job runs a second time: for any number of jobs, deliveries, deaths,  *)
(* failed writes and unreadable files, and whatever the clocks differ by.  *)
(***************************************************************************)
THEOREM JobsRunAtMostOnce == Spec => []RunsAtMostOnce
<1>1. IInv => RunsAtMostOnce
  BY DEF IInv
<1> QED BY <1>1, AgentInvariant, PTL

(***************************************************************************)
(* A job the cloud has an answer about does not run any more.              *)
(***************************************************************************)
THEOREM AnsweredJobsNeverRun == Spec => AnsweredNeverRuns
<1>1. ASSUME IInv, [Next]_vars
      PROVE  [\A j \in Jobs \ blind : runs'[j] # runs[j] => answers[j] = {}]_vars
  <2> SUFFICES ASSUME NEW j \in Jobs, j \notin blind, runs'[j] # runs[j] PROVE answers[j] = {}
    OBVIOUS
  <2>1. pc = "run" /\ ~Refused /\ j = cur
    BY <1>1, RunsEffect DEF IInv, TypeOK
  <2> QED BY <1>1, <2>1 DEF IInv, Unrun, Answered
<1> QED BY <1>1, AgentInvariant, PTL DEF Spec, AnsweredNeverRuns

(***************************************************************************)
(* An event the spool has taken leaves it only once the cloud has it.      *)
(***************************************************************************)
THEOREM SpooledEventsKept == Spec => EventsAreKept
<1>1. ASSUME [Next]_vars
      PROVE  [\A e \in SpooledEvents : e \in spool' \/ e \in received]_vars
  <2> SUFFICES ASSUME NEW e \in spool, e[1] = "event", e \notin spool' PROVE e \in received
    BY DEF SpooledEvents
  <2> USE DEF journal, job, queue, hooks, cloud, past, bounds
  <2>1. CASE Drain
    BY <2>1 DEF Drain, SpooledReports
  <2>2. ASSUME NEW a \in received, Acknowledged(a) PROVE a = e
    BY <2>2 DEF Acknowledged
  <2>3. CASE Emit \/ Pause \/ Resume \/ Hook
    BY <2>3 DEF Emit, Pause, Resume, Hook, NewEvent
  <2>4. CASE \/ Start \/ Open \/ Lose \/ Refuse \/ Execute \/ Finish \/ Reply
             \/ Tick \/ Die \/ UNCHANGED vars
    BY <2>4 DEF Start, Open, Lose, Refuse, Execute, Finish, Reply, Tick, Die, vars
  <2>5. ASSUME NEW j \in Jobs, Issue(j) \/ Journal(j) \/ Duplicate(j) \/ Damage(j) PROVE FALSE
    BY <2>5 DEF Issue, Journal, Duplicate, Damage
  <2>6. ASSUME NEW n \in late, HandleLate(n) PROVE FALSE
    BY <2>6 DEF HandleLate
  <2> QED BY <1>1, <2>1, <2>2, <2>3, <2>4, <2>5, <2>6 DEF Next, Step
<1> QED BY <1>1, PTL DEF Spec, EventsAreKept

-----------------------------------------------------------------------------
(***************************************************************************)
(* The Hub.  An enqueue under way has its job, with its expiry.            *)
(***************************************************************************)
Holding(c) == at[c] \in {"batch", "undo", "arm"}

Calls ==
  \A c \in Callers :
    /\ at[c] # "idle" => calling[c] \in HubJobs /\ expires[calling[c]] # Unset
    /\ at[c] = "arm" => d1[calling[c]] # "absent"

Expiring == IsFiniteSet(pending) /\ \A j \in pending : expires[j] # Unset

MarkedFirst == ring = "marked" => \A j \in due : d1[j] = "expired"

PromiseKept == \A j \in promised : d1[j] = "expired" \/ (d1[j] = "queued" /\ j \in pending)

\* until its job has expired an enqueue finds it in the table, and alone has it
Held ==
  \A c \in Callers : Holding(c) =>
    \/ d1[calling[c]] = "expired"
    \/ calling[c] \in pending /\ calling[c] \notin promised

Alone ==
  \A c, e \in Callers :
    c # e /\ Holding(c) /\ Holding(e) /\ calling[c] = calling[e] => d1[calling[c]] = "expired"

\* with a D1 that does not commit what it reports as failed
NotLossy ==
  /\ \A j \in HubJobs : d1[j] = "queued" => j \in pending
  /\ \A c \in Callers : at[c] \in {"batch", "undo"} => d1[calling[c]] # "queued"

\* one fetch at a time closes the older connections, and knows them all
Newest ==
  ~crossed =>
    /\ \A k, m \in Conns : sock[k] = "replace" /\ sock[m] = "replace" => k = m
    /\ \A k \in Conns : sock[k] = "replace" => OpenConns \subseteq olds[k]
    /\ \A k, m \in OpenConns : k = m

HubInv ==
  HubTypeOK /\ Calls /\ Expiring /\ MarkedFirst /\ PromiseKept /\ Held /\ Alone /\ PromisedIsArmed

LEMMA ExpiresTyped ==
  ASSUME HubTypeOK, NEW j \in HubJobs, expires[j] # Unset
  PROVE  expires[j] \in 0..(HubMaxTime + 1) /\ expires[j] \in Nat
BY DeviceHubAssumption DEF HubTypeOK

LEMMA EarliestBounds ==
  ASSUME HubTypeOK, Expiring, NEW jobs, jobs \subseteq pending
  PROVE  /\ Earliest(jobs) \in {Unset, GivenUp} \cup 0..(HubMaxTime + 1)
         /\ \A j \in jobs : 0 <= Earliest(jobs) /\ Earliest(jobs) <= expires[j]
<1>1. CASE jobs = {}
  BY <1>1 DEF Earliest
<1>2. CASE jobs # {}
  <2> DEFINE times == {expires[j] : j \in jobs}
  <2>1. \A j \in jobs : expires[j] \in 0..(HubMaxTime + 1) /\ expires[j] \in Nat
    BY ExpiresTyped DEF Expiring, HubTypeOK
  <2>2. times \subseteq Nat /\ times \subseteq 0..(HubMaxTime + 1) /\ times # {}
    BY <1>2, <2>1
  <2>3. Min(times) \in times /\ \A n \in times : Min(times) <= n
    BY <2>2, LeastExists
  <2>4. Earliest(jobs) = Min(times)
    BY <1>2 DEF Earliest
  <2> HIDE DEF times
  <2>5. Min(times) \in 0..(HubMaxTime + 1) /\ 0 <= Min(times)
    <3>1. Min(times) \in Nat
      BY <2>2, <2>3
    <3> QED BY <2>2, <2>3, <3>1
  <2>6. \A j \in jobs : expires[j] \in times
    BY DEF times
  <2> QED BY <2>3, <2>4, <2>5, <2>6
<1> QED BY <1>1, <1>2

LEMMA FailsTyped == HubTypeOK /\ (Fails \/ UNCHANGED failures) => failures' \in 0..MaxFailures
BY DeviceHubAssumption DEF HubTypeOK, Fails

\* the table is finite and within its bound, whichever job comes or leaves
LEMMA PendingStep ==
  ASSUME HubTypeOK, IsFiniteSet(pending), NEW j \in HubJobs,
         \/ j \notin pending /\ Cardinality(pending) < MaxPending /\ pending' = pending \cup {j}
         \/ pending' \subseteq pending
  PROVE  pending' \subseteq HubJobs /\ Cardinality(pending') <= MaxPending /\ IsFiniteSet(pending')
<1>1. Cardinality(pending) \in Nat /\ Cardinality(pending) <= MaxPending /\ pending \subseteq HubJobs
  BY FS_CardinalityType DEF HubTypeOK
<1>2. CASE j \notin pending /\ Cardinality(pending) < MaxPending /\ pending' = pending \cup {j}
  <2>1. IsFiniteSet(pending') /\ Cardinality(pending') = Cardinality(pending) + 1
    BY <1>2, FS_AddElement
  <2> QED BY <1>1, <1>2, <2>1, DeviceHubAssumption
<1>3. CASE pending' \subseteq pending
  <2>1. /\ IsFiniteSet(pending') /\ Cardinality(pending') \in Nat
        /\ Cardinality(pending') <= Cardinality(pending)
    BY <1>3, FS_Subset, FS_CardinalityType
  <2> QED BY <1>1, <1>3, <2>1, DeviceHubAssumption
<1> QED BY <1>2, <1>3

LEMMA HubTypeStep ==
  HubTypeOK /\ Calls /\ Expiring /\ [HubNext]_hubVars => HubTypeOK' /\ IsFiniteSet(pending')
<1> SUFFICES ASSUME HubTypeOK, Calls, Expiring, [HubNext]_hubVars
             PROVE  HubTypeOK' /\ IsFiniteSet(pending')
  OBVIOUS
<1> USE DEF store, bell, calls, socks
<1>0. IsFiniteSet(pending) /\ (UNCHANGED pending => IsFiniteSet(pending'))
  BY DEF Expiring
<1>1. ASSUME NEW c \in Callers, NEW j \in HubJobs, Enqueue(c, j) PROVE HubTypeOK'
  <2>1. expires' \in [HubJobs -> {Unset} \cup 1..(HubMaxTime + 1)]
    <3>1. hubClock + 1 \in 1..(HubMaxTime + 1)
      BY DeviceHubAssumption DEF HubTypeOK
    <3> QED BY <1>1, <3>1 DEF Enqueue, HubTypeOK
  <2> QED BY <1>1, <2>1 DEF Enqueue, Goto, HubTypeOK
<1>2. ASSUME NEW c \in Callers, Known(c) PROVE HubTypeOK'
  <2>1. failures' \in 0..MaxFailures
    BY <1>2, FailsTyped DEF Known
  <2> QED BY <1>2, <2>1 DEF Known, Goto, Return, HubTypeOK
<1>3. ASSUME NEW c \in Callers, Insert(c) PROVE HubTypeOK' /\ IsFiniteSet(pending')
  <2>1. calling[c] \in HubJobs
    BY <1>3 DEF Insert, Calls
  <2>2. pending' \subseteq HubJobs /\ Cardinality(pending') <= MaxPending /\ IsFiniteSet(pending')
    BY <1>0, <1>3, <2>1, PendingStep DEF Insert
  <2> QED BY <1>3, <2>1, <2>2 DEF Insert, Goto, Return, HubTypeOK
<1>4. ASSUME NEW c \in Callers, Batch(c) PROVE HubTypeOK'
  <2>1. calling[c] \in HubJobs
    BY <1>4 DEF Batch, Calls
  <2>2. failures' \in 0..MaxFailures
    BY <1>4, FailsTyped DEF Batch
  <2>3. d1' = d1 \/ d1' = [d1 EXCEPT ![calling[c]] = "queued"]
    BY <1>4 DEF Batch
  <2>4. d1' \in [HubJobs -> {"absent", "queued", "expired"}]
    BY <2>1, <2>3 DEF HubTypeOK
  <2> QED BY <1>4, <2>2, <2>4 DEF Batch, Goto, HubTypeOK
<1>5. ASSUME NEW c \in Callers, Undo(c) PROVE HubTypeOK' /\ IsFiniteSet(pending')
  <2>1. calling[c] \in HubJobs
    BY <1>5 DEF Undo, Return, Goto, Calls
  <2>2. pending' \subseteq HubJobs /\ Cardinality(pending') <= MaxPending /\ IsFiniteSet(pending')
    BY <1>0, <1>5, <2>1, PendingStep DEF Undo
  <2> QED BY <1>5, <2>2 DEF Undo, Goto, Return, HubTypeOK
<1>6. ASSUME NEW c \in Callers, Arm(c) PROVE HubTypeOK'
  <2>1. calling[c] \in HubJobs
    BY <1>6 DEF Arm, Return, Goto, Calls
  <2>2. alarm' \in {Unset, GivenUp} \cup 0..(HubMaxTime + 1)
    BY <1>6, EarliestBounds DEF Arm
  <2> QED BY <1>6, <2>1, <2>2 DEF Arm, Goto, Return, HubTypeOK
<1>7. ASSUME Ring PROVE HubTypeOK'
  <2>1. alarm' \in {Unset, GivenUp} \cup 0..(HubMaxTime + 1)
    BY <1>7, EarliestBounds DEF Ring
  <2>2. ring' \in {"off", "read", "marked"} /\ due' \subseteq HubJobs
    BY <1>7 DEF Ring, HubTypeOK
  <2>3. UNCHANGED <<hubClock, expires, pending, d1, at, calling, promised, repeated,
                  sock, olds, crossed, evictions, failures>>
    BY <1>7 DEF Ring
  <2> QED BY <2>1, <2>2, <2>3 DEF HubTypeOK
<1>8. ASSUME Mark PROVE HubTypeOK'
  <2>1. failures' \in 0..MaxFailures
    BY <1>8, FailsTyped DEF Mark
  <2>2. alarm' \in {Unset, GivenUp} \cup 0..(HubMaxTime + 1)
    BY <1>8, DeviceHubAssumption DEF Mark, HubTypeOK
  <2>3. d1' \in [HubJobs -> {"absent", "queued", "expired"}]
    BY <1>8 DEF Mark, HubTypeOK
  <2>4. ring' \in {"off", "read", "marked"} /\ due' \subseteq HubJobs
    BY <1>8 DEF Mark, HubTypeOK
  <2>5. UNCHANGED <<hubClock, expires, pending, at, calling, promised, repeated, sock, olds,
                  crossed, evictions>>
    BY <1>8 DEF Mark
  <2> QED BY <2>1, <2>2, <2>3, <2>4, <2>5 DEF HubTypeOK
<1>9. ASSUME Forget PROVE HubTypeOK'
  <2>1. \A j \in HubJobs :
          pending' \subseteq HubJobs /\ Cardinality(pending') <= MaxPending /\ IsFiniteSet(pending')
    BY <1>0, <1>9, PendingStep DEF Forget
  <2>2. pending' \subseteq HubJobs /\ Cardinality(pending') <= MaxPending /\ IsFiniteSet(pending')
    <3>1. CASE HubJobs = {}
      <4>1. pending' = pending
        BY <1>9, <3>1 DEF Forget, HubTypeOK
      <4> QED BY <1>0, <4>1 DEF HubTypeOK
    <3> QED BY <2>1, <3>1
  <2>3. alarm' \in {Unset, GivenUp} \cup 0..(HubMaxTime + 1)
    BY <1>9, EarliestBounds DEF Forget
  <2> QED BY <1>9, <2>2, <2>3 DEF Forget, HubTypeOK
<1>10. ASSUME NEW k \in Conns, Accept(k),
              UNCHANGED <<hubClock, expires, store, ring, due, calls, evictions>>,
              olds' \in [Conns -> SUBSET Conns], crossed' \in BOOLEAN, failures' \in 0..MaxFailures
       PROVE  HubTypeOK'
  <2>1. alarm' \in {Unset, GivenUp} \cup 0..(HubMaxTime + 1)
    BY <1>10, EarliestBounds DEF Accept
  <2>2. sock' \in [Conns -> {"new", "audit", "replace", "open", "closed"}]
    BY <1>10 DEF Accept, HubTypeOK
  <2> QED BY <1>10, <2>1, <2>2 DEF HubTypeOK
<1>11. ASSUME NEW k \in Conns, Connect(k) \/ Close(k) PROVE HubTypeOK'
  BY <1>11 DEF Connect, Close, HubTypeOK
<1>12. ASSUME NEW k \in Conns, Audited(k) PROVE HubTypeOK'
  <2>1. failures' \in 0..MaxFailures
    BY <1>12, FailsTyped DEF Audited
  <2>2. crossed' \in BOOLEAN
    BY <1>12 DEF Audited, HubTypeOK
  <2>3. CASE Accept(k) /\ UNCHANGED olds
    BY <1>10, <1>12, <2>1, <2>2, <2>3 DEF Audited, HubTypeOK
  <2>4. ASSUME NEW to \in {"replace", "closed"}, sock' = [sock EXCEPT ![k] = to], UNCHANGED alarm,
               olds' = olds \/ olds' = [olds EXCEPT ![k] = OpenConns]
        PROVE  HubTypeOK'
    <3>1. olds' \in [Conns -> SUBSET Conns]
      BY <2>4 DEF OpenConns, HubTypeOK
    <3>2. sock' \in [Conns -> {"new", "audit", "replace", "open", "closed"}]
      BY <2>4 DEF HubTypeOK
    <3> QED BY <1>12, <2>1, <2>2, <2>4, <3>1, <3>2 DEF Audited, HubTypeOK
  <2> QED BY <1>12, <2>3, <2>4 DEF Audited
<1>13. ASSUME NEW k \in Conns, Replace(k) PROVE HubTypeOK'
  <2>1. PICK o \in olds[k] :
          /\ olds' = [olds EXCEPT ![k] = @ \ {o}]
          /\ sock' = [sock EXCEPT ![o] = IF @ = "open" THEN "closed" ELSE @]
    BY <1>13 DEF Replace
  <2>2. o \in Conns
    BY <2>1 DEF HubTypeOK
  <2>3. olds' \in [Conns -> SUBSET Conns]
    BY <2>1 DEF HubTypeOK
  <2>4. sock' \in [Conns -> {"new", "audit", "replace", "open", "closed"}]
    BY <2>1, <2>2 DEF HubTypeOK
  <2> QED BY <1>13, <2>3, <2>4 DEF Replace, HubTypeOK
<1>14. ASSUME NEW k \in Conns, Replaced(k) PROVE HubTypeOK'
  BY <1>10, <1>14 DEF Replaced, HubTypeOK
<1>15. ASSUME HubTick PROVE HubTypeOK'
  <2>1. hubClock' \in 0..HubMaxTime
    BY <1>15, DeviceHubAssumption DEF HubTick, HubTypeOK
  <2>2. UNCHANGED <<expires, pending, d1, alarm, ring, due, at, calling, promised, repeated,
                  sock, olds, crossed, evictions, failures>>
    BY <1>15 DEF HubTick
  <2> QED BY <2>1, <2>2 DEF HubTypeOK
<1>16. ASSUME Evict PROVE HubTypeOK'
  <2>1. alarm' \in {Unset, GivenUp} \cup 0..(HubMaxTime + 1)
    BY <1>16, DeviceHubAssumption DEF Evict, HubTypeOK
  <2>2. evictions' \in 0..MaxEvictions
    BY <1>16, DeviceHubAssumption DEF Evict, HubTypeOK
  <2>3. at' \in [Callers -> {"idle", "known", "insert", "batch", "undo", "arm"}]
        /\ calling' \in [Callers -> HubJobs \cup {NoJob}]
    BY <1>16 DEF Evict
  <2>4. sock' \in [Conns -> {"new", "audit", "replace", "open", "closed"}]
        /\ olds' \in [Conns -> SUBSET Conns]
    BY <1>16 DEF Evict, HubTypeOK
  <2>6. ring' = "off" /\ due' = {}
    BY <1>16 DEF Evict
  <2>5. UNCHANGED <<hubClock, expires, pending, d1, promised, repeated, crossed, failures>>
    BY <1>16 DEF Evict
  <2> QED BY <2>1, <2>2, <2>3, <2>4, <2>5, <2>6 DEF HubTypeOK
<1>17. ASSUME UNCHANGED hubVars PROVE HubTypeOK'
  <2>1. UNCHANGED <<hubClock, expires, pending, d1, alarm, ring, due, at, calling>>
    BY <1>17 DEF hubVars
  <2>2. UNCHANGED <<promised, repeated, sock, olds, crossed, evictions, failures>>
    BY <1>17 DEF hubVars
  <2> QED BY <2>1, <2>2 DEF HubTypeOK
<1>18. ASSUME \/ \E c \in Callers : Known(c) \/ Batch(c) \/ Arm(c) \/ \E j \in HubJobs : Enqueue(c, j)
              \/ Ring \/ Mark \/ (\E k \in Conns : Connect(k) \/ FetchStep(k) \/ Close(k))
              \/ HubTick \/ Evict \/ UNCHANGED hubVars
       PROVE  UNCHANGED pending
  BY <1>18 DEF Known, Batch, Arm, Enqueue, Ring, Mark, Connect, FetchStep, Audited, Replace, Replaced,
     Close, HubTick, Evict, hubVars
<1>19. CASE Forget \/ (\E c \in Callers : Insert(c) \/ Undo(c))
  <2>1. Forget => IsFiniteSet(pending')
    BY <1>0, FS_Subset DEF Forget
  <2> QED BY <1>3, <1>5, <1>9, <1>19, <2>1
<1> QED BY <1>0, <1>1, <1>2, <1>4, <1>6, <1>7, <1>8, <1>11, <1>12, <1>13, <1>14, <1>15, <1>16,
           <1>17, <1>18, <1>19 DEF HubNext, EnqueueStep, FetchStep

LEMMA CallsStep == HubTypeOK /\ Calls /\ [HubNext]_hubVars => Calls'
<1> SUFFICES ASSUME HubTypeOK, Calls, [HubNext]_hubVars PROVE Calls'
  OBVIOUS
<1> USE DEF store, bell, calls, socks
<1>1. ASSUME NEW c \in Callers, NEW j \in HubJobs, Enqueue(c, j) PROVE Calls'
  <2>1. \A i \in HubJobs : expires[i] # Unset => expires'[i] # Unset
    BY <1>1 DEF Enqueue, HubTypeOK
  <2>2. expires'[j] # Unset
    BY <1>1, DeviceHubAssumption DEF Enqueue, HubTypeOK, Unset
  <2> QED BY <1>1, <2>1, <2>2 DEF Enqueue, Goto, Calls, HubTypeOK
<1>2. ASSUME NEW c \in Callers, Known(c) PROVE Calls'
  BY <1>2 DEF Known, Goto, Return, Calls, HubTypeOK
<1>3. ASSUME NEW c \in Callers, Insert(c) PROVE Calls'
  BY <1>3 DEF Insert, Goto, Return, Calls, HubTypeOK
<1>4. ASSUME NEW c \in Callers, Batch(c) PROVE Calls'
  <2>1. calling[c] \in HubJobs /\ at[c] = "batch" /\ UNCHANGED <<calling, expires>>
    BY <1>4 DEF Batch, Calls
  <2>2. \/ d1' = [d1 EXCEPT ![calling[c]] = "queued"]
        \/ d1' = d1
    BY <1>4 DEF Batch
  <2>3. \/ at' = [at EXCEPT ![c] = "arm"] /\ d1' = [d1 EXCEPT ![calling[c]] = "queued"]
        \/ at' = [at EXCEPT ![c] = "undo"]
    BY <1>4 DEF Batch, Goto
  <2> QED BY <2>1, <2>2, <2>3 DEF Calls, HubTypeOK
<1>5. ASSUME NEW c \in Callers, Undo(c) \/ Arm(c) PROVE Calls'
  BY <1>5 DEF Undo, Arm, Goto, Return, Calls, HubTypeOK
<1>6. ASSUME Mark PROVE Calls'
  BY <1>6 DEF Mark, Calls, HubTypeOK
<1>7. ASSUME Evict PROVE Calls'
  BY <1>7 DEF Evict, Calls
<1>8. ASSUME \/ Ring \/ Forget \/ HubTick \/ UNCHANGED hubVars
             \/ (\E k \in Conns : Connect(k) \/ FetchStep(k) \/ Close(k))
      PROVE  Calls'
  <2>1. UNCHANGED <<at, calling, expires, d1>>
    BY <1>8 DEF Ring, Forget, HubTick, hubVars, Connect, FetchStep, Audited, Replace, Replaced, Accept,
       Close
  <2> QED BY <2>1 DEF Calls
<1> QED BY <1>1, <1>2, <1>3, <1>4, <1>5, <1>6, <1>7, <1>8 DEF HubNext, EnqueueStep

LEMMA ExpiringStep ==
  ASSUME HubTypeOK, Calls, Expiring, [HubNext]_hubVars
  PROVE  /\ \A j \in HubJobs : expires[j] # Unset => expires'[j] = expires[j]
         /\ Expiring'
<1> USE DEF store, bell, calls, socks
<1>1. \A j \in HubJobs : expires[j] # Unset => expires'[j] = expires[j]
  <2>1. ASSUME NEW c \in Callers, NEW i \in HubJobs, Enqueue(c, i)
        PROVE  \A j \in HubJobs : expires[j] # Unset => expires'[j] = expires[j]
    BY <2>1 DEF Enqueue, HubTypeOK
  <2>2. CASE \A c \in Callers, i \in HubJobs : ~Enqueue(c, i)
    <3>1. UNCHANGED expires
      BY <2>2 DEF HubNext, EnqueueStep, Known, Insert, Batch, Undo, Arm, Ring, Mark, Forget, Connect,
         FetchStep, Audited, Replace, Replaced, Close, HubTick, Evict, hubVars
    <3> QED BY <3>1
  <2> QED BY <2>1, <2>2
<1>2. \A j \in pending' : j \in pending \/ \E c \in Callers : at[c] # "idle" /\ j = calling[c]
  <2>1. ASSUME NEW c \in Callers, Insert(c)
        PROVE  at[c] # "idle" /\ pending' \subseteq pending \cup {calling[c]}
    BY <2>1 DEF Insert
  <2>2. CASE \A c \in Callers : ~Insert(c)
    <3>1. pending' \subseteq pending
      BY <2>2 DEF HubNext, EnqueueStep, Enqueue, Known, Batch, Undo, Arm, Ring, Mark, Forget, Connect,
         FetchStep, Audited, Replace, Replaced, Close, HubTick, Evict, hubVars
    <3> QED BY <3>1
  <2> QED BY <2>1, <2>2
<1>3. \A j \in pending' : j \in HubJobs /\ expires[j] # Unset
  BY <1>2 DEF Calls, Expiring, HubTypeOK
<1>4. IsFiniteSet(pending')
  BY HubTypeStep
<1> QED BY <1>1, <1>3, <1>4 DEF Expiring

LEMMA MarkedStep == HubTypeOK /\ Calls /\ MarkedFirst /\ [HubNext]_hubVars => MarkedFirst'
<1> SUFFICES ASSUME HubTypeOK, Calls, MarkedFirst, [HubNext]_hubVars PROVE MarkedFirst'
  OBVIOUS
<1> USE DEF store, bell, calls, socks
<1>1. ASSUME NEW c \in Callers, Batch(c) PROVE MarkedFirst'
  <2>1. calling[c] \in HubJobs /\ UNCHANGED <<ring, due>>
    BY <1>1 DEF Batch, Calls
  <2>2. d1' = d1 \/ (d1[calling[c]] = "absent" /\ d1' = [d1 EXCEPT ![calling[c]] = "queued"])
    BY <1>1 DEF Batch
  <2> QED BY <2>1, <2>2 DEF MarkedFirst, HubTypeOK
<1>2. ASSUME Ring \/ Forget \/ Evict PROVE MarkedFirst'
  BY <1>2 DEF Ring, Forget, Evict, MarkedFirst
<1>3. ASSUME Mark PROVE MarkedFirst'
  BY <1>3 DEF Mark, MarkedFirst, HubTypeOK
<1>4. ASSUME \/ \E c \in Callers : Known(c) \/ Insert(c) \/ Undo(c) \/ Arm(c)
                                     \/ \E j \in HubJobs : Enqueue(c, j)
             \/ (\E k \in Conns : Connect(k) \/ FetchStep(k) \/ Close(k))
             \/ HubTick \/ UNCHANGED hubVars
      PROVE  MarkedFirst'
  <2>1. UNCHANGED <<ring, due, d1>>
    BY <1>4 DEF Known, Insert, Undo, Arm, Enqueue, Connect, FetchStep, Audited, Replace, Replaced,
       Accept, Close, HubTick, hubVars
  <2> QED BY <2>1 DEF MarkedFirst
<1> QED BY <1>1, <1>2, <1>3, <1>4 DEF HubNext, EnqueueStep

LEMMA AloneStep == HubTypeOK /\ Calls /\ Held /\ Alone /\ [HubNext]_hubVars => Alone'
<1> SUFFICES ASSUME HubTypeOK, Calls, Held, Alone, [HubNext]_hubVars PROVE Alone'
  OBVIOUS
<1> USE DEF store, bell, calls, socks
<1>1. ASSUME NEW c \in Callers, Insert(c) PROVE Alone'
  <2>1. CASE at' = [at EXCEPT ![c] = "idle"] /\ calling' = [calling EXCEPT ![c] = NoJob] /\ d1' = d1
    BY <2>1 DEF Alone, Holding, HubTypeOK
  <2>2. CASE calling[c] \notin pending /\ at' = [at EXCEPT ![c] = "batch"] /\ UNCHANGED <<calling, d1>>
    <3>1. \A e \in Callers : Holding(e) /\ calling[e] = calling[c] => d1[calling[c]] = "expired"
      BY <2>2 DEF Held
    <3>2. \A e \in Callers : e # c => Holding(e)' = Holding(e)
      BY <2>2 DEF Holding, HubTypeOK
    <3> QED BY <2>2, <3>1, <3>2 DEF Alone
  <2> QED BY <1>1, <2>1, <2>2 DEF Insert, Goto, Return
<1>2. ASSUME NEW c \in Callers, Batch(c) PROVE Alone'
  <2>1. at[c] = "batch" /\ UNCHANGED calling /\ calling[c] \in HubJobs
    BY <1>2 DEF Batch, Calls
  <2>2. \A e \in Callers : Holding(e)' = Holding(e)
    BY <1>2 DEF Batch, Goto, Holding, HubTypeOK
  <2>3. \A j \in HubJobs : d1[j] = "expired" => d1'[j] = "expired"
    BY <1>2 DEF Batch, HubTypeOK
  <2>4. \A e \in Callers : Holding(e) => calling[e] \in HubJobs
    BY DEF Holding, Calls
  <2> QED BY <2>1, <2>2, <2>3, <2>4 DEF Alone
<1>3. ASSUME Mark PROVE Alone'
  <2>1. \A e \in Callers : Holding(e) => calling[e] \in HubJobs
    BY DEF Holding, Calls
  <2> QED BY <1>3, <2>1 DEF Mark, Alone, Holding, HubTypeOK
<1>4. ASSUME NEW c \in Callers, Known(c) \/ Undo(c) \/ Arm(c) \/ (\E j \in HubJobs : Enqueue(c, j))
      PROVE  Alone'
  <2>1. ~Holding(c)' /\ UNCHANGED d1
    BY <1>4 DEF Known, Undo, Arm, Enqueue, Goto, Return, Holding, HubTypeOK
  <2>2. \A e \in Callers : e # c => Holding(e)' = Holding(e) /\ calling'[e] = calling[e]
    BY <1>4 DEF Known, Undo, Arm, Enqueue, Goto, Return, Holding, HubTypeOK
  <2> QED BY <2>1, <2>2 DEF Alone
<1>5. ASSUME Evict PROVE Alone'
  BY <1>5 DEF Evict, Alone, Holding
<1>6. ASSUME \/ Ring \/ Forget \/ HubTick \/ UNCHANGED hubVars
             \/ (\E k \in Conns : Connect(k) \/ FetchStep(k) \/ Close(k))
      PROVE  Alone'
  <2>1. UNCHANGED <<at, calling, d1>>
    BY <1>6 DEF Ring, Forget, HubTick, hubVars, Connect, FetchStep, Audited, Replace, Replaced, Accept,
       Close
  <2> QED BY <2>1 DEF Alone, Holding
<1> QED BY <1>1, <1>2, <1>3, <1>4, <1>5, <1>6 DEF HubNext, EnqueueStep

LEMMA HeldStep ==
  ASSUME HubTypeOK, Calls, MarkedFirst, PromiseKept, Held, Alone, [HubNext]_hubVars
  PROVE  PromiseKept' /\ Held'
<1> USE DEF store, bell, calls, socks
<1>0. \A e \in Callers : Holding(e) => calling[e] \in HubJobs
  BY DEF Holding, Calls
<1>1. ASSUME NEW c \in Callers, Insert(c) PROVE PromiseKept' /\ Held'
  <2>1. pending \subseteq pending' /\ UNCHANGED <<d1, promised>>
    BY <1>1 DEF Insert
  <2>2. PromiseKept'
    BY <2>1 DEF PromiseKept
  <2>3. CASE at' = [at EXCEPT ![c] = "idle"] /\ calling' = [calling EXCEPT ![c] = NoJob]
    <3>1. \A e \in Callers : Holding(e)' => Holding(e) /\ calling'[e] = calling[e]
      BY <2>3 DEF Holding, HubTypeOK
    <3> QED BY <2>1, <2>2, <3>1 DEF Held
  <2>4. CASE /\ calling[c] \notin pending /\ calling[c] \in pending'
             /\ at' = [at EXCEPT ![c] = "batch"] /\ UNCHANGED calling
    <3>1. calling[c] \in promised => d1[calling[c]] = "expired"
      BY <2>4 DEF PromiseKept
    <3>2. \A e \in Callers : Holding(e)' => e = c \/ Holding(e)
      BY <2>4 DEF Holding, HubTypeOK
    <3>3. SUFFICES ASSUME NEW e \in Callers, Holding(e)'
                   PROVE  \/ d1'[calling'[e]] = "expired"
                          \/ calling'[e] \in pending' /\ calling'[e] \notin promised'
      BY <2>2 DEF Held
    <3>4. CASE e = c
      BY <2>1, <2>4, <3>1, <3>4
    <3>5. CASE e # c
      BY <2>1, <2>4, <3>2, <3>3, <3>5 DEF Held
    <3> QED BY <3>4, <3>5
  <2> QED BY <1>1, <2>3, <2>4 DEF Insert, Goto, Return
<1>2. ASSUME NEW c \in Callers, Batch(c) PROVE PromiseKept' /\ Held'
  <2>1. UNCHANGED <<pending, promised, calling>>
    BY <1>2 DEF Batch
  <2>2. d1' = d1 \/ (d1[calling[c]] = "absent" /\ d1' = [d1 EXCEPT ![calling[c]] = "queued"])
    BY <1>2 DEF Batch
  <2>3. \A e \in Callers : Holding(e)' = Holding(e)
    BY <1>2 DEF Batch, Goto, Holding, HubTypeOK
  <2>4. \A j \in HubJobs : d1[j] # "absent" => d1'[j] = d1[j]
    BY <2>2 DEF HubTypeOK
  <2>5. PromiseKept'
    BY <2>1, <2>4 DEF PromiseKept, HubTypeOK
  <2>6. Held'
    BY <1>0, <2>1, <2>3, <2>4 DEF Held
  <2> QED BY <2>5, <2>6
<1>3. ASSUME NEW c \in Callers, Undo(c) PROVE PromiseKept' /\ Held'
  <2>1. /\ pending' = pending \ {calling[c]} /\ at' = [at EXCEPT ![c] = "idle"]
        /\ calling' = [calling EXCEPT ![c] = NoJob] /\ UNCHANGED <<d1, promised>> /\ Holding(c)
    BY <1>3 DEF Undo, Return, Goto, Holding
  <2>2. PromiseKept'
    BY <2>1 DEF PromiseKept, Held
  <2>3. \A e \in Callers : Holding(e)' => e # c /\ Holding(e) /\ calling'[e] = calling[e]
    BY <2>1 DEF Holding, HubTypeOK
  <2>4. \A e \in Callers : Holding(e)' /\ calling[e] = calling[c] => d1[calling[e]] = "expired"
    BY <2>1, <2>3 DEF Alone
  <2>5. Held'
    BY <2>1, <2>3, <2>4 DEF Held
  <2> QED BY <2>2, <2>5
<1>4. ASSUME NEW c \in Callers, Arm(c) PROVE PromiseKept' /\ Held'
  <2>1. /\ promised' = promised \cup {calling[c]} /\ at' = [at EXCEPT ![c] = "idle"]
        /\ calling' = [calling EXCEPT ![c] = NoJob] /\ UNCHANGED <<d1, pending>>
        /\ at[c] = "arm" /\ Holding(c)
    BY <1>4 DEF Arm, Return, Goto, Holding
  <2>2. d1[calling[c]] = "expired" \/ (d1[calling[c]] = "queued" /\ calling[c] \in pending)
    BY <1>0, <2>1 DEF Calls, Held, HubTypeOK
  <2>3. PromiseKept'
    BY <2>1, <2>2 DEF PromiseKept
  <2>4. \A e \in Callers : Holding(e)' => e # c /\ Holding(e) /\ calling'[e] = calling[e]
    BY <2>1 DEF Holding, HubTypeOK
  <2>5. \A e \in Callers : Holding(e)' /\ calling[e] = calling[c] => d1[calling[e]] = "expired"
    BY <2>1, <2>4 DEF Alone
  <2>6. Held'
    BY <2>1, <2>4, <2>5 DEF Held
  <2> QED BY <2>3, <2>6
<1>5. ASSUME Mark PROVE PromiseKept' /\ Held'
  <2>1. UNCHANGED <<pending, promised, calling, at>>
    BY <1>5 DEF Mark
  <2>2. \A j \in HubJobs : d1'[j] \in {d1[j], "expired"}
    BY <1>5 DEF Mark, HubTypeOK
  <2>3. PromiseKept'
    BY <2>1, <2>2 DEF PromiseKept, HubTypeOK
  <2>4. Held'
    BY <1>0, <2>1, <2>2 DEF Held, Holding
  <2> QED BY <2>3, <2>4
<1>6. ASSUME Forget PROVE PromiseKept' /\ Held'
  <2>1. /\ pending' = pending \ due /\ (\A j \in due : d1[j] = "expired")
        /\ UNCHANGED <<d1, promised, calling, at>>
    BY <1>6 DEF Forget, MarkedFirst
  <2> QED BY <2>1 DEF PromiseKept, Held, Holding
<1>7. ASSUME NEW c \in Callers, Known(c) \/ (\E j \in HubJobs : Enqueue(c, j))
      PROVE  PromiseKept' /\ Held'
  <2>1. ~Holding(c)' /\ UNCHANGED <<d1, pending, promised>>
    BY <1>7 DEF Known, Enqueue, Goto, Return, Holding, HubTypeOK
  <2>2. \A e \in Callers : e # c => Holding(e)' = Holding(e) /\ calling'[e] = calling[e]
    BY <1>7 DEF Known, Enqueue, Goto, Return, Holding, HubTypeOK
  <2> QED BY <2>1, <2>2 DEF PromiseKept, Held
<1>8. ASSUME Evict PROVE PromiseKept' /\ Held'
  BY <1>8 DEF Evict, PromiseKept, Held, Holding
<1>9. ASSUME \/ Ring \/ HubTick \/ UNCHANGED hubVars
             \/ (\E k \in Conns : Connect(k) \/ FetchStep(k) \/ Close(k))
      PROVE  PromiseKept' /\ Held'
  <2>1. UNCHANGED <<at, calling, d1, pending, promised>>
    BY <1>9 DEF Ring, HubTick, hubVars, Connect, FetchStep, Audited, Replace, Replaced, Accept, Close
  <2> QED BY <2>1 DEF PromiseKept, Held, Holding
<1> QED BY <1>1, <1>2, <1>3, <1>4, <1>5, <1>6, <1>7, <1>8, <1>9 DEF HubNext, EnqueueStep

LEMMA ArmedStep ==
  ASSUME HubTypeOK, Calls, Expiring, MarkedFirst, PromiseKept, Held, PromisedIsArmed, [HubNext]_hubVars
  PROVE  PromisedIsArmed'
<1> USE DEF store, bell, calls, socks
<1>1. \A j \in promised : d1[j] # "expired" => j \in pending /\ j \in HubJobs /\ expires[j] # Unset
  BY DEF PromiseKept, Expiring, HubTypeOK
<1>2. \A j \in HubJobs : expires[j] # Unset => expires'[j] = expires[j]
  BY ExpiringStep
<1>3. \A j \in HubJobs : d1'[j] # "expired" => d1[j] # "expired"
  <2>1. ASSUME NEW c \in Callers, Batch(c)
        PROVE  \A j \in HubJobs : d1'[j] # "expired" => d1[j] # "expired"
    BY <2>1 DEF Batch, HubTypeOK
  <2>2. ASSUME Mark PROVE \A j \in HubJobs : d1'[j] # "expired" => d1[j] # "expired"
    BY <2>2 DEF Mark, HubTypeOK
  <2>3. CASE ~Mark /\ \A c \in Callers : ~Batch(c)
    <3>1. UNCHANGED d1
      BY <2>3 DEF HubNext, EnqueueStep, Enqueue, Known, Insert, Undo, Arm, Ring, Forget, Connect,
         FetchStep, Audited, Replace, Replaced, Accept, Close, HubTick, Evict, hubVars
    <3> QED BY <3>1
  <2> QED BY <2>1, <2>2, <2>3
<1>4. ASSUME NEW c \in Callers, Arm(c) PROVE PromisedIsArmed'
  <2>1. /\ alarm' = Earliest(pending) /\ promised' = promised \cup {calling[c]}
        /\ UNCHANGED <<d1, expires>>
    BY <1>4 DEF Arm
  <2>2. d1[calling[c]] # "expired" => calling[c] \in pending
    BY <1>4 DEF Arm, Return, Goto, Held, Holding
  <2>3. \A j \in promised' : d1'[j] # "expired" => alarm' >= 0 /\ alarm' <= expires'[j]
    <3>1. \A j \in promised' : d1[j] # "expired" => j \in pending
      BY <1>1, <2>1, <2>2
    <3>2. Earliest(pending) \in Int /\ \A j \in pending : expires[j] \in Int
      BY EarliestBounds, DeviceHubAssumption DEF HubTypeOK, Unset, GivenUp
    <3> QED BY <2>1, <3>1, <3>2, EarliestBounds
  <2> QED BY <2>3 DEF PromisedIsArmed
<1>5. ASSUME alarm' = Earliest(pending'), pending' \subseteq pending,
             UNCHANGED <<d1, expires, promised>>,
             \A j \in pending \ pending' : d1[j] = "expired"
      PROVE  PromisedIsArmed'
  <2>1. \A j \in promised : d1[j] # "expired" => j \in pending'
    BY <1>1, <1>5
  <2>2. Earliest(pending') \in Int /\ \A j \in pending : expires[j] \in Int
    BY <1>5, EarliestBounds, DeviceHubAssumption DEF HubTypeOK, Unset, GivenUp
  <2>3. \A j \in promised' : d1'[j] # "expired" => alarm' >= 0 /\ alarm' <= expires'[j]
    BY <1>5, <2>1, <2>2, EarliestBounds
  <2> QED BY <2>3 DEF PromisedIsArmed
<1>6. ASSUME Ring PROVE PromisedIsArmed'
  <2>1. CASE ring' = "read"
    BY <2>1 DEF PromisedIsArmed
  <2> QED BY <1>5, <1>6, <2>1 DEF Ring
<1>7. ASSUME Forget PROVE PromisedIsArmed'
  BY <1>5, <1>7 DEF Forget, MarkedFirst
<1>8. ASSUME NEW k \in Conns, Audited(k) \/ Replaced(k) PROVE PromisedIsArmed'
  <2>1. CASE alarm' = Earliest(pending)
    BY <1>5, <1>8, <2>1 DEF Audited, Replaced
  <2>2. CASE UNCHANGED alarm
    BY <1>8, <2>2 DEF Audited, Replaced, PromisedIsArmed
  <2> QED BY <1>8, <2>1, <2>2 DEF Audited, Replaced, Accept
<1>9. ASSUME Mark PROVE PromisedIsArmed'
  <2>1. CASE ring' = "marked"
    BY <2>1 DEF PromisedIsArmed
  <2>2. CASE alarm' = GivenUp
    BY <2>2 DEF PromisedIsArmed
  <2>3. CASE alarm' = hubClock
    <3>1. alarm' >= 0 /\ alarm' <= hubClock'
      BY <1>9, <2>3, DeviceHubAssumption DEF Mark, HubTypeOK
    <3> QED BY <3>1 DEF PromisedIsArmed
  <2> QED BY <1>9, <2>1, <2>2, <2>3 DEF Mark
<1>10. ASSUME Evict PROVE PromisedIsArmed'
  <2>1. CASE ring = "off"
    BY <1>10, <2>1 DEF Evict, PromisedIsArmed
  <2>2. CASE ring # "off"
    <3>1. alarm' >= 0 /\ alarm' <= hubClock'
      BY <1>10, <2>2, DeviceHubAssumption DEF Evict, HubTypeOK
    <3> QED BY <3>1 DEF PromisedIsArmed
  <2> QED BY <2>1, <2>2
<1>11. ASSUME \/ \E c \in Callers : Known(c) \/ Insert(c) \/ Batch(c) \/ Undo(c)
                                      \/ \E j \in HubJobs : Enqueue(c, j)
              \/ (\E k \in Conns : Connect(k) \/ Replace(k) \/ Close(k))
              \/ HubTick \/ UNCHANGED hubVars
       PROVE  PromisedIsArmed'
  <2>1. UNCHANGED <<promised, alarm, ring>>
    BY <1>11 DEF Known, Insert, Batch, Undo, Enqueue, Connect, Replace, Close, HubTick, hubVars
  <2>2. hubClock' \in {hubClock, hubClock + 1}
    BY <1>11 DEF Known, Insert, Batch, Undo, Enqueue, Connect, Replace, Close, HubTick, hubVars
  <2>3. hubClock \in Int /\ alarm \in Int
    BY DeviceHubAssumption DEF HubTypeOK, Unset, GivenUp
  <2> QED BY <1>1, <1>2, <1>3, <2>1, <2>2, <2>3 DEF PromisedIsArmed, HubTypeOK
<1> QED BY <1>4, <1>6, <1>7, <1>8, <1>9, <1>10, <1>11 DEF HubNext, EnqueueStep, FetchStep

LEMMA NotLossyStep ==
  ASSUME HubTypeOK, Calls, MarkedFirst, Held, Alone, Lossy = FALSE, NotLossy, [HubNext]_hubVars
  PROVE  NotLossy'
<1> USE DEF store, bell, calls, socks
<1> DEFINE Doing(c) == at[c] \in {"batch", "undo"}
<1>0. \A e \in Callers : Doing(e) => calling[e] \in HubJobs /\ Holding(e)
  BY DEF Holding, Calls
<1>1. ASSUME NEW c \in Callers, Insert(c) PROVE NotLossy'
  <2>1. pending \subseteq pending' /\ UNCHANGED d1 /\ at[c] = "insert"
    BY <1>1 DEF Insert
  <2>2. CASE at' = [at EXCEPT ![c] = "idle"] /\ calling' = [calling EXCEPT ![c] = NoJob]
    BY <2>1, <2>2 DEF NotLossy, HubTypeOK
  <2>3. CASE calling[c] \notin pending /\ at' = [at EXCEPT ![c] = "batch"] /\ UNCHANGED calling
    <3>1. calling[c] \in HubJobs /\ d1[calling[c]] # "queued"
      BY <2>1, <2>3 DEF NotLossy, Calls
    <3> QED BY <2>1, <2>3, <3>1 DEF NotLossy, HubTypeOK
  <2> QED BY <1>1, <2>2, <2>3 DEF Insert, Goto, Return
<1>2. ASSUME NEW c \in Callers, Batch(c) PROVE NotLossy'
  <2>1. UNCHANGED <<pending, calling>> /\ at[c] = "batch"
    BY <1>2 DEF Batch
  <2>2. CASE /\ d1[calling[c]] = "absent" /\ d1' = [d1 EXCEPT ![calling[c]] = "queued"]
             /\ at' = [at EXCEPT ![c] = "arm"]
    <3>1. calling[c] \in pending /\ calling[c] \in HubJobs
      BY <1>0, <2>1, <2>2 DEF Held
    <3>2. \A e \in Callers : e # c /\ Doing(e) => calling[e] # calling[c]
      BY <1>0, <2>1, <2>2 DEF Alone
    <3>3. \A e \in Callers : Doing(e)' => e # c /\ Doing(e)
      BY <2>2 DEF HubTypeOK
    <3> QED BY <1>0, <2>1, <2>2, <3>1, <3>2, <3>3 DEF NotLossy, HubTypeOK
  <2>3. CASE UNCHANGED d1 /\ at' = [at EXCEPT ![c] = "undo"]
    BY <2>1, <2>3 DEF NotLossy, HubTypeOK
  <2> QED BY <1>2, <2>2, <2>3 DEF Batch, Goto
<1>3. ASSUME NEW c \in Callers, Undo(c) PROVE NotLossy'
  <2>1. /\ pending' = pending \ {calling[c]} /\ at' = [at EXCEPT ![c] = "idle"] /\ at[c] = "undo"
        /\ calling' = [calling EXCEPT ![c] = NoJob] /\ UNCHANGED d1
    BY <1>3 DEF Undo, Return, Goto
  <2>2. d1[calling[c]] # "queued"
    BY <2>1 DEF NotLossy
  <2>3. \A e \in Callers : Doing(e)' => Doing(e) /\ calling'[e] = calling[e]
    BY <2>1 DEF HubTypeOK
  <2> QED BY <2>1, <2>2, <2>3 DEF NotLossy
<1>4. ASSUME Mark PROVE NotLossy'
  <2>1. \A j \in HubJobs : d1'[j] \in {d1[j], "expired"}
    BY <1>4 DEF Mark, HubTypeOK
  <2> QED BY <1>0, <1>4, <2>1 DEF Mark, NotLossy
<1>5. ASSUME Forget PROVE NotLossy'
  BY <1>5 DEF Forget, MarkedFirst, NotLossy
<1>6. ASSUME NEW c \in Callers, Known(c) \/ Arm(c) \/ (\E j \in HubJobs : Enqueue(c, j)) PROVE NotLossy'
  <2>1. UNCHANGED <<d1, pending>>
    BY <1>6 DEF Known, Arm, Enqueue
  <2>2. \A e \in Callers : Doing(e)' => Doing(e) /\ calling'[e] = calling[e]
    BY <1>6 DEF Known, Arm, Enqueue, Goto, Return, HubTypeOK
  <2> QED BY <2>1, <2>2 DEF NotLossy
<1>7. ASSUME Evict PROVE NotLossy'
  BY <1>7 DEF Evict, NotLossy
<1>8. ASSUME \/ Ring \/ HubTick \/ UNCHANGED hubVars
             \/ (\E k \in Conns : Connect(k) \/ FetchStep(k) \/ Close(k))
      PROVE  NotLossy'
  <2>1. UNCHANGED <<at, calling, d1, pending>>
    BY <1>8 DEF Ring, HubTick, hubVars, Connect, FetchStep, Audited, Replace, Replaced, Accept, Close
  <2> QED BY <2>1 DEF NotLossy
<1> QED BY <1>1, <1>2, <1>3, <1>4, <1>5, <1>6, <1>7, <1>8 DEF HubNext, EnqueueStep

LEMMA NewestStep == HubTypeOK /\ Newest /\ [HubNext]_hubVars => Newest'
<1> SUFFICES ASSUME HubTypeOK, Newest, [HubNext]_hubVars, ~crossed' PROVE Newest'
  BY DEF Newest
<1> USE DEF store, bell, calls, socks
<1>0. ~crossed
  BY DEF HubNext, EnqueueStep, Enqueue, Known, Insert, Batch, Undo, Arm, Ring, Mark, Forget, Connect,
     FetchStep, Audited, Replace, Replaced, Close, HubTick, Evict, hubVars
<1>1. /\ \A k, m \in Conns : sock[k] = "replace" /\ sock[m] = "replace" => k = m
      /\ \A k \in Conns : sock[k] = "replace" => OpenConns \subseteq olds[k]
      /\ \A k, m \in OpenConns : k = m
  BY <1>0 DEF Newest
<1>2. ASSUME NEW k \in Conns, Connect(k) \/ Close(k) PROVE Newest'
  <2>1. \A m \in Conns : sock'[m] = "replace" => sock[m] = "replace" /\ olds'[m] = olds[m]
    BY <1>2 DEF Connect, Close, HubTypeOK
  <2>2. OpenConns' \subseteq OpenConns
    BY <1>2 DEF Connect, Close, OpenConns, HubTypeOK
  <2> QED BY <1>1, <2>1, <2>2 DEF Newest
<1>3. ASSUME NEW k \in Conns, Audited(k) PROVE Newest'
  <2>1. (\A m \in Conns : sock[m] # "replace") /\ sock[k] = "audit"
    BY <1>3 DEF Audited
  <2>2. CASE OpenConns = {} /\ sock' = [sock EXCEPT ![k] = "open"]
    <3>1. OpenConns' = {k} /\ \A m \in Conns : sock'[m] # "replace"
      BY <2>1, <2>2 DEF OpenConns, HubTypeOK
    <3> QED BY <3>1 DEF Newest
  <2>3. CASE olds' = [olds EXCEPT ![k] = OpenConns] /\ sock' = [sock EXCEPT ![k] = "replace"]
    <3>1. /\ OpenConns' = OpenConns /\ olds'[k] = OpenConns
          /\ \A m \in Conns : sock'[m] = "replace" => m = k
      BY <2>1, <2>3 DEF OpenConns, HubTypeOK
    <3> QED BY <1>1, <3>1 DEF Newest
  <2>4. CASE sock' = [sock EXCEPT ![k] = "closed"]
    <3>1. OpenConns' = OpenConns /\ \A m \in Conns : sock'[m] # "replace"
      BY <2>1, <2>4 DEF OpenConns, HubTypeOK
    <3> QED BY <1>1, <3>1 DEF Newest
  <2> QED BY <1>3, <2>2, <2>3, <2>4 DEF Audited, Accept
<1>4. ASSUME NEW k \in Conns, Replace(k) PROVE Newest'
  <2>1. PICK o \in olds[k] :
          /\ olds' = [olds EXCEPT ![k] = @ \ {o}]
          /\ sock' = [sock EXCEPT ![o] = IF @ = "open" THEN "closed" ELSE @]
    BY <1>4 DEF Replace
  <2>2. o \in Conns /\ sock[k] = "replace"
    BY <1>4, <2>1 DEF Replace, HubTypeOK
  <2>3. OpenConns' = OpenConns \ {o}
    BY <2>1, <2>2 DEF OpenConns, HubTypeOK
  <2>4. \A m \in Conns : sock'[m] = "replace" <=> sock[m] = "replace"
    BY <2>1, <2>2 DEF HubTypeOK
  <2>5. \A m \in Conns : sock[m] = "replace" => m = k
    BY <1>1, <2>2
  <2>6. OpenConns' \subseteq olds'[k]
    BY <1>1, <2>1, <2>2, <2>3 DEF HubTypeOK
  <2> QED BY <1>1, <2>3, <2>4, <2>5, <2>6 DEF Newest
<1>5. ASSUME NEW k \in Conns, Replaced(k) PROVE Newest'
  <2>1. sock[k] = "replace" /\ sock' = [sock EXCEPT ![k] = "open"] /\ OpenConns = {}
    BY <1>1, <1>5 DEF Replaced, Accept
  <2>2. OpenConns' = {k}
    BY <2>1 DEF OpenConns, HubTypeOK
  <2>3. \A m \in Conns : sock'[m] # "replace"
    BY <1>1, <2>1 DEF HubTypeOK
  <2> QED BY <2>2, <2>3 DEF Newest
<1>6. ASSUME Evict PROVE Newest'
  <2>1. OpenConns' = OpenConns /\ \A m \in Conns : sock'[m] # "replace"
    BY <1>6 DEF Evict, OpenConns
  <2> QED BY <1>1, <2>1 DEF Newest
<1>7. ASSUME \/ \E c \in Callers : EnqueueStep(c) \/ \E j \in HubJobs : Enqueue(c, j)
             \/ Ring \/ Mark \/ Forget \/ HubTick \/ UNCHANGED hubVars
      PROVE  Newest'
  <2>1. UNCHANGED <<sock, olds, crossed>>
    BY <1>7 DEF EnqueueStep, Enqueue, Known, Insert, Batch, Undo, Arm, Ring, Mark, Forget, HubTick,
       hubVars
  <2> QED BY <2>1 DEF Newest, OpenConns
<1> QED BY <1>2, <1>3, <1>4, <1>5, <1>6, <1>7 DEF HubNext, FetchStep

LEMMA HubInitial == HubInit => HubInv /\ NotLossy /\ Newest
<1> SUFFICES ASSUME HubInit PROVE HubInv /\ NotLossy /\ Newest
  OBVIOUS
<1>1. HubTypeOK
  <2>1. IsFiniteSet(pending) /\ Cardinality(pending) = 0
    BY FS_EmptySet DEF HubInit
  <2>2. /\ hubClock \in 0..HubMaxTime /\ evictions \in 0..MaxEvictions /\ failures \in 0..MaxFailures
        /\ Cardinality(pending) <= MaxPending
    BY <2>1, DeviceHubAssumption DEF HubInit
  <2>3. expires \in [HubJobs -> {Unset} \cup 1..(HubMaxTime + 1)]
    BY DEF HubInit
  <2>4. /\ olds \in [Conns -> SUBSET Conns]
        /\ sock \in [Conns -> {"new", "audit", "replace", "open", "closed"}]
    BY DEF HubInit
  <2> QED BY <2>2, <2>3, <2>4 DEF HubInit, HubTypeOK
<1>2. Expiring
  BY FS_EmptySet DEF HubInit, Expiring
<1>3. Calls /\ MarkedFirst /\ PromiseKept /\ Held /\ Alone /\ PromisedIsArmed
  BY DEF HubInit, Calls, MarkedFirst, PromiseKept, Held, Alone, Holding, PromisedIsArmed
<1>4. NotLossy /\ Newest
  BY DEF HubInit, NotLossy, Newest, OpenConns
<1> QED BY <1>1, <1>2, <1>3, <1>4 DEF HubInv

LEMMA HubStep == HubInv /\ [HubNext]_hubVars => HubInv'
<1> SUFFICES ASSUME HubInv, [HubNext]_hubVars PROVE HubInv'
  OBVIOUS
<1>1. HubTypeOK' /\ Calls' /\ Expiring'
  BY HubTypeStep, CallsStep, ExpiringStep DEF HubInv
<1>2. MarkedFirst' /\ PromiseKept' /\ Held' /\ Alone'
  BY MarkedStep, HeldStep, AloneStep DEF HubInv
<1>3. PromisedIsArmed'
  BY ArmedStep DEF HubInv
<1> QED BY <1>1, <1>2, <1>3 DEF HubInv

(***************************************************************************)
(* The inductive invariant of the Hub.                                     *)
(***************************************************************************)
THEOREM HubInvariant == HubSpec => []HubInv
BY HubInitial, HubStep, PTL DEF HubSpec

(***************************************************************************)
(* Every variable of the Hub keeps its type, and its table its bound.      *)
(***************************************************************************)
THEOREM HubTypeCorrect == HubSpec => []HubTypeOK
<1>1. HubInv => HubTypeOK
  BY DEF HubInv
<1> QED BY <1>1, HubInvariant, PTL

(***************************************************************************)
(* A job whose caller was told it is queued has an alarm in time: for any  *)
(* number of callers, evictions and failures of D1, whether or not D1      *)
(* commits what it reports as failed.                                      *)
(***************************************************************************)
THEOREM JobsAreArmed == HubSpec => []PromisedIsArmed
<1>1. HubInv => PromisedIsArmed
  BY DEF HubInv
<1> QED BY <1>1, HubInvariant, PTL

(***************************************************************************)
(* What D1 calls queued is in the Hub's table, and so is what a caller was *)
(* told is queued, as long as D1 does not commit what it reports as failed *)
(* -- the assumption is needed: the job is then undone here and queued     *)
(* there.                                                                  *)
(***************************************************************************)
THEOREM QueuedJobsAreKept ==
  ASSUME Lossy = FALSE
  PROVE  HubSpec => []QueuedIsKept
<1>1. HubInv /\ NotLossy /\ [HubNext]_hubVars => NotLossy'
  BY NotLossyStep DEF HubInv
<1>2. HubInv /\ NotLossy => QueuedIsKept
  BY DEF HubInv, NotLossy, PromiseKept, QueuedIsKept
<1> QED BY <1>1, <1>2, HubInitial, HubInvariant, PTL DEF HubSpec

(***************************************************************************)
(* A job leaves the table only when D1 has it as expired, or when its own  *)
(* enqueue takes it back.                                                  *)
(***************************************************************************)
THEOREM JobsLeaveMarked == HubSpec => LeavesMarked
<1>1. ASSUME HubInv, [HubNext]_hubVars
      PROVE  [\A j \in pending : j \notin pending' =>
                d1[j] = "expired" \/ \E c \in Callers : at[c] = "undo" /\ calling[c] = j]_hubVars
  <2> SUFFICES ASSUME NEW j \in pending, j \notin pending'
               PROVE  d1[j] = "expired" \/ \E c \in Callers : at[c] = "undo" /\ calling[c] = j
    OBVIOUS
  <2>1. CASE Forget
    BY <1>1, <2>1 DEF Forget, HubInv, MarkedFirst
  <2>2. ASSUME NEW c \in Callers, Undo(c) PROVE at[c] = "undo" /\ calling[c] = j
    BY <2>2 DEF Undo, Return, Goto
  <2>3. CASE ~Forget /\ \A c \in Callers : ~Undo(c)
    <3>1. pending \subseteq pending'
      BY <1>1, <2>3 DEF HubNext, EnqueueStep, Enqueue, Known, Insert, Batch, Arm, Ring, Mark, Connect,
         FetchStep, Audited, Replace, Replaced, Close, HubTick, Evict, hubVars, store
    <3> QED BY <3>1
  <2> QED BY <2>1, <2>2, <2>3
<1> QED BY <1>1, HubInvariant, PTL DEF HubSpec, LeavesMarked

(***************************************************************************)
(* The device has one open connection at most, as long as no connection    *)
(* arrives while another is closing the older ones.                        *)
(***************************************************************************)
THEOREM OneConnectionAtATime == HubSpec => []OneConnection
<1>1. HubTypeOK /\ Newest => OneConnection
  <2> SUFFICES ASSUME HubTypeOK, Newest, ~crossed PROVE Cardinality(OpenConns) <= 1
    BY DEF OneConnection
  <2>1. CASE OpenConns = {}
    BY <2>1, FS_EmptySet
  <2>2. CASE OpenConns # {}
    <3>1. PICK k \in OpenConns : OpenConns = {k}
      BY <2>2 DEF Newest
    <3> QED BY <3>1, FS_Singleton
  <2> QED BY <2>1, <2>2
<1> QED BY <1>1, HubInitial, NewestStep, HubTypeCorrect, PTL DEF HubSpec
=============================================================================

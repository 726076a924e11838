---------------------------- MODULE DeviceAgent ----------------------------
(***************************************************************************)
(* The device agent: how agent/src/device.rs takes a job of the cloud      *)
(* through the journal, the gates, the executor and the answer, and how    *)
(* events and hook reports pass through the spool.  The daemon, the CLI    *)
(* and the hooks are processes of their own; the daemon may die at any     *)
(* step, a write may fail, a frame may be lost or come again.  The cloud   *)
(* is outside: it sends a job again and again until the job expires.       *)
(***************************************************************************)
EXTENDS Integers, FiniteSets, FiniteSetsExt

CONSTANTS
  Jobs,         \* the job ids the cloud ever issues
  PauseJobs,    \* those of kind device.pause; the others are unsupported
  BadJobs,      \* those with a body that does not validate
  Life,         \* expires_at - issued_at
  Retention,    \* RETENTION_MS of the journal
  Window,       \* WINDOW_MS: how old a frame may be
  Behind,       \* how far this device's clock is behind the cloud's
  SpoolLimit,   \* MAX_ITEMS of the spool
  MaxTime, MaxEvents, MaxReports, MaxFaults, MaxCrashes  \* bounds

ASSUME DeviceAssumption ==
  /\ PauseJobs \subseteq Jobs /\ BadJobs \subseteq Jobs
  /\ Life \in Nat \ {0} /\ Retention \in Nat /\ Life <= Retention
  /\ Window \in Nat /\ Behind \in Int
  /\ SpoolLimit \in Nat /\ MaxTime \in Nat
  /\ MaxEvents \in Nat /\ MaxReports \in Nat
  /\ MaxFaults \in Nat /\ MaxCrashes \in Nat

VARIABLES
  clock,     \* the cloud's clock
  issued,    \* when each job was issued; -1 before that
  disk,      \* the journal's files
  mem,       \* the journal's entries in memory
  conn,      \* "dead" (no daemon), "offline", "online"
  pc, cur,   \* where the daemon is in on_job, and with which job
  paused,    \* the pause file exists
  spool,     \* the spool's files: events and hook reports
  sent,      \* the events sent on this connection
  events,    \* how many events were made
  reports,   \* how many hook reports were made
  late,      \* reports the daemon will take although their hook gave up waiting
  session,   \* the report the session's record was written from
  runs,      \* how often each job's executor ran
  blind,     \* history: the jobs whose unreadable record was forgotten before they expired
  answers,   \* the results the cloud has of each job
  received,  \* the events the cloud has
  faults, crashes  \* failed writes and deaths so far

journal == <<disk, mem>>
job     == <<pc, cur>>
queue   == <<spool, sent, events>>
hooks   == <<reports, late, session>>
cloud   == <<answers, received>>
past    == <<runs, blind>>
bounds  == <<faults, crashes>>
vars == <<clock, issued, journal, conn, job, paused, queue, hooks, past, cloud, bounds>>

Never == -1
None == [at |-> 0, kept |-> Never, result |-> "absent"]
Torn == [at |-> 0, kept |-> Never, result |-> "torn"]

now == clock - Behind
Expires(j) == issued[j] + Life

Event(n)  == <<"event", n>>
Report(n) == <<"hook", n>>
SpooledEvents  == {i \in spool : i[1] = "event"}
SpooledReports == {i \in spool : i[1] = "hook"}

Results == {"none", "done", "rejected", "failed"}
Times   == (0 - Behind)..(MaxTime - Behind)
Entry   == [at : Times, kept : {Never} \cup 0..(MaxTime + Life), result : Results]
Items   == ({"event"} \X (1..MaxEvents)) \cup ({"hook"} \X (1..MaxReports))

(***************************************************************************)
(* The type invariant.                                                     *)
(***************************************************************************)
TypeOK ==
  /\ clock \in 0..MaxTime
  /\ issued \in [Jobs -> {Never} \cup 0..MaxTime]
  /\ disk \in [Jobs -> Entry \cup {None, Torn}]
  /\ mem \in [Jobs -> Entry \cup {None}]
  /\ conn \in {"dead", "offline", "online"}
  /\ pc \in {"idle", "run", "emit", "finish", "reply"} /\ cur \in Jobs \cup {"none"}
  /\ paused \in BOOLEAN
  /\ spool \subseteq Items /\ sent \subseteq Items
  /\ events \in 0..MaxEvents /\ reports \in 0..MaxReports
  /\ late \subseteq 1..MaxReports /\ session \in 0..MaxReports
  /\ runs \in [Jobs -> Nat] /\ blind \subseteq Jobs
  /\ answers \in [Jobs -> SUBSET Results]
  /\ received \subseteq Items
  /\ faults \in 0..MaxFaults /\ crashes \in 0..MaxCrashes

Init ==
  /\ clock = 0
  /\ issued = [j \in Jobs |-> Never]
  /\ disk = [j \in Jobs |-> None] /\ mem = [j \in Jobs |-> None]
  /\ conn = "dead" /\ pc = "idle" /\ cur = "none"
  /\ paused = FALSE
  /\ spool = {} /\ sent = {} /\ events = 0
  /\ reports = 0 /\ late = {} /\ session = 0
  /\ runs = [j \in Jobs |-> 0] /\ blind = {}
  /\ answers = [j \in Jobs |-> {}] /\ received = {}
  /\ faults = 0 /\ crashes = 0

\* a write that may fail: write_atomic renames as its last step
Works  == UNCHANGED faults
Breaks == faults < MaxFaults /\ faults' = faults + 1

-----------------------------------------------------------------------------
(***************************************************************************)
(* The journal.                                                            *)
(***************************************************************************)
Record(j, entry) ==
  /\ disk' = [disk EXCEPT ![j] = entry]
  /\ mem' = [mem EXCEPT ![j] = entry]

\* mutant: an entry is kept for 24 hours of this device's clock, no longer
OutlivedRetention(entry) == now - entry.at > Retention

\* prune: older than 24 hours, and past the job's own expiry
Outlived(entry) ==
  /\ now - entry.at > Retention
  /\ entry.kept # Never => now >= entry.kept

\* mutant: an unreadable file is taken as it is
LoadedRaw(j) == disk[j]

\* an unreadable file is a job received, with nothing known of its outcome
Loaded(j) == IF disk[j] = Torn THEN [at |-> now, kept |-> Never, result |-> "none"]
                               ELSE disk[j]

\* Journal::open, at the daemon's start
Start ==
  /\ conn = "dead"
  /\ conn' = "offline"
  /\ LET old == {j \in Jobs : disk[j] # None /\ Outlived(Loaded(j))}
     IN  /\ mem' = [j \in Jobs |-> IF j \in old THEN None ELSE Loaded(j)]
         /\ disk' = [j \in Jobs |-> IF j \in old THEN None ELSE disk[j]]
         /\ blind' = blind \cup {j \in old : disk[j].kept = Never /\ now < Expires(j)}
  /\ UNCHANGED <<clock, issued, job, paused, queue, hooks, runs, cloud, bounds>>

-----------------------------------------------------------------------------
(***************************************************************************)
(* Jobs.  on_frame is synchronous: the connection reads no other frame     *)
(* until the frames it returns are sent.                                   *)
(***************************************************************************)
Issue(j) ==
  /\ issued[j] = Never
  /\ issued' = [issued EXCEPT ![j] = clock]
  /\ UNCHANGED <<clock, journal, conn, job, paused, queue, hooks, past, cloud, bounds>>

\* a frame of the cloud, sealed before the job expired, that the verifier does
\* not refuse as stale
Arrives(j) ==
  /\ conn = "online" /\ pc = "idle" /\ issued[j] # Never
  /\ \E ts \in issued[j]..clock :
       /\ ts < Expires(j)
       /\ now - ts <= Window /\ ts - now <= Window

\* a job that validates keeps its record until it expires
NewEntry(j) ==
  [at |-> now, kept |-> IF j \in BadJobs THEN Never ELSE Expires(j), result |-> "none"]

\* mutant: the job runs, and is journalled with its result
JournalLate(j) ==
  /\ Arrives(j) /\ mem[j] = None
  /\ Works
  /\ mem' = [mem EXCEPT ![j] = NewEntry(j)]
  /\ cur' = j /\ pc' = "run"
  /\ UNCHANGED <<clock, issued, disk, conn, paused, queue, hooks, past, cloud, crashes>>

\* durable before it is acknowledged; if it cannot be, there is no answer
Journal(j) ==
  /\ Arrives(j) /\ mem[j] = None
  /\ \/ /\ Works
        /\ Record(j, NewEntry(j))
        /\ cur' = j /\ pc' = "run"
     \/ /\ Breaks
        /\ UNCHANGED <<journal, job>>
  /\ UNCHANGED <<clock, issued, conn, paused, queue, hooks, past, cloud, crashes>>

\* a duplicate: answered again; one without a result was interrupted
Duplicate(j) ==
  /\ Arrives(j) /\ mem[j] # None
  /\ LET result == IF mem[j].result = "none" THEN "failed" ELSE mem[j].result
     IN  /\ \/ Works /\ Record(j, [mem[j] EXCEPT !.result = result])
            \/ Breaks /\ mem[j].result = "none" /\ UNCHANGED journal
         /\ \/ answers' = [answers EXCEPT ![j] = @ \cup {result}] /\ UNCHANGED conn
            \/ UNCHANGED answers /\ conn' = "offline"
  /\ UNCHANGED <<clock, issued, job, paused, queue, hooks, past, received, crashes>>

\* on_job has returned
Idle == pc' = "idle" /\ cur' = "none"

Result(result) == mem' = [mem EXCEPT ![cur].result = result]

\* the gates before the executor, in their order
Refused == cur \in BadJobs \/ cur \notin PauseJobs \/ mem[cur].at >= mem[cur].kept

Refuse ==
  /\ pc = "run" /\ Refused
  /\ Result("rejected") /\ pc' = "finish"
  /\ UNCHANGED <<clock, issued, disk, conn, cur, paused, queue, hooks, past, cloud, bounds>>

\* device.pause: the file may exist already, and creating it or filling it may fail
Execute ==
  /\ pc = "run" /\ ~Refused
  /\ runs' = [runs EXCEPT ![cur] = @ + 1]
  /\ \/ Works /\ ~paused /\ paused' = TRUE /\ Result("done") /\ pc' = "emit"
     \/ Works /\ paused /\ UNCHANGED paused /\ Result("done") /\ pc' = "finish"
     \/ Breaks /\ paused' \in {paused, TRUE} /\ Result("failed") /\ pc' = "finish"
  /\ UNCHANGED <<clock, issued, disk, conn, cur, queue, hooks, blind, cloud, crashes>>

\* Spool::push of an event; a full spool or a failed write drops it
NewEvent ==
  /\ events < MaxEvents /\ events' = events + 1
  /\ \/ /\ Works /\ Cardinality(spool) < SpoolLimit
        /\ spool' = spool \cup {Event(events + 1)}
     \/ /\ Works /\ Cardinality(spool) >= SpoolLimit /\ UNCHANGED spool
     \/ /\ Breaks /\ UNCHANGED spool

Emit ==
  /\ pc = "emit"
  /\ NewEvent
  /\ pc' = "finish"
  /\ UNCHANGED <<clock, issued, journal, conn, cur, paused, sent, hooks, past, cloud, crashes>>

\* the result was computed in memory first: a failed write leaves neither copy
Finish ==
  /\ pc = "finish"
  /\ \/ Works /\ Record(cur, mem[cur]) /\ pc' = "reply" /\ UNCHANGED <<cur, cloud, conn>>
     \/ /\ Breaks /\ UNCHANGED disk /\ Result("none") /\ Idle
        /\ \/ answers' = [answers EXCEPT ![cur] = @ \cup {mem[cur].result}] /\ UNCHANGED conn
           \/ UNCHANGED answers /\ conn' = "offline"
        /\ UNCHANGED received
  /\ UNCHANGED <<clock, issued, paused, queue, hooks, past, crashes>>

\* ack, result and pending events; the connection may fail before all are out
Reply ==
  /\ pc = "reply" /\ Idle
  /\ \/ /\ answers' = [answers EXCEPT ![cur] = @ \cup {mem[cur].result}]
        /\ sent' = sent \cup SpooledEvents
        /\ received' = received \cup (SpooledEvents \ sent)
        /\ UNCHANGED conn
     \/ conn' = "offline" /\ UNCHANGED <<cloud, sent>>
  /\ UNCHANGED <<clock, issued, journal, paused, spool, events, hooks, past, bounds>>

-----------------------------------------------------------------------------
(***************************************************************************)
(* The connection and the events.                                          *)
(***************************************************************************)
\* between two connections: the daemon dials again after its backoff
Dialling == conn = "offline" /\ pc = "idle"

\* mutant: an event leaves the spool when it is sent
OpenForgetting ==
  /\ Dialling
  /\ conn' = "online"
  /\ sent' = SpooledEvents
  /\ spool' = spool \ SpooledEvents
  /\ \/ received' = received \cup SpooledEvents
     \/ UNCHANGED received
  /\ UNCHANGED <<clock, issued, journal, job, paused, events, hooks, past, answers, bounds>>

\* on_open: every event that is not acknowledged goes out (again)
Open ==
  /\ Dialling
  /\ conn' = "online"
  /\ sent' = SpooledEvents
  /\ \/ received' = received \cup SpooledEvents
     \/ UNCHANGED received
  /\ UNCHANGED <<clock, issued, journal, job, paused, spool, events, hooks, past, answers, bounds>>

Lose ==
  /\ conn = "online" /\ pc = "idle"
  /\ conn' = "offline"
  /\ UNCHANGED <<clock, issued, journal, job, paused, queue, hooks, past, cloud, bounds>>

\* an ack of the cloud removes the event; the removal may fail
Acknowledged(e) ==
  /\ conn = "online" /\ pc = "idle" /\ e \in received
  /\ sent' = sent \ {e}
  /\ \/ Works /\ spool' = spool \ {e}
     \/ Breaks /\ UNCHANGED spool
  /\ UNCHANGED <<clock, issued, journal, conn, job, paused, events, hooks, past, cloud, crashes>>

-----------------------------------------------------------------------------
(***************************************************************************)
(* The CLI: pause and resume, from another process.                        *)
(***************************************************************************)
Pause ==
  /\ ~paused /\ paused' = TRUE
  /\ NewEvent
  /\ UNCHANGED <<clock, issued, journal, conn, job, sent, hooks, past, cloud, crashes>>

Resume ==
  /\ paused /\ paused' = FALSE
  /\ NewEvent
  /\ UNCHANGED <<clock, issued, journal, conn, job, sent, hooks, past, cloud, crashes>>

-----------------------------------------------------------------------------
(***************************************************************************)
(* Hook reports.  A hook waits a moment for the daemon; when no answer     *)
(* comes it spools the report, which the daemon may still handle.          *)
(***************************************************************************)
\* the session's record: the last one written is what is known of it
RecordSession(n) == session' = n

Hook ==
  /\ reports < MaxReports /\ reports' = reports + 1
  /\ \/ /\ conn # "dead" /\ RecordSession(reports + 1)
        /\ UNCHANGED <<spool, late>>
     \/ /\ spool' = (IF Cardinality(spool) < SpoolLimit
                       THEN spool \cup {Report(reports + 1)} ELSE spool)
        /\ late' \in {late} \cup (IF conn = "dead" THEN {} ELSE {late \cup {reports + 1}})
        /\ UNCHANGED session
  /\ UNCHANGED <<clock, issued, journal, conn, job, paused, sent, events, past, cloud, bounds>>

HandleLate(n) ==
  /\ conn # "dead" /\ n \in late
  /\ late' = late \ {n} /\ RecordSession(n)
  /\ UNCHANGED <<clock, issued, journal, conn, job, paused, queue, reports, past, cloud, bounds>>

\* drain_hook_spool: oldest first, each report removed even if recording it failed
Drain ==
  /\ conn # "dead" /\ SpooledReports # {}
  /\ spool' = spool \ SpooledReports
  /\ \/ Works /\ RecordSession(Max({i[2] : i \in SpooledReports}))
     \/ Breaks /\ UNCHANGED session
  /\ UNCHANGED <<clock, issued, journal, conn, job, paused, sent, events, reports, late, past,
                 cloud, crashes>>

-----------------------------------------------------------------------------
Tick ==
  /\ clock < MaxTime
  /\ clock' = clock + 1
  /\ UNCHANGED <<issued, journal, conn, job, paused, queue, hooks, past, cloud, bounds>>

\* the daemon dies: memory, connection and unanswered reports are gone
Die ==
  /\ conn # "dead" /\ crashes < MaxCrashes
  /\ conn' = "dead" /\ crashes' = crashes + 1
  /\ Idle
  /\ mem' = [j \in Jobs |-> None]
  /\ sent' = {} /\ late' = {}
  /\ UNCHANGED <<clock, issued, disk, paused, spool, events, reports, session, past, cloud,
                 faults>>

\* a journal file turns unreadable
Damage(j) ==
  /\ disk[j] \in Entry
  /\ Breaks
  /\ disk' = [disk EXCEPT ![j] = Torn]
  /\ UNCHANGED <<clock, issued, mem, conn, job, paused, queue, hooks, past, cloud, crashes>>

Step == Refuse \/ Execute \/ Emit \/ Finish \/ Reply

Next ==
  \/ Start \/ Open \/ Lose \/ Step
  \/ \E j \in Jobs : Issue(j) \/ Journal(j) \/ Duplicate(j) \/ Damage(j)
  \/ \E e \in received : Acknowledged(e)
  \/ Pause \/ Resume
  \/ Hook \/ Drain \/ \E n \in late : HandleLate(n)
  \/ Tick \/ Die

Spec == Init /\ [][Next]_vars

-----------------------------------------------------------------------------
(***************************************************************************)
(* The journal "turns that into runs at most once": however often a job is *)
(* delivered, whenever the daemon dies, whatever cannot be written, and    *)
(* with the device's clock behind the cloud's, no job runs a second time.  *)
(* The exception is a job whose record had become unreadable and was       *)
(* forgotten while the job had still to expire by the device's clock.      *)
(***************************************************************************)
RunsAtMostOnce == \A j \in Jobs \ blind : runs[j] <= 1

(***************************************************************************)
(* A job the cloud has an answer about never runs after that: neither the  *)
(* one that was refused nor the one called interrupted, whose owner may    *)
(* have sent the instruction again; with the same exception.               *)
(***************************************************************************)
AnsweredNeverRuns ==
  [][\A j \in Jobs \ blind : runs'[j] # runs[j] => answers[j] = {}]_vars

(***************************************************************************)
(* An event the spool has taken is there until the cloud has it, through   *)
(* deaths, lost connections and acknowledgements that are not recorded.    *)
(***************************************************************************)
EventsAreKept ==
  [][\A e \in SpooledEvents : e \in spool' \/ e \in received]_vars

(***************************************************************************)
(* A session's record is the last report of its hooks.                     *)
(***************************************************************************)
SessionIsLatest == [][session' >= session]_vars

\* "It is never executed a second time": of a record that nothing is known of but
\* that it is there, the job's expiry is not known either.
NeverRunTwice == \A j \in Jobs : runs[j] <= 1
=============================================================================

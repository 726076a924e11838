------------------------------ MODULE DeviceHub ------------------------------
(***************************************************************************)
(* The Durable Object of one device, cloud/src/hub.ts: the queue of its    *)
(* jobs, kept in the Hub's own storage and mirrored in the shared database *)
(* D1, the alarm that expires them, and the device's connections.  Between *)
(* two awaits a handler runs alone; at an await other handlers run, and    *)
(* the object may be evicted.  Storage, alarm and sockets survive that.    *)
(***************************************************************************)
EXTENDS Integers, FiniteSets, FiniteSetsExt

CONSTANTS
  HubJobs,     \* the jobs callers may enqueue
  Callers,     \* the enqueue calls that may be under way at a time
  Conns,       \* the connections the device ever opens
  MaxPending,  \* MAX_PENDING_JOBS
  Lossy,       \* TRUE: a D1 transaction may be reported failed and yet be committed
  HubMaxTime, MaxEvictions, MaxFailures \* bounds

ASSUME DeviceHubAssumption ==
  /\ MaxPending \in Nat \ {0} /\ Lossy \in BOOLEAN
  /\ HubMaxTime \in Nat /\ MaxEvictions \in Nat /\ MaxFailures \in Nat

VARIABLES
  hubClock,     \* Date.now(), in units of a job's life
  expires,      \* expires_at of each job; Unset before it is first enqueued
  pending,      \* the Hub's table
  d1,           \* the status of each job's row in D1
  alarm,        \* when the alarm goes off, or Unset
  ring, due,    \* where the alarm handler is, and the jobs it read
  at, calling,  \* where each enqueue is, and its job
  promised,     \* the jobs some caller was told are queued now
  repeated,     \* the jobs some caller was told are in the Hub's queue already
  sock,         \* the state of each connection
  olds,         \* the connections a fetch still has to close
  crossed,      \* TRUE: a fetch looked for older connections while another was closing them
  evictions, failures

store == <<pending, d1>>
bell  == <<alarm, ring, due>>
calls == <<at, calling, promised, repeated>>
socks == <<sock, olds, crossed>>
hubVars  == <<hubClock, expires, store, bell, calls, socks, evictions, failures>>

Unset   == 0 - 1
GivenUp == 0 - 2   \* the runtime rings no more
NoJob   == "none"

(***************************************************************************)
(* The type invariant; the queue never holds more jobs than it may.        *)
(***************************************************************************)
HubTypeOK ==
  /\ hubClock \in 0..HubMaxTime
  /\ expires \in [HubJobs -> {Unset} \cup 1..(HubMaxTime + 1)]
  /\ pending \subseteq HubJobs /\ Cardinality(pending) <= MaxPending
  /\ d1 \in [HubJobs -> {"absent", "queued", "expired"}]
  /\ alarm \in {Unset, GivenUp} \cup 0..(HubMaxTime + 1)
  /\ ring \in {"off", "read", "marked"} /\ due \subseteq HubJobs
  /\ at \in [Callers -> {"idle", "known", "insert", "batch", "undo", "arm"}]
  /\ calling \in [Callers -> HubJobs \cup {NoJob}]
  /\ promised \subseteq HubJobs /\ repeated \subseteq HubJobs
  /\ sock \in [Conns -> {"new", "audit", "replace", "open", "closed"}]
  /\ olds \in [Conns -> SUBSET Conns]
  /\ crossed \in BOOLEAN
  /\ evictions \in 0..MaxEvictions /\ failures \in 0..MaxFailures

HubInit ==
  /\ hubClock = 0
  /\ expires = [j \in HubJobs |-> Unset]
  /\ pending = {} /\ d1 = [j \in HubJobs |-> "absent"]
  /\ alarm = Unset /\ ring = "off" /\ due = {}
  /\ at = [c \in Callers |-> "idle"] /\ calling = [c \in Callers |-> NoJob]
  /\ promised = {} /\ repeated = {}
  /\ sock = [k \in Conns |-> "new"] /\ olds = [k \in Conns |-> {}] /\ crossed = FALSE
  /\ evictions = 0 /\ failures = 0

\* D1 did not do it
Fails == failures < MaxFailures /\ failures' = failures + 1

\* armAlarm: one alarm, at the earliest expiry
Earliest(jobs) == IF jobs = {} THEN Unset ELSE Min({expires[j] : j \in jobs})

-----------------------------------------------------------------------------
(***************************************************************************)
(* enqueue                                                                 *)
(***************************************************************************)
Goto(c, from, to) == at[c] = from /\ at' = [at EXCEPT ![c] = to]
Return(c, from) == Goto(c, from, "idle") /\ calling' = [calling EXCEPT ![c] = NoJob]

\* the switch is on and the job is well formed and not expired; a refusal, or
\* a switch that cannot be read, changes nothing
Enqueue(c, j) ==
  /\ Goto(c, "idle", "known")
  /\ calling' = [calling EXCEPT ![c] = j]
  /\ \/ expires[j] = Unset /\ expires' = [expires EXCEPT ![j] = hubClock + 1]
     \/ expires[j] > hubClock /\ UNCHANGED expires
  /\ UNCHANGED <<hubClock, store, bell, promised, repeated, socks, evictions, failures>>

\* D1 knows the job, in whatever status
Known(c) ==
  /\ at[c] = "known"
  /\ \/ /\ d1[calling[c]] = "absent" /\ Goto(c, "known", "insert") /\ UNCHANGED calling
        /\ UNCHANGED failures
     \/ /\ d1[calling[c]] # "absent" /\ Return(c, "known") /\ UNCHANGED failures
     \/ /\ Fails /\ Return(c, "known")
  /\ UNCHANGED <<hubClock, expires, store, bell, promised, repeated, socks, evictions>>

\* mutant: duplicate and bound are looked at before the awaits
InsertUnbounded(c) ==
  /\ Goto(c, "insert", "batch") /\ UNCHANGED calling /\ pending' = pending \cup {calling[c]}
  /\ UNCHANGED <<hubClock, expires, d1, bell, promised, repeated, socks, evictions, failures>>

\* duplicate check, bound and insert, with no await between them
Insert(c) ==
  /\ at[c] = "insert"
  /\ \/ /\ calling[c] \in pending /\ Return(c, "insert")
        /\ repeated' = repeated \cup {calling[c]} /\ UNCHANGED pending
     \/ /\ calling[c] \notin pending /\ Cardinality(pending) >= MaxPending
        /\ Return(c, "insert") /\ UNCHANGED <<pending, repeated>>
     \/ /\ calling[c] \notin pending /\ Cardinality(pending) < MaxPending
        /\ Goto(c, "insert", "batch") /\ UNCHANGED calling
        /\ pending' = pending \cup {calling[c]} /\ UNCHANGED repeated
  /\ UNCHANGED <<hubClock, expires, d1, bell, promised, socks, evictions, failures>>

\* the job row and its audit row in one transaction; it conflicts with a row
\* that is there already
Batch(c) ==
  /\ at[c] = "batch"
  /\ \/ /\ d1[calling[c]] = "absent" /\ d1' = [d1 EXCEPT ![calling[c]] = "queued"]
        /\ Goto(c, "batch", "arm") /\ UNCHANGED failures
     \/ /\ d1[calling[c]] # "absent" /\ Goto(c, "batch", "undo")
        /\ UNCHANGED <<d1, failures>>
     \/ /\ Fails /\ Goto(c, "batch", "undo")
        /\ \/ UNCHANGED d1
           \/ Lossy /\ d1[calling[c]] = "absent" /\ d1' = [d1 EXCEPT ![calling[c]] = "queued"]
  /\ UNCHANGED <<hubClock, expires, pending, bell, calling, promised, repeated, socks, evictions>>

Undo(c) ==
  /\ Return(c, "undo")
  /\ pending' = pending \ {calling[c]}
  /\ UNCHANGED <<hubClock, expires, d1, bell, promised, repeated, socks, evictions, failures>>

\* mutant: the alarm is set to the new job's expiry
ArmNewest(c) ==
  /\ Return(c, "arm")
  /\ alarm' = expires[calling[c]]
  /\ promised' = promised \cup {calling[c]}
  /\ UNCHANGED <<hubClock, expires, store, ring, due, repeated, socks, evictions, failures>>

Arm(c) ==
  /\ Return(c, "arm")
  /\ alarm' = Earliest(pending)
  /\ promised' = promised \cup {calling[c]}
  /\ UNCHANGED <<hubClock, expires, store, ring, due, repeated, socks, evictions, failures>>

-----------------------------------------------------------------------------
(***************************************************************************)
(* alarm: marked in D1 first, then forgotten here.                         *)
(***************************************************************************)
Ring ==
  /\ ring = "off" /\ alarm >= 0 /\ alarm <= hubClock
  /\ LET over == {j \in pending : expires[j] <= hubClock}
     IN  IF over = {}
           THEN alarm' = Earliest(pending) /\ UNCHANGED <<ring, due>>
           ELSE ring' = "read" /\ due' = over /\ alarm' = Unset
  /\ UNCHANGED <<hubClock, expires, store, calls, socks, evictions, failures>>

\* mutant: an UPDATE where the code has an upsert
MarkUpdate ==
  /\ ring = "read"
  /\ ring' = "marked"
  /\ d1' = [j \in HubJobs |-> IF j \in due /\ d1[j] = "queued" THEN "expired" ELSE d1[j]]
  /\ UNCHANGED <<hubClock, expires, pending, alarm, due, calls, socks, evictions, failures>>

\* if it throws the runtime rings again, until it has had enough
Mark ==
  /\ ring = "read"
  /\ \/ /\ ring' = "marked"
        /\ d1' = [j \in HubJobs |-> IF j \in due THEN "expired" ELSE d1[j]]
        /\ UNCHANGED <<alarm, due, failures>>
     \/ /\ Fails
        /\ ring' = "off" /\ due' = {} /\ alarm' \in {hubClock, GivenUp}
        /\ UNCHANGED d1
  /\ UNCHANGED <<hubClock, expires, pending, calls, socks, evictions>>

Forget ==
  /\ ring = "marked" /\ ring' = "off"
  /\ pending' = pending \ due /\ due' = {}
  /\ alarm' = Earliest(pending \ due)
  /\ UNCHANGED <<hubClock, expires, d1, calls, socks, evictions, failures>>

-----------------------------------------------------------------------------
(***************************************************************************)
(* fetch: the connection is audited, then the older ones are closed one by *)
(* one, each with its audit row, then it is accepted.                      *)
(***************************************************************************)
OpenConns == {k \in Conns : sock[k] = "open"}

Connect(k) ==
  /\ sock[k] = "new"
  /\ sock' = [sock EXCEPT ![k] = "audit"]
  /\ UNCHANGED <<hubClock, expires, store, bell, calls, olds, crossed, evictions, failures>>

\* accepted at once, the alarm armed again
Accept(k) ==
  /\ sock' = [sock EXCEPT ![k] = "open"]
  /\ alarm' = Earliest(pending)

\* mutant: the older connections were collected before the audit's await
AuditedLate(k) ==
  /\ sock[k] = "audit"
  /\ Accept(k)
  /\ UNCHANGED <<hubClock, expires, store, ring, due, calls, olds, crossed, evictions, failures>>

\* a connection that cannot be recorded is not accepted
Audited(k) ==
  /\ sock[k] = "audit"
  /\ \/ /\ OpenConns = {} /\ Accept(k) /\ UNCHANGED <<olds, failures>>
     \/ /\ OpenConns # {} /\ olds' = [olds EXCEPT ![k] = OpenConns]
        /\ sock' = [sock EXCEPT ![k] = "replace"]
        /\ UNCHANGED <<alarm, failures>>
     \/ /\ Fails /\ sock' = [sock EXCEPT ![k] = "closed"]
        /\ UNCHANGED <<alarm, olds>>
  /\ crossed' = (crossed \/ \E m \in Conns : sock[m] = "replace")
  /\ UNCHANGED <<hubClock, expires, store, ring, due, calls, evictions>>

\* one turn of the loop over getWebSockets(), each ending in an await
Replace(k) ==
  /\ sock[k] = "replace" /\ olds[k] # {}
  /\ \E o \in olds[k] :
       /\ olds' = [olds EXCEPT ![k] = @ \ {o}]
       /\ sock' = [sock EXCEPT ![o] = IF @ = "open" THEN "closed" ELSE @]
  /\ UNCHANGED <<hubClock, expires, store, bell, calls, crossed, evictions, failures>>

Replaced(k) ==
  /\ sock[k] = "replace" /\ olds[k] = {}
  /\ Accept(k)
  /\ UNCHANGED <<hubClock, expires, store, ring, due, calls, olds, crossed, evictions, failures>>

\* the device or the network closes it, or it sends a frame (a protocol error)
Close(k) ==
  /\ sock[k] = "open"
  /\ sock' = [sock EXCEPT ![k] = "closed"]
  /\ UNCHANGED <<hubClock, expires, store, bell, calls, olds, crossed, evictions, failures>>

-----------------------------------------------------------------------------
HubTick ==
  /\ hubClock < HubMaxTime /\ hubClock' = hubClock + 1
  /\ UNCHANGED <<expires, store, bell, calls, socks, evictions, failures>>

\* the object is evicted or crashes: what was awaited is not continued; an
\* alarm handler that did not finish is called again
Evict ==
  /\ evictions < MaxEvictions /\ evictions' = evictions + 1
  /\ at' = [c \in Callers |-> "idle"] /\ calling' = [c \in Callers |-> NoJob]
  /\ ring' = "off" /\ due' = {}
  /\ alarm' = (IF ring = "off" THEN alarm ELSE hubClock)
  /\ sock' = [k \in Conns |-> IF sock[k] \in {"audit", "replace"} THEN "closed" ELSE sock[k]]
  /\ olds' = [k \in Conns |-> {}]
  /\ UNCHANGED <<hubClock, expires, store, promised, repeated, crossed, failures>>

EnqueueStep(c) == Known(c) \/ Insert(c) \/ Batch(c) \/ Undo(c) \/ Arm(c)
FetchStep(k)   == Audited(k) \/ Replace(k) \/ Replaced(k)

HubNext ==
  \/ \E c \in Callers : EnqueueStep(c) \/ \E j \in HubJobs : Enqueue(c, j)
  \/ Ring \/ Mark \/ Forget
  \/ \E k \in Conns : Connect(k) \/ FetchStep(k) \/ Close(k)
  \/ HubTick \/ Evict

HubSpec == HubInit /\ [][HubNext]_hubVars

-----------------------------------------------------------------------------
(***************************************************************************)
(* No job is lost: what D1 calls queued is in the Hub's queue, and so is   *)
(* what a caller was told is queued until it is marked expired -- with     *)
(* enqueues, alarms and evictions interleaved.                             *)
(***************************************************************************)
QueuedIsKept ==
  \A j \in HubJobs : d1[j] = "queued" \/ (j \in promised /\ d1[j] # "expired") => j \in pending

(***************************************************************************)
(* "A job leaves the queue only after D1 says `expired`", or when its own  *)
(* enqueue could not record it -- also a job whose enqueue died before it  *)
(* reached D1.                                                             *)
(***************************************************************************)
LeavesMarked ==
  [][\A j \in pending : j \notin pending' =>
       d1[j] = "expired" \/ \E c \in Callers : at[c] = "undo" /\ calling[c] = j]_hubVars

(***************************************************************************)
(* "An expired job is late to be marked, never lost": a job whose caller   *)
(* was told it is queued has an alarm that is due, or is set for its       *)
(* expiry or earlier, unless the runtime gave up ringing.                  *)
(***************************************************************************)
PromisedIsArmed ==
  \A j \in promised : d1[j] # "expired" =>
    ring # "off" \/ alarm = GivenUp \/ (alarm >= 0 /\ (alarm <= hubClock \/ alarm <= expires[j]))

(***************************************************************************)
(* "The newest connection wins": the device never has two open             *)
(* connections, unless one arrived while another was still closing its     *)
(* predecessors.                                                           *)
(***************************************************************************)
OneConnection == ~crossed => Cardinality(OpenConns) <= 1

\* the same without the exception
NewestConnectionWins == Cardinality(OpenConns) <= 1

(***************************************************************************)
(* "Queueing the same job twice is a no-op that reports `duplicate: true`" *)
(* -- of a job that is queued, or was.                                     *)
(***************************************************************************)
DuplicateIsKept ==
  \A j \in HubJobs : j \in repeated => j \in pending \/ d1[j] = "expired"
=============================================================================

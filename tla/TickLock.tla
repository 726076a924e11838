------------------------------ MODULE TickLock ------------------------------
(***************************************************************************)
(* The tick lock of src/orchestrator/worker.ts: the file tick.lock that    *)
(* keeps two processes (the daemon's scheduler, a manual `forge tick`, a   *)
(* second daemon) from running a tick at the same time, and the file       *)
(* tick.lock.claim that arbitrates who may take a stale lock over.         *)
(*                                                                         *)
(* Each step below is one system call of a process, because the calls of   *)
(* different processes interleave.  A process is one pid: a crashed one    *)
(* never comes back, its successor is another member of Procs.             *)
(***************************************************************************)
EXTENDS Naturals, FiniteSets

CONSTANTS
  Procs,        \* the processes that ever try to tick
  Absent,       \* no file at the path
  Torn,         \* the file exists, its stamp has not been written yet
  TornWrites,   \* TRUE: `wx` creation and the write of the stamp are two calls
  MaxCrashes,   \* bound on the processes that die
  MaxHangs      \* bound on the ticks that outlive lockMaxHoldMs

ASSUME TickLockAssumption ==
  /\ Absent \notin Procs
  /\ Torn \notin Procs
  /\ Absent # Torn
  /\ TornWrites \in BOOLEAN
  /\ MaxCrashes \in Nat
  /\ MaxHangs \in Nat

VARIABLES
  lock,    \* the lock file: Absent, Torn, or the pid in its stamp
  old,     \* TRUE: the lock's stamp is past lockMaxHoldMs
  claim,   \* the claim file: Absent, Torn, or the pid in its stamp
  pc,      \* where each process is
  hung,    \* the processes whose own tick outlived lockMaxHoldMs
  evicted  \* TRUE: some process has removed a claim it judged to be residue

vars == <<lock, old, claim, pc, hung, evicted>>

Points == {"idle", "created", "orphaned", "judge", "claim", "claimTorn",
           "reclaim", "recreate", "replace", "unclaim", "tick", "release",
           "dead"}

File == Procs \cup {Absent, Torn}

(***************************************************************************)
(* The type invariant: what each file may hold and where a process may be. *)
(***************************************************************************)
TypeOK ==
  /\ lock \in File
  /\ old \in BOOLEAN
  /\ claim \in File
  /\ pc \in [Procs -> Points]
  /\ hung \subseteq Procs
  /\ evicted \in BOOLEAN

Init ==
  /\ lock = Absent
  /\ old = FALSE
  /\ claim = Absent
  /\ pc = [p \in Procs |-> "idle"]
  /\ hung = {}
  /\ evicted = FALSE

Goto(p, from, to) ==
  /\ pc[p] = from
  /\ pc' = [pc EXCEPT ![p] = to]

Dead(p) == pc[p] = "dead"

(***************************************************************************)
(* lockActive: a stamp counts only while its process is alive and the      *)
(* stamp is younger than lockMaxHoldMs.                                    *)
(***************************************************************************)
LockActive == lock \in Procs /\ ~Dead(lock) /\ ~old

\* mutant: a claim that cannot be parsed is left alone
ClaimStaleParsed == claim \in Procs /\ Dead(claim)

\* A claim that cannot be parsed reads as timestamp 0.  A takeover lasts less
\* than CLAIM_STALE_MS, so only the claim of a dead process grows stale.
ClaimStale == claim = Torn \/ (claim \in Procs /\ Dead(claim))

-----------------------------------------------------------------------------
\* mutant: the stamp carries a pid that is no process's
CreateLockPidless(p) ==
  /\ lock = Absent
  /\ Goto(p, "idle", "tick")
  /\ lock' = 0
  /\ old' = FALSE
  /\ UNCHANGED <<claim, hung, evicted>>

\* acquireLock, the normal case: the exclusive create
CreateLock(p) ==
  /\ lock = Absent
  /\ IF TornWrites THEN Goto(p, "idle", "created") /\ lock' = Torn
                   ELSE Goto(p, "idle", "tick") /\ lock' = p
  /\ old' = FALSE
  /\ UNCHANGED <<claim, hung, evicted>>

\* the second half of a torn create; a file unlinked meanwhile keeps the stamp
StampLock(p) ==
  \/ /\ Goto(p, "created", "tick")
     /\ lock' = p
     /\ old' = FALSE
     /\ UNCHANGED <<claim, hung, evicted>>
  \/ /\ Goto(p, "orphaned", "tick")
     /\ UNCHANGED <<lock, old, claim, hung, evicted>>

\* EEXIST: the create failed, the process goes on to read the stamp
CreateFails(p) ==
  /\ lock # Absent
  /\ Goto(p, "idle", "judge")
  /\ UNCHANGED <<lock, old, claim, hung, evicted>>

\* read the stamp: stand aside from a live lock, else go for the claim.  A
\* file that was released since, or not stamped yet, reads as stale.
Judge(p) ==
  /\ Goto(p, "judge", IF LockActive THEN "idle" ELSE "claim")
  /\ UNCHANGED <<lock, old, claim, hung, evicted>>

\* mutant: the claim is written without the exclusive flag
CreateClaimShared(p) ==
  /\ Goto(p, "claim", "replace")
  /\ claim' = p
  /\ UNCHANGED <<lock, old, hung, evicted>>

\* acquireClaim: the exclusive create of the claim
CreateClaim(p) ==
  /\ claim = Absent
  /\ IF TornWrites THEN Goto(p, "claim", "claimTorn") /\ claim' = Torn
                   ELSE Goto(p, "claim", "replace") /\ claim' = p
  /\ UNCHANGED <<lock, old, hung, evicted>>

StampClaim(p) ==
  /\ Goto(p, "claimTorn", "replace")
  /\ claim' = IF claim = Torn THEN p ELSE claim
  /\ UNCHANGED <<lock, old, hung, evicted>>

\* the claim exists: a fresh one sends the process away, a stale one is
\* unlinked and created again
JudgeClaim(p) ==
  /\ claim # Absent
  /\ Goto(p, "claim", IF ClaimStale THEN "reclaim" ELSE "idle")
  /\ UNCHANGED <<lock, old, claim, hung, evicted>>

UnlinkClaim(p) ==
  /\ IF claim = Absent
       THEN Goto(p, "reclaim", "idle")       \* unlink throws: someone else won
       ELSE Goto(p, "reclaim", "recreate")
  /\ claim' = Absent
  /\ evicted' = (evicted \/ claim # Absent)
  /\ UNCHANGED <<lock, old, hung>>

RecreateClaim(p) ==
  /\ \/ claim = Absent /\ Goto(p, "recreate", "replace") /\ claim' = p
     \/ claim # Absent /\ Goto(p, "recreate", "idle") /\ UNCHANGED claim
  /\ UNCHANGED <<lock, old, hung, evicted>>

\* the takeover: whatever the path holds by now is overwritten
ReplaceLock(p) ==
  /\ Goto(p, "replace", "unclaim")
  /\ lock' = p
  /\ old' = FALSE
  /\ UNCHANGED <<claim, hung, evicted>>

\* mutant: the claim stays behind
DropClaimNever(p) ==
  /\ Goto(p, "unclaim", "tick")
  /\ UNCHANGED <<lock, old, claim, hung, evicted>>

\* finally { unlinkSync(claim) }
DropClaim(p) ==
  /\ Goto(p, "unclaim", "tick")
  /\ claim' = Absent
  /\ UNCHANGED <<lock, old, hung, evicted>>

-----------------------------------------------------------------------------
\* releaseLock: read the stamp, and unlink the file if it is this process's
ReadOwn(p) ==
  /\ Goto(p, "tick", IF lock = p THEN "release" ELSE "idle")
  /\ hung' = IF lock = p THEN hung ELSE hung \ {p}
  /\ UNCHANGED <<lock, old, claim, evicted>>

UnlinkLock(p) ==
  /\ pc[p] = "release"
  /\ pc' = [q \in Procs |-> IF q = p THEN "idle"
                            ELSE IF pc[q] = "created" THEN "orphaned"
                            ELSE pc[q]]
  /\ lock' = Absent
  /\ hung' = hung \ {p}
  /\ UNCHANGED <<old, claim, evicted>>

\* a tick runs past lockMaxHoldMs: its stamp no longer protects it
Overrun(p) ==
  /\ pc[p] = "tick"
  /\ lock = p
  /\ ~old
  /\ Cardinality(hung) < MaxHangs
  /\ old' = TRUE
  /\ hung' = hung \cup {p}
  /\ UNCHANGED <<lock, claim, pc, evicted>>

\* SIGKILL, power loss, an uncaught error: the files stay as they are
Crash(p) ==
  /\ ~Dead(p)
  /\ Cardinality({q \in Procs : Dead(q)}) < MaxCrashes
  /\ pc' = [pc EXCEPT ![p] = "dead"]
  /\ UNCHANGED <<lock, old, claim, hung, evicted>>

Acquire(p) ==
  \/ CreateLock(p) \/ StampLock(p) \/ CreateFails(p) \/ Judge(p)
  \/ CreateClaim(p) \/ StampClaim(p) \/ JudgeClaim(p) \/ UnlinkClaim(p)
  \/ RecreateClaim(p) \/ ReplaceLock(p) \/ DropClaim(p)

Release(p) == ReadOwn(p) \/ UnlinkLock(p)

Next == \E p \in Procs : Acquire(p) \/ Release(p) \/ Overrun(p) \/ Crash(p)

Spec == Init /\ [][Next]_vars

\* The scheduler fires again and again, and a tick ends (lockMaxHoldSec bounds
\* it): each living process keeps taking its steps.
Fairness == \A p \in Procs : WF_vars(Acquire(p) \/ Release(p))

FairSpec == Spec /\ Fairness

-----------------------------------------------------------------------------
Ticking(p) == pc[p] \in {"tick", "release"} /\ p \notin hung

(***************************************************************************)
(* worker.ts says of acquireLock that "atomicity is the whole point (it    *)
(* stops two processes running step at once)": no two processes are inside *)
(* a tick, a tick past lockMaxHoldMs excepted.                             *)
(***************************************************************************)
OneTickAtATime ==
  \A p, q \in Procs : Ticking(p) /\ Ticking(q) => p = q

(***************************************************************************)
(* "Only the process that wins the claim may replace the lock": until a    *)
(* claim has been taken for the residue of a crash and removed, at most    *)
(* one process is between winning the claim and dropping it.               *)
(***************************************************************************)
TakingOver == {p \in Procs : pc[p] \in {"replace", "unclaim"}}

OneTakeoverAtATime ==
  ~evicted => \A p, q \in TakingOver : p = q

(***************************************************************************)
(* The claim file never outlives its takeover, crashes and evictions       *)
(* included: it is there only while the process in its stamp is taking     *)
(* over, or has died doing so.                                             *)
(***************************************************************************)
ClaimHasOwner ==
  claim \in Procs => claim \in TakingOver \/ Dead(claim)

(***************************************************************************)
(* "Only the process that wins the claim may replace the lock", and the    *)
(* claim of a process that died in between is there to be recognised.      *)
(***************************************************************************)
ClaimGuardsTakeover == OneTakeoverAtATime /\ ClaimHasOwner

(***************************************************************************)
(* A crash at any point, in the middle of a takeover included, never       *)
(* wedges the scheduler: some process gets to tick again and again.        *)
(***************************************************************************)
LockNeverWedges == []<>(\E p \in Procs : pc[p] = "tick")
=============================================================================

------------------------------- MODULE Runners -------------------------------
(***************************************************************************)
(* A control plane and the runners it hands jobs to, on one checkout: the  *)
(* lease on a session, the tick of each process, the Gate C step a tick    *)
(* runs, and what the control plane's tick does to the sessions and trees  *)
(* of the others -- the reset of orphans and the sweep of worktrees.       *)
(* A session is one requirement in Gate C with one leg.                    *)
(***************************************************************************)
EXTENDS Integers, FiniteSets

CONSTANTS
  NSessions,    \* the sessions, numbered in the order they were created
  Controller,   \* the process with the database: forge listen, FORGE_CONTROL_PORT
  Remotes,      \* the pure runners: forge listen, FORGE_CONTROL_URL
  Limit,        \* runtime.max_parallel
  SlowSetup,    \* may a setup take longer than the sweep's age guard?
  MaxMishaps    \* processes that die and calls that fail, together: a bound

Sessions == 1..NSessions
Runners == Remotes \cup {Controller}

ASSUME RunnersAssumption ==
  /\ NSessions \in Nat /\ Limit \in Nat \ {0}
  /\ Controller \notin Remotes /\ SlowSetup \in BOOLEAN
  /\ MaxMishaps \in Nat
  /\ Runners \cap {"nobody", "gone"} = {}

VARIABLES
  stage,    \* the session's state, as far as Gate C goes
  path,     \* is its worktree_path recorded?
  tree,     \* its worktree on disk, and whether the age guard still spares it
  work,     \* does the tree hold edits?
  lease,    \* lease_owner, and whether lease_expires_at lies ahead
  up,       \* the processes alive
  phase,    \* where each process's tick is
  at,       \* the steps each process runs: those of its tick, those a tick left behind
  orphans,  \* the rows reclaimOrphans has listed and not yet reset
  doomed,   \* the trees the sweep has planned to remove
  disturbed,  \* history: the sessions taken while a step used them, or on a row no longer true
  mishaps

rows == <<stage, path>>
disk == <<tree, work>>
ctl == <<orphans, doomed, disturbed>>
vars == <<rows, disk, lease, up, phase, at, ctl, mishaps>>

Stages == {"requested", "running", "loop", "parked", "failed", "shipped"}
Positions == {"none", "enter", "setup", "record", "start", "loop"}
Slots == {"tick", "left"}
Resting == [s \in Sessions |-> "none"]

TypeOK ==
  /\ stage \in [Sessions -> Stages] /\ path \in [Sessions -> BOOLEAN]
  /\ tree \in [Sessions -> {"none", "young", "old"}] /\ work \in [Sessions -> BOOLEAN]
  /\ \A s \in Sessions : work[s] => tree[s] # "none"
  /\ lease \in [Sessions -> [by : Runners \cup {"nobody", "gone"}, live : BOOLEAN]]
  /\ up \subseteq Runners
  /\ phase \in [Runners -> {"idle", "reclaim", "sweep", "run"}]
  /\ at \in [Runners -> [Slots -> [Sessions -> Positions]]]
  /\ orphans \in [Sessions -> {"none", "requested", "loop"}]
  /\ doomed \subseteq Sessions /\ disturbed \subseteq Sessions
  /\ mishaps \in 0..MaxMishaps

Init ==
  /\ stage = [s \in Sessions |-> "requested"] /\ path = [s \in Sessions |-> FALSE]
  /\ tree = [s \in Sessions |-> "none"] /\ work = [s \in Sessions |-> FALSE]
  /\ lease = [s \in Sessions |-> [by |-> "nobody", live |-> FALSE]]
  /\ up = Runners /\ phase = [r \in Runners |-> "idle"]
  /\ at = [r \in Runners |-> [k \in Slots |-> [s \in Sessions |-> "none"]]]
  /\ orphans = Resting /\ doomed = {} /\ disturbed = {}
  /\ mishaps = 0

Busy(r, s) == \E k \in Slots : at[r][k][s] # "none"
InUse(s) == \E r \in Runners : Busy(r, s)

\* the edges of Gate C; a state may always move to itself
Edges == {<<"requested", "running">>, <<"requested", "failed">>,
          <<"running", "loop">>, <<"running", "failed">>,
          <<"loop", "parked">>, <<"loop", "failed">>,
          <<"parked", "loop">>, <<"parked", "shipped">>,
          <<"failed", "requested">>, <<"failed", "running">>, <<"failed", "loop">>}
CanMove(from, to) == from = to \/ <<from, to>> \in Edges

-----------------------------------------------------------------------------
(***************************************************************************)
(* The claim: at most `Limit` of the due sessions, the oldest first, whose *)
(* lease nobody else holds.                                                *)
(***************************************************************************)
Due(s) == stage[s] \in {"requested", "loop"}

Claimable(r, s) == Due(s) /\ (lease[s].by \in {"nobody", r} \/ ~lease[s].live)

Batch(r) ==
  LET due == {s \in Sessions : Claimable(r, s)}
  IN  {s \in due : Cardinality({t \in due : t < s}) < Limit}

leaseClaim(r) ==
  lease' = [s \in Sessions |->
              IF s \in Batch(r) THEN [by |-> r, live |-> TRUE] ELSE lease[s]]

\* the control plane runs its own policies first
ReadyToClaim(r) ==
  /\ r \in up
  /\ phase[r] = IF r = Controller THEN "sweep" ELSE "idle"
  /\ r = Controller => doomed = {}

\* where step begins depends on the row the claim returned
Begun(s) == IF stage[s] = "requested" THEN "enter" ELSE "loop"

Claim(r) ==
  /\ ReadyToClaim(r)
  /\ leaseClaim(r)
  /\ IF Batch(r) = {} THEN phase' = [phase EXCEPT ![r] = "idle"] /\ UNCHANGED at
     ELSE /\ phase' = [phase EXCEPT ![r] = "run"]
          /\ at' = [at EXCEPT ![r]["tick"] =
                      [s \in Sessions |-> IF s \in Batch(r) THEN Begun(s) ELSE "none"]]
  /\ disturbed' = disturbed \cup {s \in Batch(r) : Busy(r, s)}
  /\ UNCHANGED <<rows, disk, up, orphans, doomed, mishaps>>

\* the jobs are leased, and the answer does not arrive
ClaimLost(r) ==
  /\ r \in Remotes /\ ReadyToClaim(r) /\ mishaps < MaxMishaps
  /\ leaseClaim(r)
  /\ mishaps' = mishaps + 1
  /\ UNCHANGED <<rows, disk, up, phase, at, ctl>>

TickEnd(r) ==
  /\ r \in up /\ phase[r] = "run" /\ at[r]["tick"] = Resting
  /\ phase' = [phase EXCEPT ![r] = "idle"]
  /\ UNCHANGED <<rows, disk, lease, up, at, ctl, mishaps>>

-----------------------------------------------------------------------------
(***************************************************************************)
(* One step, for a session in slot k of runner r.  A failure is parked; a  *)
(* call that fails outside the steps' try blocks ends the tick, and the    *)
(* other steps of that tick run on.                                        *)
(***************************************************************************)
Runs(r, k, s, position) == r \in up /\ at[r][k][s] = position
Go(r, k, s, position) == at' = [at EXCEPT ![r][k][s] = position] /\ UNCHANGED phase

Throw(r, k, s) ==
  IF k = "left" THEN Go(r, k, s, "none")
  ELSE /\ phase' = [phase EXCEPT ![r] = "idle"]
       /\ at' = [at EXCEPT ![r] =
            [tick |-> Resting,
             left |-> [t \in Sessions |->
                         IF t = s \/ at[r]["tick"][t] = "none" THEN at[r]["left"][t]
                         ELSE at[r]["tick"][t]]]]

MoveTo(s, to) == stage' = [stage EXCEPT ![s] = to]

\* enterRunning: an illegal move throws, and nothing catches it here
Enter(r, k, s) ==
  /\ Runs(r, k, s, "enter")
  /\ IF CanMove(stage[s], "running") THEN MoveTo(s, "running") /\ Go(r, k, s, "setup")
     ELSE Throw(r, k, s) /\ UNCHANGED stage
  /\ UNCHANGED <<path, disk, lease, up, ctl, mishaps>>

\* the tree at the session's own path is removed, and made anew
CreateTree(r, k, s) ==
  /\ Runs(r, k, s, "setup")
  /\ tree' = [tree EXCEPT ![s] = "young"] /\ work' = [work EXCEPT ![s] = FALSE]
  /\ Go(r, k, s, "record")
  /\ UNCHANGED <<rows, lease, up, ctl, mishaps>>

\* setLegs, activateLeg
Record(r, k, s) ==
  /\ Runs(r, k, s, "record")
  /\ path' = [path EXCEPT ![s] = TRUE]
  /\ Go(r, k, s, "start")
  /\ UNCHANGED <<stage, disk, lease, up, ctl, mishaps>>

Start(r, k, s) ==
  /\ Runs(r, k, s, "start")
  /\ IF CanMove(stage[s], "loop") THEN MoveTo(s, "loop") /\ Go(r, k, s, "loop")
     ELSE Throw(r, k, s) /\ UNCHANGED stage
  /\ UNCHANGED <<path, disk, lease, up, ctl, mishaps>>

\* mutant: nobody looks whether the tree is there
EditAnywhere(r, k, s) ==
  /\ Runs(r, k, s, "loop") /\ ~work[s]
  /\ work' = [work EXCEPT ![s] = TRUE]
  /\ UNCHANGED <<rows, tree, lease, up, phase, at, ctl, mishaps>>

Edit(r, k, s) ==
  /\ Runs(r, k, s, "loop") /\ tree[s] # "none" /\ ~work[s]
  /\ work' = [work EXCEPT ![s] = TRUE]
  /\ UNCHANGED <<rows, tree, lease, up, phase, at, ctl, mishaps>>

\* parkFailure; its own move may be illegal, and then it throws
parkFailure(r, k, s) ==
  IF CanMove(stage[s], "failed") THEN MoveTo(s, "failed") /\ Go(r, k, s, "none")
  ELSE Throw(r, k, s) /\ UNCHANGED stage

Fail(r, k, s) ==
  /\ r \in up /\ at[r][k][s] \in {"setup", "loop"}
  /\ parkFailure(r, k, s)
  /\ UNCHANGED <<path, disk, lease, up, ctl, mishaps>>

\* the per-tick cap: the session stays due
Pause(r, k, s) ==
  /\ Runs(r, k, s, "loop") /\ tree[s] # "none"
  /\ Go(r, k, s, "none")
  /\ UNCHANGED <<stage, path, disk, lease, up, ctl, mishaps>>

\* green, escalated or stalled: it waits for a human
Park(r, k, s) ==
  /\ Runs(r, k, s, "loop") /\ tree[s] # "none"
  /\ IF CanMove(stage[s], "parked") THEN MoveTo(s, "parked") /\ Go(r, k, s, "none")
     ELSE parkFailure(r, k, s)
  /\ UNCHANGED <<path, disk, lease, up, ctl, mishaps>>

\* a call to the control plane fails or is cut off, before or after it was carried out
Fault(r, k, s) ==
  /\ r \in Remotes \cap up /\ at[r][k][s] # "none" /\ mishaps < MaxMishaps
  /\ mishaps' = mishaps + 1
  /\ \/ UNCHANGED stage /\ Throw(r, k, s)
     \/ /\ at[r][k][s] \in {"enter", "start"}
        /\ LET to == IF at[r][k][s] = "enter" THEN "running" ELSE "loop"
           IN  CanMove(stage[s], to) /\ MoveTo(s, to)
        /\ Throw(r, k, s)
     \/ at[r][k][s] \in {"setup", "record", "loop"} /\ parkFailure(r, k, s)
  /\ UNCHANGED <<path, disk, lease, up, ctl>>

-----------------------------------------------------------------------------
(***************************************************************************)
(* The control plane's policies: the rows are listed, and acted on one by  *)
(* one, with cards sent and git run between.                               *)
(***************************************************************************)
Orphan(s) ==
  IF stage[s] = "running" THEN IF path[s] THEN "loop" ELSE "requested" ELSE "none"

TickStart ==
  /\ Controller \in up /\ phase[Controller] = "idle"
  /\ phase' = [phase EXCEPT ![Controller] = "reclaim"]
  /\ orphans' = [s \in Sessions |-> Orphan(s)]
  /\ UNCHANGED <<rows, disk, lease, up, at, doomed, disturbed, mishaps>>

\* mutant: the reset gives the session's lease up with it
ResetReleasing(s) ==
  /\ phase[Controller] = "reclaim" /\ orphans[s] # "none" /\ CanMove(stage[s], "failed")
  /\ MoveTo(s, orphans[s]) /\ orphans' = [orphans EXCEPT ![s] = "none"]
  /\ lease' = [lease EXCEPT ![s].live = FALSE]
  /\ disturbed' = disturbed \cup {s}
  /\ UNCHANGED <<path, disk, up, phase, at, doomed, mishaps>>

\* reclaimOne: to failed, and back; at the cap it stays (the count is Pipeline's)
ResetOne(s) ==
  /\ phase[Controller] = "reclaim" /\ orphans[s] # "none"
  /\ IF CanMove(stage[s], "failed")
       THEN /\ \E to \in {orphans[s], "failed"} : MoveTo(s, to)
            /\ orphans' = [orphans EXCEPT ![s] = "none"]
            /\ disturbed' = IF InUse(s) \/ Orphan(s) # orphans[s]
                            THEN disturbed \cup {s} ELSE disturbed
            /\ UNCHANGED phase
       ELSE \* the move throws, and the tick with it
            /\ phase' = [phase EXCEPT ![Controller] = "idle"]
            /\ orphans' = Resting
            /\ UNCHANGED <<stage, disturbed>>
  /\ UNCHANGED <<path, disk, lease, up, at, doomed, mishaps>>

\* mutant: no age guard
SweptAtAnyAge(s) == tree[s] # "none" /\ (path[s] => stage[s] = "shipped")

\* planWorktreeSweep: old, and of no session, or of one that has shipped
Swept(s) == tree[s] = "old" /\ (path[s] => stage[s] = "shipped")

SweepStart ==
  /\ phase[Controller] = "reclaim" /\ orphans = Resting
  /\ phase' = [phase EXCEPT ![Controller] = "sweep"]
  /\ doomed' = {s \in Sessions : Swept(s)}
  /\ UNCHANGED <<rows, disk, lease, up, at, orphans, disturbed, mishaps>>

SweepOne(s) ==
  /\ phase[Controller] = "sweep" /\ s \in doomed
  /\ doomed' = doomed \ {s}
  /\ disturbed' = IF Swept(s) THEN disturbed ELSE disturbed \cup {s}
  /\ tree' = [tree EXCEPT ![s] = "none"] /\ work' = [work EXCEPT ![s] = FALSE]
  /\ UNCHANGED <<rows, lease, up, phase, at, orphans, mishaps>>

-----------------------------------------------------------------------------
(***************************************************************************)
(* Humans, time, and the processes' ends.                                  *)
(***************************************************************************)
\* mutant: a retry sets the worktree up anew
RetryAnew(s) ==
  /\ stage[s] = "failed"
  /\ MoveTo(s, "requested")
  /\ UNCHANGED <<path, disk, lease, up, phase, at, ctl, mishaps>>

\* planRetry, by hand or when the backoff has passed
Retry(s) ==
  /\ stage[s] = "failed"
  /\ MoveTo(s, IF path[s] THEN "loop" ELSE "requested")
  /\ UNCHANGED <<path, disk, lease, up, phase, at, ctl, mishaps>>

Answer(s) ==
  /\ stage[s] = "parked" /\ MoveTo(s, "loop")
  /\ UNCHANGED <<path, disk, lease, up, phase, at, ctl, mishaps>>

\* ackMerged: a cleanup that fails leaves the tree to the sweep
Ship(s) ==
  /\ stage[s] = "parked" /\ MoveTo(s, "shipped")
  /\ \/ tree' = [tree EXCEPT ![s] = "none"] /\ work' = [work EXCEPT ![s] = FALSE]
     \/ UNCHANGED disk
  /\ UNCHANGED <<path, lease, up, phase, at, ctl, mishaps>>

\* the hour of the age guard passes; only of a tree the sweep might take does it matter
Age(s) ==
  /\ tree[s] = "young" /\ (path[s] => stage[s] = "shipped")
  /\ SlowSetup \/ \A r \in Runners, k \in Slots : at[r][k][s] # "record"
  /\ tree' = [tree EXCEPT ![s] = "old"]
  /\ UNCHANGED <<rows, work, lease, up, phase, at, ctl, mishaps>>

\* the lease is longer than any step: it does not run out under its owner;
\* of a session nobody may claim it does not matter
Expire(s) ==
  /\ lease[s].live /\ Due(s)
  /\ \A r \in Runners : r = lease[s].by => ~Busy(r, s)
  /\ lease' = [lease EXCEPT ![s].live = FALSE]
  /\ UNCHANGED <<rows, disk, up, phase, at, ctl, mishaps>>

Die(r) ==
  /\ r \in up /\ mishaps < MaxMishaps /\ mishaps' = mishaps + 1
  /\ up' = up \ {r} /\ phase' = [phase EXCEPT ![r] = "idle"]
  /\ at' = [at EXCEPT ![r] = [k \in Slots |-> Resting]]
  /\ IF r = Controller THEN orphans' = Resting /\ doomed' = {}
     ELSE UNCHANGED <<orphans, doomed>>
  /\ UNCHANGED <<rows, disk, lease, disturbed>>

\* under the id it had, or, without FORGE_RUNNER_ID, under that of its new pid
Restart(r) ==
  /\ r \notin up /\ up' = up \cup {r}
  /\ \/ UNCHANGED lease
     \/ lease' = [s \in Sessions |->
                    IF lease[s].by = r THEN [lease[s] EXCEPT !.by = "gone"] ELSE lease[s]]
  /\ UNCHANGED <<rows, disk, phase, at, ctl, mishaps>>

StepOn(r, k, s) ==
  \/ Enter(r, k, s) \/ CreateTree(r, k, s) \/ Record(r, k, s) \/ Start(r, k, s)
  \/ Fail(r, k, s) \/ Pause(r, k, s) \/ Park(r, k, s)

Policies ==
  TickStart \/ SweepStart \/ \E s \in Sessions : ResetOne(s) \/ SweepOne(s)

Next ==
  \/ Policies
  \/ \E r \in Runners : Claim(r) \/ ClaimLost(r) \/ TickEnd(r) \/ Die(r) \/ Restart(r)
  \/ \E r \in Runners, k \in Slots, s \in Sessions :
       StepOn(r, k, s) \/ Edit(r, k, s) \/ Fault(r, k, s)
  \/ \E s \in Sessions : Retry(s) \/ Answer(s) \/ Ship(s) \/ Age(s) \/ Expire(s)

Spec == Init /\ [][Next]_vars

-----------------------------------------------------------------------------
(***************************************************************************)
(* "A lease another runner still holds is excluded, so nothing is ever     *)
(* double-claimed": no two processes run the same session, whoever dies,   *)
(* restarts under another id, or has its session reset under it.           *)
(***************************************************************************)
OneRunner ==
  \A s \in Sessions : Cardinality({r \in Runners : Busy(r, s)}) <= 1

(***************************************************************************)
(* "Retry: never re-run setup and collide with a worktree that is already  *)
(* there", "in use -- never touched", "deleting it loses nothing": edits   *)
(* leave the disk with a session that ships, or because the control        *)
(* plane, or a second step, had taken a session that a step was using or   *)
(* had used since its row was read.                                        *)
(***************************************************************************)
WorkIsKept ==
  [][\A s \in Sessions :
       work[s] /\ ~work'[s] => stage'[s] = "shipped" \/ s \in disturbed']_vars

(***************************************************************************)
(* "It may still be being created (its worktree_path not yet persisted)":  *)
(* the sweep takes no tree from a setup that is under way.                 *)
(***************************************************************************)
SetupIsSpared ==
  [][\A r \in Runners, k \in Slots, s \in Sessions :
       at[r][k][s] = "record" /\ at'[r][k][s] = "record" => tree'[s] # "none" \/ s \in disturbed']_vars

\* The comments' claims that the split of control plane and runners breaks.
\* "A session still stuck in a transient RUNNING state means the previous
\* tick died midway": nothing the control plane resets is being run.
ResetIsOrphan == [][\A s \in Sessions : ResetOne(s) => ~InUse(s)]_vars

\* "A failure parks it at the matching *_FAILED state; it never throws": a
\* process runs a session once at a time.
OneStepAtATime ==
  \A r \in Runners, s \in Sessions : \E k \in Slots : at[r][k][s] = "none"

\* "The tree sits at base with no edits, so deleting it loses nothing".
PreCleanLosesNothing ==
  [][\A s \in Sessions : work[s] /\ ~work'[s] => stage'[s] = "shipped"]_vars
=============================================================================

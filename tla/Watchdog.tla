------------------------------ MODULE Watchdog ------------------------------
(***************************************************************************)
(* The daemon, the heartbeat file it leaves, and the two that watch it:    *)
(* the watchdog, a process of its own that launchd starts every minute     *)
(* (health/watchdog.ts), and the sampler inside the daemon, whose last     *)
(* sample is a row of the database (health/history.ts).  Times are ages in *)
(* watchdog rounds, so that the clock itself needs no bound.               *)
(***************************************************************************)
EXTENDS Integers, FiniteSets

CONSTANTS
  Stale,      \* the age at which the heartbeat is older than wedged_after_sec
  Grace,      \* wedged_grace_sec
  Threshold,  \* probe_fail_threshold
  Status,     \* the statuses a sample can have
  MaxFaults   \* bound: kickstarts that fail and watchdogs that are killed

ASSUME WatchdogAssumption ==
  /\ Stale \in Nat \ {0} /\ Grace \in Nat \ {0} /\ Threshold \in Nat \ {0}
  /\ MaxFaults \in Nat /\ Status \cap {"none", "mixed"} = {}

VARIABLES
  proc,      \* the daemon: its process and whether its event loop turns
  http,      \* TRUE: its health port is being served
  active,    \* TRUE: a session is in a running gate
  hb,        \* the heartbeat file
  wd,        \* watchdog.json
  round,     \* where the watchdog's run is
  healthzOk, \* what its probe returned
  decision,  \* what it decided
  told,      \* the class of the last alert the watchdog sent
  torn,      \* TRUE: a run was killed between its alert and the write of watchdog.json
  seen,      \* rounds since one that ended with the daemon clean
  sample,    \* the status of the last sample
  sending,   \* the sampler's alerts under way
  shown,     \* the status its last alert showed; "none" when one was lost or overtaken
  faults

dogVars    == <<wd, round, healthzOk, decision, told, torn, seen>>
daemonVars == <<proc, http, active, hb>>
sampleVars == <<sample, sending, shown>>
watchVars == <<daemonVars, dogVars, sampleVars, faults>>

None   == 0 - 1     \* no heartbeat; no deferral
Class == {"ok", "process-down", "wedged", "wedged-deferred", "http-degraded"}

(***************************************************************************)
(* The type invariant.                                                     *)
(***************************************************************************)
WatchTypeOK ==
  /\ proc \in {"down", "boot", "up", "wedged"}
  /\ http \in BOOLEAN /\ active \in BOOLEAN
  /\ hb \in [age : {None} \cup 0..Stale, gates : BOOLEAN]
  /\ wd \in [fails : 0..Threshold, since : {None} \cup 0..Grace, klass : Class]
  /\ round \in {"idle", "probed", "decided", "acted", "done"} /\ healthzOk \in BOOLEAN
  /\ decision \in [act : {"none", "restart", "kill", "defer", "alert"},
                   since : {None} \cup 0..Grace, klass : Class, clean : BOOLEAN]
  /\ told \in Class /\ torn \in BOOLEAN /\ seen \in 0..Grace
  /\ sample \in {"none"} \cup Status /\ sending \subseteq Status
  /\ shown \in {"none", "mixed"} \cup Status
  /\ faults \in 0..MaxFaults

Clean == [fails |-> 0, since |-> None, klass |-> "ok"]
Nothing == [act |-> "none", since |-> None, klass |-> "ok", clean |-> FALSE]

WatchInit ==
  /\ proc = "down" /\ http = FALSE /\ active = FALSE
  /\ hb = [age |-> None, gates |-> FALSE]
  /\ wd = Clean /\ round = "idle" /\ healthzOk = FALSE
  /\ decision = Nothing
  /\ told = "ok" /\ torn = FALSE /\ seen = 0
  /\ sample = "none" /\ sending = {} /\ shown = "none"
  /\ faults = 0

Fault == faults < MaxFaults /\ faults' = faults + 1

-----------------------------------------------------------------------------
(***************************************************************************)
(* The daemon                                                              *)
(***************************************************************************)
Answers == proc = "up" /\ http

\* launchd's KeepAlive
KeepAlive ==
  /\ proc = "down" /\ proc' = "boot"
  /\ UNCHANGED <<http, active, hb, dogVars, sampleVars, faults>>

\* initHeartbeat, then the status page
Ready ==
  /\ proc = "boot" /\ proc' = "up" /\ http' = TRUE
  /\ hb' = [age |-> 0, gates |-> FALSE]
  /\ UNCHANGED <<active, dogVars, sampleVars, faults>>

\* every ten seconds, unless the store cannot count the running gates
Ping ==
  /\ proc = "up" /\ hb' = [age |-> 0, gates |-> active]
  /\ UNCHANGED <<proc, http, active, dogVars, sampleVars, faults>>

\* the event loop stops, or turns again
Wedge ==
  /\ \/ proc = "up" /\ proc' = "wedged"
     \/ proc = "wedged" /\ proc' = "up"
  /\ UNCHANGED <<http, active, hb, dogVars, sampleVars, faults>>

HttpDies ==
  /\ proc = "up" /\ http' = FALSE
  /\ UNCHANGED <<proc, active, hb, dogVars, sampleVars, faults>>

\* a gate is entered or left; the rows of a daemon that died stay as they are
Gates ==
  /\ proc = "up" /\ active' = ~active
  /\ UNCHANGED <<proc, http, hb, dogVars, sampleVars, faults>>

\* the process is gone, its alerts with it
Gone ==
  /\ http' = FALSE /\ sending' = {}
  /\ shown' = (IF sending = {} THEN shown ELSE "none")

Exit ==
  /\ proc # "down" /\ proc' = "down" /\ Gone
  /\ UNCHANGED <<active, hb, dogVars, sample, faults>>

\* mutant: only a flip for the worse is alerted
SampleWorse(s) ==
  /\ proc = "up" /\ sample' = s
  /\ IF sample \notin {"none", s} /\ s # "healthy"
       THEN sending' = sending \cup {s} /\ shown' = (IF sending = {} THEN shown ELSE "mixed")
       ELSE UNCHANGED <<sending, shown>>
  /\ UNCHANGED <<daemonVars, dogVars, faults>>

\* evaluateHealth, recordSample, and an alert when the status flipped
Sample(s) ==
  /\ proc = "up" /\ sample' = s
  /\ IF sample \notin {"none", s}
       THEN sending' = sending \cup {s} /\ shown' = (IF sending = {} THEN shown ELSE "mixed")
       ELSE UNCHANGED <<sending, shown>>
  /\ UNCHANGED <<daemonVars, dogVars, faults>>

Shown(s) ==
  /\ proc = "up" /\ s \in sending
  /\ sending' = sending \ {s}
  /\ shown' = CASE shown # "mixed" -> s
               [] shown = "mixed" /\ sending = {s} -> "none"
               [] OTHER -> shown
  /\ UNCHANGED <<daemonVars, dogVars, sample, faults>>

-----------------------------------------------------------------------------
(***************************************************************************)
(* decideWatchdogAction                                                    *)
(***************************************************************************)
Fresh == hb.age # None /\ hb.age < Stale

IsWedged(fails) == hb.age = Stale /\ fails >= Threshold

\* mutant: a clean round keeps the start of the grace window
DecideSticky(fails) ==
  CASE proc = "down"       -> [act |-> "restart", since |-> None, klass |-> "process-down"]
    [] healthzOk /\ Fresh  -> [act |-> "none", since |-> wd.since, klass |-> "ok"]
    [] IsWedged(fails) /\ hb.gates /\ wd.since # Grace ->
         [act |-> "defer", since |-> IF wd.since = None THEN 0 ELSE wd.since,
          klass |-> "wedged-deferred"]
    [] IsWedged(fails) -> [act |-> "kill", since |-> None, klass |-> "wedged"]
    [] OTHER -> [act |-> "none", since |-> wd.since, klass |-> "ok"]

\* mutant: every round judged wedged starts the grace window again
DecideRestarting(fails) ==
  IF IsWedged(fails) /\ hb.gates
    THEN [act |-> "defer", since |-> 0, klass |-> "wedged-deferred"]
    ELSE [act |-> "none", since |-> wd.since, klass |-> "ok"]

Decide(fails) ==
  LET gone     == proc = "down"
      clean    == healthzOk /\ Fresh
      degraded == ~healthzOk /\ fails >= Threshold /\ Fresh
      held     == hb.gates /\ wd.since # Grace
  IN  CASE gone     -> [act |-> "restart", since |-> None, klass |-> "process-down"]
        [] ~gone /\ clean -> [act |-> "none", since |-> None, klass |-> "ok"]
        [] ~gone /\ degraded -> [act |-> "alert", since |-> None, klass |-> "http-degraded"]
        [] ~gone /\ IsWedged(fails) /\ held ->
             [act |-> "defer", since |-> IF wd.since = None THEN 0 ELSE wd.since,
              klass |-> "wedged-deferred"]
        [] ~gone /\ IsWedged(fails) /\ ~held ->
             [act |-> "kill", since |-> None, klass |-> "wedged"]
        [] OTHER    -> [act |-> "none", since |-> wd.since, klass |-> "ok"]

-----------------------------------------------------------------------------
(***************************************************************************)
(* runWatchdog                                                             *)
(***************************************************************************)
WatchGoto(from, to) == round = from /\ round' = to
Ends == round' = "done" /\ healthzOk' = FALSE /\ decision' = Nothing

Fails == IF healthzOk THEN 0 ELSE IF wd.fails = Threshold THEN Threshold ELSE wd.fails + 1

Probe ==
  /\ WatchGoto("idle", "probed")
  /\ healthzOk' = Answers
  /\ UNCHANGED <<daemonVars, wd, decision, told, torn, seen, sampleVars, faults>>

\* readHeartbeat, mainJobRunning and the decision
Look ==
  /\ WatchGoto("probed", "decided")
  /\ LET d == Decide(Fails)
     IN  decision' = [act |-> d.act, since |-> d.since, klass |-> d.klass,
                      clean |-> d.klass = "ok" /\ healthzOk /\ Fresh]
  /\ UNCHANGED <<daemonVars, wd, healthzOk, told, torn, seen, sampleVars, faults>>

\* kickstart, with -k when it is forced; without, a running daemon is left alone
Act ==
  /\ WatchGoto("decided", "acted")
  /\ LET forced == decision.act = "kill"
         starts == forced \/ (decision.act = "restart" /\ proc = "down")
     IN  \/ /\ starts /\ proc' = "boot" /\ Gone
            /\ UNCHANGED <<active, hb, sample, faults>>
         \/ /\ starts /\ Fault /\ UNCHANGED <<daemonVars, sampleVars>>
         \/ /\ ~starts /\ UNCHANGED <<daemonVars, sampleVars, faults>>
  /\ UNCHANGED <<wd, healthzOk, decision, told, torn, seen>>

\* mutant: what is stored is the kind of the action
ReportKind ==
  /\ round = "acted" /\ Ends
  /\ told' = (IF decision.klass # wd.klass THEN decision.klass ELSE told)
  /\ wd' = [fails |-> Fails, since |-> decision.since, klass |-> decision.act]
  /\ UNCHANGED <<daemonVars, torn, seen, sampleVars, faults>>

\* mutant: the class is stored before it is compared
ReportStored ==
  /\ round = "acted" /\ Ends
  /\ told' = told
  /\ wd' = [fails |-> Fails, since |-> decision.since, klass |-> decision.klass]
  /\ UNCHANGED <<daemonVars, torn, seen, sampleVars, faults>>

\* an alert when the class flipped, then watchdog.json
Report ==
  /\ round = "acted" /\ Ends
  /\ told' = (IF decision.klass # wd.klass THEN decision.klass ELSE told)
  /\ wd' = [fails |-> Fails, since |-> decision.since, klass |-> decision.klass]
  /\ seen' = (IF decision.clean THEN 0 ELSE seen)
  /\ UNCHANGED <<daemonVars, torn, sampleVars, faults>>

\* the watchdog is killed: before its alert, or between the alert and the write
Dies ==
  /\ round \in {"probed", "decided", "acted"} /\ Ends /\ Fault
  /\ \/ UNCHANGED <<told, torn>>
     \/ round = "acted" /\ decision.klass # wd.klass /\ told' = decision.klass /\ torn' = TRUE
  /\ UNCHANGED <<daemonVars, wd, seen, sampleVars>>

Older(age, bound) == IF age = None \/ age = bound THEN age ELSE age + 1

\* launchd starts the next run, unless one is still going
Minute ==
  /\ round' = (IF round = "done" THEN "idle" ELSE round)
  /\ hb' = [hb EXCEPT !.age = Older(@, Stale)]
  /\ wd' = [wd EXCEPT !.since = Older(@, Grace)]
  /\ decision' = [decision EXCEPT !.since = Older(@, Grace)]
  /\ seen' = Older(seen, Grace)
  /\ UNCHANGED <<proc, http, active, healthzOk, told, torn, sampleVars, faults>>

Daemon == KeepAlive \/ Ready \/ Ping \/ Wedge \/ HttpDies \/ Gates \/ Exit
Sampler == \E s \in Status : Sample(s) \/ Shown(s)
Run == Probe \/ Look \/ Act \/ Report

WatchNext == Daemon \/ Sampler \/ Run \/ Dies \/ Minute

WatchSpec == WatchInit /\ [][WatchNext]_watchVars

\* launchd starts the watchdog every minute, and each run ends
WatchFairSpec == WatchSpec /\ WF_watchVars(Run) /\ WF_watchVars(Minute)

-----------------------------------------------------------------------------
(***************************************************************************)
(* A running gate is not killed early: a forced restart while the          *)
(* heartbeat counts a gate comes only when no run has ended with a clean   *)
(* daemon for the whole grace window.                                      *)
(***************************************************************************)
GateIsSpared ==
  [][round = "probed" /\ decision'.act = "kill" /\ hb.gates => seen = Grace]_watchVars

(***************************************************************************)
(* The operator knows: between two runs the last alert the watchdog sent   *)
(* is the class it has stored, unless a run was killed after its alert.    *)
(***************************************************************************)
AlertIsCurrent == round \in {"idle", "done"} => told = wd.klass \/ torn

(***************************************************************************)
(* The sampler misses no flip: with no alert under way, none lost with the *)
(* daemon and none overtaken since, what it showed is the last sample.     *)
(***************************************************************************)
FlipIsShown == sending = {} /\ shown # "none" => shown = sample

(***************************************************************************)
(* Self-healing: a daemon whose event loop stopped does not stay so,       *)
(* whatever it was doing, if it ever wrote a heartbeat.                    *)
(***************************************************************************)
WedgedIsRestarted == (proc = "wedged" /\ hb.age # None) ~> proc # "wedged"

-----------------------------------------------------------------------------
\* "/healthz answers and liveness is fresh", says the alert of a recovery
RecoveredIsTrue ==
  [][(told' # told /\ told' = "ok") => healthzOk /\ Fresh]_watchVars

\* a daemon that is still starting is not judged by the failures of the one before
BootIsSpared == [][round = "decided" /\ decision.act = "kill" => proc # "boot"]_watchVars
=============================================================================

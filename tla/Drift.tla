-------------------------------- MODULE Drift --------------------------------
(***************************************************************************)
(* The drift loop of src/drift/reconcile.ts over one requirement: once its *)
(* issues are closed, or its pull requests merged, the code on the         *)
(* production branch is held against the acceptance contract, once.  All   *)
(* the loop remembers is the session's events.  Humans close and reopen    *)
(* issues and build and ship the requirement at any time.                  *)
(***************************************************************************)
EXTENDS Integers, FiniteSets

CONSTANTS
  TrackedIssues,   \* the issues created for the requirement
  Epic,            \* the Epic among them, or none
  MaxPolls,        \* drift.max_polls
  MaxDriftCrashes  \* bound on the crashes

ASSUME DriftAssumption == MaxPolls \in Nat /\ MaxDriftCrashes \in Nat /\ IsFiniteSet(TrackedIssues)

VARIABLES
  where,       \* the session: DONE, on its way through Gates C and D, or SHIPPED
  issues,      \* each issue on GitHub
  contract,    \* is there an acceptance contract?
  at,          \* where the reconciliation of this session is
  from,        \* the list the session was found in
  polls,       \* drift_polled events
  elapsed,     \* poll_every_hours have passed since the last of them
  reconciled,  \* the drift_reconciled event
  detected,    \* drift_detected events
  alerts,      \* direct messages about drift tried
  heard,       \* did one arrive?
  deaths

events == <<polls, reconciled, detected>>
world == <<where, issues, contract>>
driftVars == <<world, at, from, events, elapsed, alerts, heard, deaths>>

Verdicts == {"none", "drift", "clean", "skipped", "gave up"}

DriftTypeOK ==
  /\ where \in {"DONE", "building", "SHIPPED"}
  /\ issues \in [TrackedIssues -> {"open", "completed", "dropped"}]
  /\ contract \in BOOLEAN
  /\ at \in {"idle", "check", "audit", "alert", "detected", "drift", "clean"}
  /\ from \in {"DONE", "SHIPPED"}
  /\ polls \in 0..MaxPolls /\ elapsed \in BOOLEAN
  /\ reconciled \in Verdicts
  /\ detected \in 0..(MaxDriftCrashes + 1) /\ alerts \in 0..(MaxDriftCrashes + 1)
  /\ heard \in BOOLEAN /\ deaths \in 0..MaxDriftCrashes

DriftInit ==
  /\ where = "DONE" /\ issues = [i \in TrackedIssues |-> "open"]
  /\ contract \in BOOLEAN
  /\ at = "idle" /\ from = "DONE"
  /\ polls = 0 /\ elapsed = TRUE /\ reconciled = "none"
  /\ detected = 0 /\ alerts = 0 /\ heard = FALSE /\ deaths = 0

Moves(here, there) == at = here /\ at' = there

-----------------------------------------------------------------------------
(***************************************************************************)
(* One visit of the session by reconcileDrift.                             *)
(***************************************************************************)
Pollable ==
  /\ at = "idle" /\ reconciled = "none" /\ elapsed
  /\ where \in {"DONE", "SHIPPED"}
  /\ where = "DONE" => TrackedIssues # {}

\* mutant: only a poll that reached the audit counts
PollUncounted ==
  /\ Pollable /\ polls < MaxPolls
  /\ at' = (IF where = "DONE" THEN "check" ELSE "audit") /\ from' = where
  /\ polls' = (IF where = "DONE" THEN polls ELSE polls + 1) /\ elapsed' = FALSE
  /\ UNCHANGED <<world, reconciled, detected, alerts, heard, deaths>>

Poll ==
  /\ Pollable /\ polls < MaxPolls
  /\ at' = (IF where = "DONE" THEN "check" ELSE "audit") /\ from' = where
  /\ polls' = polls + 1 /\ elapsed' = FALSE
  /\ UNCHANGED <<world, reconciled, detected, alerts, heard, deaths>>

GiveUp ==
  /\ Pollable /\ polls >= MaxPolls
  /\ reconciled' = "gave up"
  /\ UNCHANGED <<world, at, from, polls, detected, elapsed, alerts, heard, deaths>>

allClosed == TrackedIssues # {} /\ \A i \in TrackedIssues : issues[i] # "open"

Abandoned ==
  \/ \A i \in TrackedIssues : issues[i] = "dropped"
  \/ Epic \in TrackedIssues /\ issues[Epic] = "dropped"

\* an issue still open; or, as anything else below that fails, gh gave no answer
NotYet ==
  /\ at \in {"check", "audit"} /\ at' = "idle"
  /\ UNCHANGED <<world, from, events, elapsed, alerts, heard, deaths>>

Skip(here) ==
  /\ Moves(here, "idle") /\ reconciled' = "skipped"
  /\ UNCHANGED <<world, from, polls, detected, elapsed, alerts, heard, deaths>>

Dropped == allClosed /\ Abandoned /\ Skip("check")

Closed ==
  /\ allClosed /\ ~Abandoned /\ Moves("check", "audit")
  /\ UNCHANGED <<world, from, events, elapsed, alerts, heard, deaths>>

\* auditSession: no contract, nothing to hold the code against
NoContract == ~contract /\ Skip("audit")

\* the checkouts stand on the production branch as fetched, and the model judges them
Audit ==
  /\ contract /\ \E verdict \in {"alert", "clean"} : Moves("audit", verdict)
  /\ UNCHANGED <<world, from, events, elapsed, alerts, heard, deaths>>

\* mutant: the drift is recorded first, and then told
AlertLate ==
  /\ Moves("alert", "detected") /\ reconciled' = "drift"
  /\ UNCHANGED <<world, from, polls, detected, elapsed, alerts, heard, deaths>>

\* the message may get lost: that is only logged
Alert ==
  /\ Moves("alert", "detected")
  /\ alerts' = alerts + 1 /\ heard' \in {heard, TRUE}
  /\ UNCHANGED <<world, from, events, elapsed, deaths>>

AppendDetected ==
  /\ Moves("detected", "drift") /\ detected' = detected + 1
  /\ UNCHANGED <<world, from, polls, reconciled, elapsed, alerts, heard, deaths>>

\* mutant: a drift is left to be looked at again in the next window
ReconciledIfClean ==
  /\ at \in {"drift", "clean"} /\ at' = "idle"
  /\ reconciled' = IF at = "clean" THEN at ELSE reconciled
  /\ UNCHANGED <<world, from, polls, detected, elapsed, alerts, heard, deaths>>

Reconciled ==
  /\ at \in {"drift", "clean"} /\ at' = "idle" /\ reconciled' = at
  /\ UNCHANGED <<world, from, polls, detected, elapsed, alerts, heard, deaths>>

DriftCrash ==
  /\ at # "idle" /\ deaths < MaxDriftCrashes
  /\ at' = "idle" /\ deaths' = deaths + 1
  /\ UNCHANGED <<world, from, events, elapsed, alerts, heard>>

Window ==
  /\ ~elapsed /\ elapsed' = TRUE
  /\ UNCHANGED <<world, at, from, events, alerts, heard, deaths>>

-----------------------------------------------------------------------------
(***************************************************************************)
(* What others do meanwhile.                                               *)
(***************************************************************************)
reconciler == <<contract, at, from, events, elapsed, alerts, heard, deaths>>

OnIssue(i) ==
  /\ \E to \in {"open", "completed", "dropped"} : issues' = [issues EXCEPT ![i] = to]
  /\ UNCHANGED <<where, reconciler>>

Implement ==
  /\ where = "DONE" /\ where' = "building"
  /\ UNCHANGED <<issues, reconciler>>

Ship ==
  /\ where = "building" /\ where' = "SHIPPED"
  /\ UNCHANGED <<issues, reconciler>>

Visit ==
  \/ Poll \/ GiveUp \/ NotYet \/ Dropped \/ Closed \/ NoContract
  \/ Audit \/ Alert \/ AppendDetected \/ Reconciled

DriftNext ==
  \/ Visit \/ DriftCrash \/ Window
  \/ \E i \in TrackedIssues : OnIssue(i)
  \/ Implement \/ Ship

DriftSpec == DriftInit /\ [][DriftNext]_driftVars

\* the tick comes round, and time passes
DriftFairSpec == DriftSpec /\ WF_driftVars(Visit) /\ WF_driftVars(Window)

-----------------------------------------------------------------------------
(***************************************************************************)
(* A drift that is on record has been sent to the maintainer first: a      *)
(* crash between the two repeats the message and never drops it.           *)
(***************************************************************************)
RecordedIsAlerted == detected > 0 \/ reconciled = "drift" => alerts > 0

(***************************************************************************)
(* "Each requirement is audited once", "it never runs again": a drift is   *)
(* reported a second time only because a crash came before its record,     *)
(* whatever the issues, the code and the session do meanwhile.             *)
(***************************************************************************)
AlertsRepeatOnCrash == alerts <= 1 + deaths

\* a drift is told once, and on record once it is told: a crash between repeats it
OneAlertPerDrift == RecordedIsAlerted /\ AlertsRepeatOnCrash

(***************************************************************************)
(* "Bounded": a requirement that stays delivered, or shipped, is settled   *)
(* in the end -- compared, skipped or given up -- however often its issues *)
(* stay open, gh or the model fails, or the process dies.                  *)
(***************************************************************************)
Settles == <>[](where = "SHIPPED" \/ (where = "DONE" /\ TrackedIssues # {})) => <>(reconciled # "none")

\* "Any drift is sent to the maintainer as a direct message".
DriftIsHeard == reconciled = "drift" => heard

\* "Downstream SHIPPED ... it reconciles the merged implementation against
\* Gate B's acceptance contract directly": what a human merged is looked at.
ShippedIsAudited ==
  [][where' = "SHIPPED" /\ where # "SHIPPED" => reconciled \in {"none", "skipped"}]_driftVars

\* "Once exhausted it gives up and alerts": of a SHIPPED requirement too.
GaveUpIsHeard == reconciled = "gave up" => where # "SHIPPED"
=============================================================================

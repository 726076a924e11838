------------------------------- MODULE Intake -------------------------------
(***************************************************************************)
(* How a requirement document posted in a channel becomes a session: the   *)
(* live messages (daemon/listen.ts), the backfill that reads the channel's *)
(* history again from the cursor (messaging/backfill.ts), and addPrd,      *)
(* which both end in (intake.ts).  One channel; a message is its place in  *)
(* the channel, which is also its time.  The daemon may die at any await,  *)
(* and nothing is delivered to a connection that is down.                  *)
(***************************************************************************)
EXTENDS Integers, FiniteSets, FiniteSetsExt

CONSTANTS
  NMsgs,        \* the messages posted
  Docs, DocOf,  \* the documents, and the one each message links
  Gates,        \* what mentionGate may say of the messages
  Handlers,     \* the live messages that may be in hand at a time
  NewestFirst,  \* TRUE: a history that breaks off is missing its oldest part (Slack)
  MaxCrashes, MaxFailures, MaxRepeats  \* bounds

Msgs == 1..NMsgs

ASSUME IntakeAssumption ==
  /\ NMsgs \in Nat /\ DocOf \in [Msgs -> Docs] /\ NewestFirst \in BOOLEAN
  /\ Gates \subseteq [Msgs -> {"admit", "ignore", "unconfirmable"}] /\ "backfill" \notin Handlers
  /\ MaxCrashes \in Nat /\ MaxFailures \in Nat /\ MaxRepeats \in Nat

Actors == Handlers \cup {"backfill"}

VARIABLES
  gate,      \* what mentionGate says of each message
  posted,    \* messages 1..posted are in the channel
  up, link,  \* the daemon runs; its connection is up
  coming,    \* the messages the platform is delivering
  at, msg,   \* where each actor is, and with which message
  todo,      \* the messages the backfill still has to look at
  reached,   \* its maxTs
  cursor,    \* chat_cursor
  made,      \* the sessions made of each document
  lost,      \* the messages the code has given up
  crashes, failures, repeats

world == <<gate, posted>>
conn  == <<up, link, coming>>
work  == <<at, msg, todo, reached>>
store == <<cursor, made>>
spent == <<crashes, failures, repeats>>
vars  == <<world, conn, work, store, lost, spent>>

NoMsg == 0

(***************************************************************************)
(* The type invariant.                                                     *)
(***************************************************************************)
TypeOK ==
  /\ gate \in Gates /\ posted \in 0..NMsgs
  /\ up \in BOOLEAN /\ link \in BOOLEAN /\ coming \subseteq Msgs
  /\ at \in [Actors -> {"idle", "list", "next", "find", "read", "create", "tick"}]
  /\ msg \in [Actors -> Msgs \cup {NoMsg}]
  /\ todo \subseteq Msgs /\ reached \in 0..NMsgs /\ cursor \in 0..NMsgs
  /\ made \in [Docs -> Nat] /\ lost \subseteq Msgs
  /\ crashes \in 0..MaxCrashes /\ failures \in 0..MaxFailures /\ repeats \in 0..MaxRepeats

Init ==
  /\ gate \in Gates /\ posted = 0
  /\ up = TRUE /\ link = FALSE /\ coming = {}
  /\ at = [a \in Actors |-> "idle"] /\ msg = [a \in Actors |-> NoMsg]
  /\ todo = {} /\ reached = 0
  /\ cursor = 0 /\ made = [d \in Docs |-> 0]
  /\ lost = {}
  /\ crashes = 0 /\ failures = 0 /\ repeats = 0

Goto(a, from, to) == at[a] = from /\ at' = [at EXCEPT ![a] = to]
Leave(a) == at' = [at EXCEPT ![a] = "idle"] /\ msg' = [msg EXCEPT ![a] = NoMsg]

Fails == failures < MaxFailures /\ failures' = failures + 1

\* a message that is a requirement: neither path may pass it over
Wanted(m) == gate[m] = "admit"

InHand(m) == \E a \in Actors : msg[a] = m /\ at[a] \in {"find", "read", "create"}

Registered(m) == made[DocOf[m]] > 0

-----------------------------------------------------------------------------
(***************************************************************************)
(* The channel, the connection and the process                             *)
(***************************************************************************)
Post ==
  /\ posted < NMsgs /\ posted' = posted + 1
  /\ coming' = (IF up /\ link THEN coming \cup {posted + 1} ELSE coming)
  /\ UNCHANGED <<gate, up, link, work, store, lost, spent>>

LinkUp ==
  /\ up /\ ~link /\ link' = TRUE
  /\ UNCHANGED <<world, up, coming, work, store, lost, spent>>

\* what was on its way is not delivered again
LinkDown ==
  /\ link /\ link' = FALSE /\ coming' = {}
  /\ UNCHANGED <<world, up, work, store, lost, spent>>

\* what was in hand is forgotten; a message the cursor had passed is lost with it
Crash ==
  /\ up /\ crashes < MaxCrashes /\ crashes' = crashes + 1
  /\ up' = FALSE /\ link' = FALSE /\ coming' = {}
  /\ at' = [a \in Actors |-> "idle"] /\ msg' = [a \in Actors |-> NoMsg]
  /\ todo' = {} /\ reached' = 0
  /\ lost' = lost \cup {m \in 1..cursor : InHand(m)}
  /\ UNCHANGED <<world, store, failures, repeats>>

Boot ==
  /\ ~up /\ up' = TRUE
  /\ UNCHANGED <<world, link, coming, work, store, lost, spent>>

-----------------------------------------------------------------------------
(***************************************************************************)
(* addPrd: the session of the document is looked for, the document is      *)
(* read, the row is inserted under a unique index.                         *)
(***************************************************************************)
Done(a) == IF a = "backfill" THEN "next" ELSE "tick"

Find(a) ==
  /\ Goto(a, "find", IF Registered(msg[a]) THEN Done(a) ELSE "read")
  /\ UNCHANGED <<world, conn, msg, todo, reached, store, lost, spent>>

\* a document that cannot be read is only logged: its message counts as handled
Read(a) ==
  /\ \/ Goto(a, "read", "create") /\ UNCHANGED <<lost, failures>>
     \/ Goto(a, "read", Done(a)) /\ Fails /\ lost' = lost \cup {msg[a]}
  /\ UNCHANGED <<world, conn, msg, todo, reached, store, crashes, repeats>>

\* mutant: no unique index
CreateAnyway(a) ==
  /\ Goto(a, "create", Done(a))
  /\ made' = [made EXCEPT ![DocOf[msg[a]]] = @ + 1]
  /\ UNCHANGED <<world, conn, msg, todo, reached, cursor, lost, spent>>

\* the INSERT: doc_ref is unique
Insert(d) == made' = IF made[d] > 0 THEN made ELSE [made EXCEPT ![d] = 1]

\* a document registered meanwhile is a duplicate
Create(a) ==
  /\ Goto(a, "create", Done(a))
  /\ Insert(DocOf[msg[a]])
  /\ UNCHANGED <<world, conn, msg, todo, reached, cursor, lost, spent>>

-----------------------------------------------------------------------------
(***************************************************************************)
(* handleMessage                                                           *)
(***************************************************************************)
\* forwards only; what a live message passes and nobody has in hand is lost
Advance(m) ==
  /\ cursor' = Max({cursor, m})
  /\ lost' = lost \cup {k \in (cursor + 1)..m : Wanted(k) /\ k # m /\ ~Registered(k) /\ ~InHand(k)}

\* the platform may deliver a message again
Deliver(h, m) ==
  /\ up /\ link /\ m \in coming /\ at[h] = "idle"
  /\ \/ coming' = coming \ {m} /\ UNCHANGED repeats
     \/ repeats < MaxRepeats /\ repeats' = repeats + 1 /\ UNCHANGED coming
  /\ IF Wanted(m)
       THEN /\ at' = [at EXCEPT ![h] = "find"] /\ msg' = [msg EXCEPT ![h] = m]
            /\ UNCHANGED <<cursor, lost>>
       ELSE /\ Advance(m) /\ UNCHANGED <<at, msg>>
  /\ UNCHANGED <<world, up, link, todo, reached, made, crashes, failures>>

\* the gates run, then the cursor moves
Ticked(h) ==
  /\ at[h] = "tick" /\ Leave(h) /\ Advance(msg[h])
  /\ UNCHANGED <<world, conn, todo, reached, made, spent>>

-----------------------------------------------------------------------------
(***************************************************************************)
(* backfillAll: at startup, after a reconnect and every few minutes, one   *)
(* at a time.                                                              *)
(***************************************************************************)
\* mutant: the cursor is moved to the last message before they are handled
BackfillEager ==
  /\ up /\ Goto("backfill", "idle", "list")
  /\ reached' = cursor /\ cursor' = posted
  /\ UNCHANGED <<world, conn, msg, todo, made, lost, spent>>

Backfill ==
  /\ up /\ Goto("backfill", "idle", "list")
  /\ reached' = cursor
  /\ UNCHANGED <<world, conn, msg, todo, store, lost, spent>>

\* a call that fails ends the history where it was
List ==
  /\ Goto("backfill", "list", "next")
  /\ LET new == (reached + 1)..posted
     IN  \/ todo' = new /\ UNCHANGED failures
         \/ /\ Fails
            /\ \E k \in new : todo' = IF NewestFirst THEN {m \in new : m > k} ELSE {m \in new : m < k}
  /\ UNCHANGED <<world, conn, msg, reached, store, lost, crashes, repeats>>

\* mutant: past the message, so that it is not read again
NextMsgAfter ==
  /\ at["backfill"] = "next" /\ todo # {}
  /\ LET m == Min(todo)
     IN  /\ todo' = todo \ {m} /\ reached' = m + 1
         /\ IF gate[m] # "ignore"
              THEN at' = [at EXCEPT !["backfill"] = "find"] /\ msg' = [msg EXCEPT !["backfill"] = m]
              ELSE UNCHANGED at /\ msg' = [msg EXCEPT !["backfill"] = NoMsg]
  /\ UNCHANGED <<world, conn, store, lost, spent>>

\* the messages in order; one nobody can confirm is taken as a requirement
NextMsg ==
  /\ at["backfill"] = "next" /\ todo # {}
  /\ LET m == Min(todo)
     IN  /\ todo' = todo \ {m} /\ reached' = m
         /\ IF gate[m] # "ignore"
              THEN at' = [at EXCEPT !["backfill"] = "find"] /\ msg' = [msg EXCEPT !["backfill"] = m]
              ELSE UNCHANGED at /\ msg' = [msg EXCEPT !["backfill"] = NoMsg]
  /\ UNCHANGED <<world, conn, store, lost, spent>>

\* mutant: the cursor is set, not advanced
FinishSetting ==
  /\ at["backfill"] = "next" /\ todo = {} /\ Leave("backfill")
  /\ cursor' = reached /\ reached' = 0
  /\ UNCHANGED <<world, conn, todo, made, lost, spent>>

\* mutant: the flag that keeps it to one at a time is never reset
FinishBusy ==
  /\ at["backfill"] = "next" /\ todo = {}
  /\ cursor' = Max({cursor, reached}) /\ reached' = 0
  /\ UNCHANGED <<world, conn, at, msg, todo, made, lost, spent>>

Finish ==
  /\ at["backfill"] = "next" /\ todo = {} /\ Leave("backfill")
  /\ cursor' = Max({cursor, reached}) /\ reached' = 0
  /\ UNCHANGED <<world, conn, todo, made, lost, spent>>

-----------------------------------------------------------------------------
AddPrd(a) == Find(a) \/ Read(a) \/ Create(a)
Handle(h) == AddPrd(h) \/ Ticked(h)
BackfillStep == Backfill \/ List \/ NextMsg \/ Finish \/ AddPrd("backfill")

Next ==
  \/ Post \/ LinkUp \/ LinkDown \/ Crash \/ Boot
  \/ \E h \in Handlers : Handle(h) \/ \E m \in Msgs : Deliver(h, m)
  \/ BackfillStep

Spec == Init /\ [][Next]_vars

\* launchd restarts the daemon, its timer starts the backfill, and calls return
FairSpec ==
  Spec /\ WF_vars(Boot) /\ WF_vars(BackfillStep) /\ \A h \in Handlers : WF_vars(Handle(h))

-----------------------------------------------------------------------------
(***************************************************************************)
(* "Never creating the requirement twice": a document has one session,     *)
(* however often and over whichever paths it arrives.                      *)
(***************************************************************************)
NeverTwice == \A d \in Docs : made[d] <= 1

(***************************************************************************)
(* The cursor passes a requirement only when it is registered, in hand or  *)
(* given up: the backfill adds none to what the live path gives up.        *)
(***************************************************************************)
NothingForgotten ==
  \A m \in 1..cursor : Wanted(m) => Registered(m) \/ InHand(m) \/ m \in lost

(***************************************************************************)
(* A message the daemon does not need to read again stays so: the cursor   *)
(* only moves forward, with handlers and a backfill moving it at once.     *)
(***************************************************************************)
CursorForward == [][cursor' >= cursor]_vars

(***************************************************************************)
(* A requirement posted in the channel, with the daemon up or down and the *)
(* connection up or not, is registered in the end unless it was given up.  *)
(***************************************************************************)
PostedIsRegistered ==
  \A m \in Msgs : (posted >= m /\ Wanted(m)) ~> (Registered(m) \/ m \in lost)

-----------------------------------------------------------------------------
\* "never lose a requirement while offline"
NeverLost == \A m \in 1..cursor : Wanted(m) => Registered(m) \/ InHand(m)
=============================================================================

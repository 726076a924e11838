----------------------------- MODULE SlackSocket -----------------------------
(***************************************************************************)
(* The Socket Mode connection, slack/socket.ts: one channel object, the    *)
(* WebSockets it has opened, and the reconnects it has put off.  Slack     *)
(* asks for a connection to be swapped now and then; the network may kill  *)
(* one at any time, with an error before the close or without.             *)
(***************************************************************************)
EXTENDS Integers, FiniteSets

CONSTANT Conns   \* the connections there may be at a time: a bound

VARIABLES
  conn,      \* the state of each connection
  replaces,  \* the connection each closes once it is open, or none
  sleeping,  \* the reconnects that wait for their backoff
  promise,   \* connect()'s promise
  closed,    \* the channel's `closed`
  everConnected,
  wsConnected  \* what the core was last told: markWs

sockVars == <<conn, replaces, sleeping, promise, closed, everConnected, wsConnected>>

NoConn == "none"

ASSUME SlackSocketAssumption == IsFiniteSet(Conns) /\ NoConn \notin Conns

Phases == {"free", "url", "connecting", "open", "errored"}

Free == {c \in Conns : conn[c].at = "free"}
Live == {c \in Conns : conn[c].at \in {"connecting", "open", "errored"}}
OpenConns == {c \in Conns : conn[c].at = "open"}

\* a chain that leads to a connection, now or later
Heirs == {c \in Conns : conn[c].at \in {"url", "connecting", "open"} /\ ~conn[c].superseded}

Nobody == [at |-> "free", superseded |-> FALSE, first |-> FALSE]

SockTypeOK ==
  /\ conn \in [Conns -> [at : Phases, superseded : BOOLEAN, first : BOOLEAN]]
  /\ replaces \in [Conns -> Conns \cup {NoConn}]
  /\ sleeping \in 0..Cardinality(Conns)
  /\ promise \in {"none", "waiting", "resolved", "rejected"}
  /\ closed \in BOOLEAN /\ everConnected \in BOOLEAN /\ wsConnected \in BOOLEAN

SockInit ==
  /\ conn = [c \in Conns |-> Nobody] /\ replaces = [c \in Conns |-> NoConn]
  /\ sleeping = 0 /\ promise = "none"
  /\ closed = FALSE /\ everConnected = FALSE /\ wsConnected = FALSE

-----------------------------------------------------------------------------
(***************************************************************************)
(* open: the URL is asked for, then the connection is made.                *)
(***************************************************************************)
Asking(first) == [at |-> "url", superseded |-> FALSE, first |-> first]

Connect(c) ==
  /\ promise = "none" /\ ~closed /\ c \in Free
  /\ conn' = [conn EXCEPT ![c] = Asking(TRUE)] /\ promise' = "waiting"
  /\ UNCHANGED <<replaces, sleeping, closed, everConnected, wsConnected>>

\* a closed channel builds no connection, but settles the promise
Resolved(c) == promise' = IF conn[c].first THEN "resolved" ELSE promise

UrlComes(c) ==
  /\ conn[c].at = "url"
  /\ IF closed
       THEN conn' = [conn EXCEPT ![c] = Nobody] /\ Resolved(c)
       ELSE conn' = [conn EXCEPT ![c].at = "connecting"] /\ UNCHANGED promise
  /\ UNCHANGED <<replaces, sleeping, closed, everConnected, wsConnected>>

\* mutant: a reconnect that got no URL is given up
UrlFailsGivingUp(c) ==
  /\ conn[c].at = "url"
  /\ conn' = [conn EXCEPT ![c] = Nobody] /\ replaces' = [replaces EXCEPT ![c] = NoConn]
  /\ promise' = (IF conn[c].first THEN "rejected" ELSE promise)
  /\ wsConnected' = FALSE
  /\ UNCHANGED <<sleeping, closed, everConnected>>

\* only the first connect is rejected; any other is put off
UrlFails(c) ==
  /\ conn[c].at = "url"
  /\ conn' = [conn EXCEPT ![c] = Nobody] /\ replaces' = [replaces EXCEPT ![c] = NoConn]
  /\ IF closed THEN Resolved(c) /\ UNCHANGED <<sleeping, wsConnected>>
     ELSE /\ wsConnected' = FALSE
          /\ IF conn[c].first
               THEN promise' = "rejected" /\ UNCHANGED sleeping
               ELSE sleeping' = sleeping + 1 /\ UNCHANGED promise
  /\ UNCHANGED <<closed, everConnected>>

\* the connection is up: only now is the one it replaces closed
Opened(c) ==
  /\ conn[c].at = "connecting"
  /\ conn' = [d \in Conns |-> CASE d = c -> [conn[c] EXCEPT !.at = "open"]
                                [] d = replaces[c] -> Nobody
                                [] OTHER -> conn[d]]
  /\ replaces' = [d \in Conns |-> IF replaces[d] \in {c, replaces[c]} \/ d = c THEN NoConn
                                  ELSE replaces[d]]
  /\ Resolved(c)
  /\ everConnected' = TRUE
  /\ wsConnected' = (wsConnected \/ everConnected \/ conn[c].first)
  /\ UNCHANGED <<sleeping, closed>>

-----------------------------------------------------------------------------
(***************************************************************************)
(* settle: the first error or close of a connection nothing has replaced   *)
(* puts one reconnect off.                                                 *)
(***************************************************************************)
\* mutant: the error and the close each settle
SettleTwice(c) ==
  IF conn[c].superseded THEN UNCHANGED <<sleeping, wsConnected>>
  ELSE sleeping' = sleeping + 1 /\ wsConnected' = FALSE

Settle(c) ==
  IF conn[c].superseded \/ conn[c].at = "errored" THEN UNCHANGED <<sleeping, wsConnected>>
  ELSE sleeping' = sleeping + 1 /\ wsConnected' = FALSE

Error(c) ==
  /\ conn[c].at \in {"connecting", "open"}
  /\ Settle(c)
  /\ conn' = [conn EXCEPT ![c].at = "errored"]
  /\ UNCHANGED <<replaces, promise, closed, everConnected>>

CloseEvent(c) ==
  /\ c \in Live
  /\ Settle(c)
  /\ conn' = [conn EXCEPT ![c] = Nobody]
  /\ replaces' = [d \in Conns |-> IF d = c \/ replaces[d] = c THEN NoConn ELSE replaces[d]]
  /\ UNCHANGED <<promise, closed, everConnected>>

\* mutant: the old connection is closed first
SwapClosing(c, d) ==
  /\ conn[c].at = "open" /\ ~conn[c].superseded /\ d \in Free
  /\ conn' = [conn EXCEPT ![c] = Nobody, ![d] = Asking(FALSE)]
  /\ UNCHANGED <<replaces, sleeping, promise, closed, everConnected, wsConnected>>

\* Slack asks for a swap: the new connection is built before this one is closed
Swap(c, d) ==
  /\ conn[c].at = "open" /\ ~conn[c].superseded /\ d \in Free
  /\ conn' = [conn EXCEPT ![c].superseded = TRUE, ![d] = Asking(FALSE)]
  /\ replaces' = [replaces EXCEPT ![d] = c]
  /\ UNCHANGED <<sleeping, promise, closed, everConnected, wsConnected>>

Wake(d) ==
  /\ sleeping > 0 /\ sleeping' = sleeping - 1
  /\ IF closed THEN UNCHANGED conn
     ELSE d \in Free /\ conn' = [conn EXCEPT ![d] = Asking(FALSE)]
  /\ UNCHANGED <<replaces, promise, closed, everConnected, wsConnected>>

\* mutant: only the connection in use is closed
CloseCurrent ==
  /\ promise # "none" /\ ~closed /\ closed' = TRUE
  /\ conn' = [c \in Conns |-> IF c \in Live /\ ~conn[c].superseded THEN Nobody ELSE conn[c]]
  /\ UNCHANGED <<replaces, sleeping, promise, everConnected, wsConnected>>

\* every connection alive is closed
Close ==
  /\ promise # "none" /\ ~closed /\ closed' = TRUE
  /\ conn' = [c \in Conns |-> IF c \in Live THEN Nobody ELSE conn[c]]
  /\ replaces' = [c \in Conns |-> IF c \in Live \/ replaces[c] \in Live THEN NoConn ELSE replaces[c]]
  /\ UNCHANGED <<sleeping, promise, everConnected, wsConnected>>

SockNext ==
  \/ \E c \in Conns :
       \/ Connect(c) \/ UrlComes(c) \/ UrlFails(c) \/ Opened(c)
       \/ Error(c) \/ CloseEvent(c) \/ Wake(c)
       \/ \E d \in Conns : Swap(c, d)
  \/ Close

SockSpec == SockInit /\ [][SockNext]_sockVars

\* a call to Slack returns, a backoff ends, a dead connection is reported closed;
\* a network that is up again and again lets a connection through in the end
SockFairSpec ==
  /\ SockSpec
  /\ \A c \in Conns :
       /\ WF_sockVars(UrlComes(c) \/ UrlFails(c)) /\ SF_sockVars(UrlComes(c))
       /\ WF_sockVars(Wake(c)) /\ SF_sockVars(Opened(c))
       /\ WF_sockVars(conn[c].at \in {"connecting", "errored"} /\ (Opened(c) \/ CloseEvent(c)))

-----------------------------------------------------------------------------
Wanted == promise \in {"waiting", "resolved"} /\ ~closed

(***************************************************************************)
(* "Reconnecting on both events opens two connections": while the channel  *)
(* is wanted exactly one chain leads to a connection -- one is being made, *)
(* is up and not replaced, or waits for its backoff -- whatever dies, and  *)
(* in whatever order.                                                      *)
(***************************************************************************)
OneHeir == Wanted => Cardinality(Heirs) + sleeping = 1

(***************************************************************************)
(* "close() must close every connection still alive", those of an overlap  *)
(* and those made while it was called included.                            *)
(***************************************************************************)
AllClosed == closed => Live = {}

(***************************************************************************)
(* "Establish the new connection before closing the old one": the channel  *)
(* loses its last connection only to the network or to close().            *)
(***************************************************************************)
NoGap ==
  [][OpenConns # {} /\ OpenConns' = {} =>
       closed' \/ \E c \in OpenConns : Error(c) \/ CloseEvent(c)]_sockVars

(***************************************************************************)
(* "A failed reconnect backs off and retries and never gives up".          *)
(***************************************************************************)
Reconnects == Wanted ~> OpenConns # {} \/ ~Wanted

-----------------------------------------------------------------------------
\* "no path may leave an unsettled promise"
ConnectSettles == promise = "waiting" ~> promise # "waiting"

\* the core knows of a connection that is up
MarkIsTrue == ~closed /\ (\E c \in OpenConns : ~conn[c].superseded) => wsConnected
=============================================================================

------------------------------ MODULE LarkConn ------------------------------
(***************************************************************************)
(* The websocket client (internal/larkconn/client.go) and the part of      *)
(* serve that waits for it (cmd/server/main.go:208-219).  The client knows *)
(* that it is connected from a log line of the Feishu SDK, which is logged *)
(* at every connection, by whichever goroutine connects.                   *)
(***************************************************************************)
EXTENDS Naturals

CONSTANTS Loggers,        \* goroutines of the SDK that log a connection
          MaxReconnects   \* bound on the connections lost

ASSUME LarkConnAssumption == MaxReconnects \in Nat

VARIABLES link,     \* the websocket
          lost,     \* connections lost so far
          ready,    \* Client.ready, with readyDetail "connected"
          closed,   \* Client.readyCh is closed
          logger,   \* goroutine-local state of markReady
          serve     \* main goroutine: where it is in its wait for Feishu

larkConnVars == <<link, lost, ready, closed, logger, serve>>

LoggerPcs == {"idle", "log", "once"}
ServePcs == {"validate", "wait", "select", "up", "failed"}

LarkConnTypeOK ==
  /\ link \in {"down", "up"} /\ lost \in 0..MaxReconnects
  /\ ready \in BOOLEAN /\ closed \in BOOLEAN
  /\ logger \in [Loggers -> LoggerPcs]
  /\ serve \in ServePcs

LarkConnInit ==
  /\ link = "down" /\ lost = 0
  /\ ready = FALSE /\ closed = FALSE
  /\ logger = [g \in Loggers |-> "idle"]
  /\ serve = "validate"

Started == serve \in {"wait", "select", "up"}

\* The SDK connects, or reconnects.
Connect(g) ==
  /\ Started /\ link = "down" /\ logger[g] = "idle"
  /\ link' = "up"
  /\ logger' = [logger EXCEPT ![g] = "log"]
  /\ UNCHANGED <<lost, ready, closed, serve>>

Disconnect ==
  /\ link = "up" /\ lost < MaxReconnects
  /\ link' = "down" /\ lost' = lost + 1
  /\ UNCHANGED <<ready, closed, logger, serve>>

\* Mutant: only a goroutine that finds the client ready closed the channel.
MarkReadyTwice(g) ==
  /\ logger[g] = "log"
  /\ logger' = [logger EXCEPT ![g] = IF ready THEN "once" ELSE "idle"]
  /\ ready' = TRUE
  /\ UNCHANGED <<link, lost, closed, serve>>

\* markReady under readyMu: the first one goes on to close the channel.
MarkReady(g) ==
  /\ logger[g] = "log"
  /\ logger' = [logger EXCEPT ![g] = IF ready THEN "idle" ELSE "once"]
  /\ ready' = TRUE
  /\ UNCHANGED <<link, lost, closed, serve>>

\* readyOnce: by the one goroutine that has set ready.
CloseReady(g) ==
  /\ logger[g] = "once"
  /\ closed' = TRUE
  /\ logger' = [logger EXCEPT ![g] = "idle"]
  /\ UNCHANGED <<link, lost, ready, serve>>

\* WaitUntilReady under readyMu, and its select.
WaitUntilReady ==
  /\ serve = "wait"
  /\ serve' = IF ready THEN "up" ELSE "select"
  /\ UNCHANGED <<link, lost, ready, closed, logger>>

Woken ==
  /\ serve = "select" /\ closed
  /\ serve' = "up"
  /\ UNCHANGED <<link, lost, ready, closed, logger>>

\* The 20 seconds are over, or the process is told to stop.
NotReady ==
  /\ serve = "select"
  /\ serve' = "failed"
  /\ UNCHANGED <<link, lost, ready, closed, logger>>

\* Whoever waits for the connection is woken by it, although it may come between
\* the look at ready and the select, once or often; and nobody goes on without it.
ReadinessKept ==
  /\ serve = "select" /\ ready => closed \/ \E g \in Loggers : logger[g] = "once"
  /\ serve = "up" => ready
=============================================================================

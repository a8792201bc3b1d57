------------------------------ MODULE Listener ------------------------------
(***************************************************************************)
(* One listener (src/src/main.rs, serve_listener): the accept loop behind  *)
(* a semaphore of connection permits, the task of every connection with    *)
(* its time-outs, and shutdown with a grace period.  The program runs one  *)
(* listener for HTTP and, with TLS enabled, one for HTTPS, which share     *)
(* nothing but the shutdown channel.  Time-outs are actions that fairness  *)
(* makes happen; clients connect, speak, fall silent and reset as they     *)
(* like.                                                                   *)
(***************************************************************************)
EXTENDS Integers, FiniteSets

CONSTANTS Clients,          \* the connections clients open, each once
          MaxConnections    \* max_connections.max(1)

ASSUME ConnectionsAssumption ==
  IsFiniteSet(Clients) /\ MaxConnections \in Nat \ {0}

VARIABLES tls,       \* whether serve_listener was given an acceptor
          loop,      \* where the loop is: at the permit, at accept(), in the
                     \* back-off of an error, draining, aborting, returned
          permits,   \* the permits left in the semaphore
          held,      \* the loop itself holds one
          conn,      \* where the task of a connection is
          silent,    \* the clients that send and read nothing any more
          shutdown   \* the watch channel's value

vars == <<tls, loop, permits, held, conn, silent, shutdown>>

(* A connection waits in the kernel's backlog, then its task waits for the *)
(* TLS handshake or the first bytes ("greet"), hyper tells HTTP/1 from     *)
(* HTTP/2 ("detect"), waits for a request ("idle"), the handler works      *)
(* ("request") and its response is sent ("reply").  The server closes it, *)
(* or its client has gone.                                                 *)
Stages == {"none", "backlog", "greet", "detect", "idle", "request", "reply", "closed", "gone"}
Live == {c \in Clients : conn[c] \in {"greet", "detect", "idle", "request", "reply"}}
Accepting == {"permit", "accept", "error"}

Init ==
  /\ tls \in BOOLEAN
  /\ loop = "permit"
  /\ permits = MaxConnections
  /\ held = FALSE
  /\ conn = [c \in Clients |-> "none"]
  /\ silent = {}
  /\ shutdown = FALSE

TypeOK ==
  /\ tls \in BOOLEAN /\ held \in BOOLEAN /\ shutdown \in BOOLEAN
  /\ loop \in Accepting \cup {"drain", "abort", "returned"}
  /\ permits \in Nat
  /\ conn \in [Clients -> Stages]
  /\ silent \subseteq Clients

Become(c, stage) == conn' = [conn EXCEPT ![c] = stage]

(* The task of c ends, and drops its permit. *)
EndAs(c, stage) ==
  /\ Become(c, stage)
  /\ permits' = permits + 1
  /\ UNCHANGED <<tls, loop, held, silent, shutdown>>

End(c) == EndAs(c, "closed")

-----------------------------------------------------------------------------
(* The accept loop. *)
AcquirePermit ==
  /\ loop = "permit"
  /\ permits > 0
  /\ permits' = permits - 1
  /\ held' = TRUE
  /\ loop' = "accept"
  /\ UNCHANGED <<tls, conn, silent, shutdown>>

(* The permit moves into the task; select! may accept after a shutdown. *)
Accept(c) ==
  /\ loop = "accept"
  /\ conn[c] = "backlog"
  /\ Become(c, "greet")
  /\ held' = FALSE
  /\ loop' = "permit"
  /\ UNCHANGED <<tls, permits, silent, shutdown>>

(* EMFILE, ECONNABORTED, ...: the loop backs off with its permit in hand. *)
AcceptFails ==
  /\ loop = "accept"
  /\ loop' = "error"
  /\ UNCHANGED <<tls, permits, held, conn, silent, shutdown>>

RetryLosesPermit ==
  /\ loop = "error"
  /\ loop' = "permit"
  /\ held' = FALSE
  /\ UNCHANGED <<tls, permits, conn, silent, shutdown>>

(* `continue` drops the permit; the loop asks for another one. *)
Retry ==
  /\ loop = "error"
  /\ loop' = "permit"
  /\ held' = FALSE
  /\ permits' = permits + 1
  /\ UNCHANGED <<tls, conn, silent, shutdown>>

BreakUnlessWaiting ==
  /\ loop \in {"accept", "error"}
  /\ shutdown
  /\ loop' = "drain"
  /\ held' = FALSE
  /\ permits' = permits + 1
  /\ UNCHANGED <<tls, conn, silent, shutdown>>

(* A select! sees the shutdown: `break` drops the permit the loop holds. *)
Break ==
  /\ loop \in Accepting
  /\ shutdown
  /\ loop' = "drain"
  /\ held' = FALSE
  /\ permits' = permits + (IF held THEN 1 ELSE 0)
  /\ UNCHANGED <<tls, conn, silent, shutdown>>

(* The grace period is over before every task has ended: abort_all(). *)
GraceEnds ==
  /\ loop = "drain"
  /\ Live /= {}
  /\ loop' = "abort"
  /\ UNCHANGED <<tls, permits, held, conn, silent, shutdown>>

(* Every task has been joined: the listener is dropped, and with it what   *)
(* nobody accepted.                                                        *)
Return ==
  /\ loop \in {"drain", "abort"}
  /\ Live = {}
  /\ loop' = "returned"
  /\ conn' = [c \in Clients |-> IF conn[c] = "backlog" THEN "closed" ELSE conn[c]]
  /\ UNCHANGED <<tls, permits, held, silent, shutdown>>

-----------------------------------------------------------------------------
(* The task of a connection. *)

(* accept_tls_with_timeout or wait_for_protocol_preface succeeds. *)
Greeted(c) ==
  /\ conn[c] = "greet"
  /\ c \notin silent
  /\ Become(c, "detect")
  /\ UNCHANGED <<tls, loop, permits, held, silent, shutdown>>

(* The handshake timeout. *)
GreetTimeout(c) == conn[c] = "greet" /\ End(c)

(* The same select! sees the shutdown. *)
GreetCancelled(c) == conn[c] = "greet" /\ shutdown /\ End(c)

FirstBytesUnpeeked(c) ==
  /\ conn[c] = "detect"
  /\ c \notin silent
  /\ Become(c, "idle")
  /\ UNCHANGED <<tls, loop, permits, held, silent, shutdown>>

(* hyper-util reads the first bytes of the connection, without any timeout. *)
(* Over HTTP they are there: they have been peeked at.                     *)
FirstBytes(c) ==
  /\ conn[c] = "detect"
  /\ ~tls \/ c \notin silent
  /\ Become(c, "idle")
  /\ UNCHANGED <<tls, loop, permits, held, silent, shutdown>>

Request(c) ==
  /\ conn[c] = "idle"
  /\ c \notin silent
  /\ Become(c, "request")
  /\ UNCHANGED <<tls, loop, permits, held, silent, shutdown>>

(* header_read_timeout of HTTP/1, or the keep-alive pings of HTTP/2. *)
IdleTimeout(c) == conn[c] = "idle" /\ End(c)

Respond(c) ==
  /\ conn[c] = "request"
  /\ Become(c, "reply")
  /\ UNCHANGED <<tls, loop, permits, held, silent, shutdown>>

(* The client has read the response: the connection is kept. *)
Keep(c) ==
  /\ conn[c] = "reply"
  /\ c \notin silent
  /\ Become(c, "idle")
  /\ UNCHANGED <<tls, loop, permits, held, silent, shutdown>>

(* ... or not, when the client or graceful_shutdown() asked to close it. *)
Finish(c) == conn[c] = "reply" /\ c \notin silent /\ End(c)

(* serve_connection's select! sees the shutdown: graceful_shutdown() ends  *)
(* a connection without a request, and lets one with a request finish it.  *)
GracefulShutdown(c) ==
  /\ conn[c] \in {"detect", "idle"}
  /\ shutdown
  /\ End(c)

Aborted(c) == loop = "abort" /\ c \in Live /\ End(c)

-----------------------------------------------------------------------------
(* The clients, and the signal. *)
Connect(c) ==
  /\ conn[c] = "none"
  /\ loop /= "returned"
  /\ Become(c, "backlog")
  /\ UNCHANGED <<tls, loop, permits, held, silent, shutdown>>

(* c sends and reads nothing any more, and keeps its connection open. *)
FallSilent(c) ==
  /\ conn[c] \notin {"none", "closed", "gone"}
  /\ c \notin silent
  /\ silent' = silent \cup {c}
  /\ UNCHANGED <<tls, loop, permits, held, conn, shutdown>>

(* A read or a write fails: the client has gone, or broke the protocol. *)
Reset(c) == c \in Live /\ EndAs(c, "gone")

ResetUnaccepted(c) ==
  /\ conn[c] = "backlog"
  /\ Become(c, "gone")
  /\ UNCHANGED <<tls, loop, permits, held, silent, shutdown>>

(* wait_for_shutdown_signal: SIGTERM or Ctrl-C. *)
Signal ==
  /\ ~shutdown
  /\ shutdown' = TRUE
  /\ UNCHANGED <<tls, loop, permits, held, conn, silent>>

Loop == AcquirePermit \/ Retry \/ Break \/ GraceEnds \/ Return
Timeouts(c) == GreetTimeout(c) \/ GreetCancelled(c) \/ IdleTimeout(c) \/ Aborted(c)
Task(c) == Greeted(c) \/ FirstBytes(c) \/ Request(c) \/ Respond(c) \/ Keep(c)
             \/ Finish(c) \/ GracefulShutdown(c)
Client(c) == Connect(c) \/ FallSilent(c) \/ Reset(c) \/ ResetUnaccepted(c)

Next ==
  \/ Loop \/ AcceptFails \/ Signal
  \/ \E c \in Clients : Accept(c) \/ Timeouts(c) \/ Task(c) \/ Client(c)

(* The tasks run whenever they can and see a shutdown, which stays; their  *)
(* timers fire, and hyper reads bytes that have arrived.  Nothing makes a  *)
(* client or a handler move on.                                            *)
Fairness ==
  /\ WF_vars(AcquirePermit) /\ WF_vars(Retry) /\ WF_vars(Break)
  /\ WF_vars(GraceEnds) /\ WF_vars(Return)
  /\ \A c \in Clients : /\ WF_vars(FirstBytes(c)) /\ WF_vars(Timeouts(c))
                         /\ WF_vars(GracefulShutdown(c))

Spec == Init /\ [][Next]_vars /\ Fairness

-----------------------------------------------------------------------------
(* Every permit is in the semaphore, in the loop's hands or with one live  *)
(* connection, so that never more than MaxConnections are served, none is  *)
(* lost to an accept error, a time-out, an abort or a reset, and the       *)
(* listener that has returned has them all back.                           *)
PermitsConserved ==
  /\ permits \in 0..MaxConnections
  /\ held <=> loop \in {"accept", "error"}
  /\ permits + (IF held THEN 1 ELSE 0) + Cardinality(Live) = MaxConnections
  /\ loop = "returned" => permits = MaxConnections

(* A client that says nothing does not keep its permit: not while its      *)
(* greeting is awaited, not before its first request or between two, and   *)
(* over HTTP not while hyper-util looks at its first bytes.                *)
StalledReleased ==
  \A c \in Clients :
    (c \in silent /\ (conn[c] \in {"greet", "idle"} \/ (conn[c] = "detect" /\ ~tls)))
      ~> (c \notin Live)

(* A client that says nothing before its first request gives its permit    *)
(* back, whatever the listener.                                            *)
SilentReleased ==
  \A c \in Clients :
    (c \in silent /\ conn[c] \in {"greet", "detect"}) ~> (c \notin Live)

(* After the signal the listener returns, whatever its clients and the     *)
(* handlers do.                                                            *)
ShutdownEnds == shutdown ~> (loop = "returned")
=============================================================================

---------------------------- MODULE GatewayServer ----------------------------
(***************************************************************************)
(* gateway/server.py: the asyncio TCP server that frames newline-delimited  *)
(* messages, feeds the node registry and hands every valid message to the   *)
(* on_message callback; the liveness monitor; and stop().                   *)
(*                                                                         *)
(* A step is the code a task runs between two awaits.  A connection's       *)
(* handler is "reading" (suspended in readline), "callback" (suspended in   *)
(* on_message) or "closed".  Several connections interleave, and one node   *)
(* may be carried by several of them: a node that reconnects before the     *)
(* gateway notices the end of the old connection.                           *)
(***************************************************************************)
EXTENDS NodeRegistry, Sequences

CONSTANTS
    Conn,           \* client connections, each used once
    Sequence,       \* sequence numbers the nodes send
    LineKinds,      \* kinds of line the nodes send
    CheckInterval,  \* liveness_check_interval, in ticks
    Jitter,         \* how late the event loop may wake the monitor, in ticks
    MaxClock,       \* bound on the clock
    MaxLines,       \* bound on the lines the nodes send in all
    MaxInbox        \* bound on the unread lines of one connection

ASSUME ServerAssumption ==
    /\ CheckInterval \in Nat \ {0}
    /\ Jitter \in Nat
    /\ MaxClock \in Nat
    /\ MaxLines \in Nat
    /\ MaxInbox \in Nat
    /\ Sequence \subseteq Nat
    /\ LineKinds \subseteq {"message", "malformed_json", "schema",
                            "rejected_reading", "overlong"}

ASSUME ConnAssumption == IsFiniteSet(Conn)

VARIABLES
    clock,            \* time.monotonic_ns()
    checkDue,         \* when the monitor's sleep ends
    phase,            \* stop(): "running", "closing", "draining", "stopped"
    handler,          \* the client task of each connection
    inbox,            \* complete lines in the connection's StreamReader
    ended,            \* how the byte stream ended, "open" while it has not
    connectionNodes,  \* _accept_client's connection_nodes
    stats,            \* GatewayStats
    lines             \* lines sent by all nodes, for the bound

table == <<registry, heard>>
time == <<clock, checkDue>>
clients == <<handler, connectionNodes, stats>>
streams == <<inbox, ended, lines>>
vars == <<table, time, phase, clients, streams>>

\* A line is a valid message or one the server discards.
Message == [kind : {"message"}, node : Node, seq : Sequence]
RejectedKinds == {"malformed_json", "schema", "rejected_reading"}
Line == Message \cup [kind : LineKinds \ {"message"}]

Phases == {"running", "closing", "draining", "stopped"}
HandlerStates == {"unused", "reading", "callback", "closed"}
Ends == {"eof", "partial", "reset"}

Stats == [connectionsAccepted : Nat, activeConnections : Nat,
          validMessages : Nat, malformedJson : Nat, schemaRejections : Nat,
          rejectedReadings : Nat, overlongMessages : Nat,
          truncatedMessages : Nat, idleDisconnects : Nat]

Live(c) == handler[c] \in {"reading", "callback"}

Init ==
    /\ RegistryInit
    /\ clock = 0
    /\ checkDue = CheckInterval
    /\ phase = "running"
    /\ handler = [c \in Conn |-> "unused"]
    /\ inbox = [c \in Conn |-> << >>]
    /\ ended = [c \in Conn |-> "open"]
    /\ connectionNodes = [c \in Conn |-> {}]
    /\ stats = [connectionsAccepted |-> 0, activeConnections |-> 0,
                validMessages |-> 0, malformedJson |-> 0,
                schemaRejections |-> 0, rejectedReadings |-> 0,
                overlongMessages |-> 0, truncatedMessages |-> 0,
                idleDisconnects |-> 0]
    /\ lines = 0

-----------------------------------------------------------------------------
(* The nodes and the network                                                *)

\* A node (or several behind one connection) writes a line.  Once stop() has
\* closed the transport, nothing more reaches the StreamReader.
NodeSends(c, line) ==
    /\ Live(c)
    /\ ended[c] = "open"
    /\ lines < MaxLines
    /\ Len(inbox[c]) < MaxInbox
    /\ inbox' = [inbox EXCEPT ![c] = Append(@, line)]
    /\ lines' = lines + 1
    /\ UNCHANGED <<table, time, phase, clients, ended>>

\* The peer closes after a whole line ("eof") or inside one ("partial"), or the
\* connection breaks ("reset").
StreamEnds(c, how) ==
    /\ Live(c)
    /\ ended[c] = "open"
    /\ ended' = [ended EXCEPT ![c] = how]
    /\ UNCHANGED <<table, time, phase, clients, inbox, lines>>

-----------------------------------------------------------------------------
(* _accept_client and _read_client                                          *)

\* The mutant counts a connection when it ends but not when it begins.
AcceptedUncounted == [stats EXCEPT !.connectionsAccepted = @ + 1]

Accepted == [stats EXCEPT !.connectionsAccepted = @ + 1,
                          !.activeConnections = @ + 1]

\* A new client, until stop() closes the listener.
Accept(c) ==
    /\ phase = "running"
    /\ handler[c] = "unused"
    /\ handler' = [handler EXCEPT ![c] = "reading"]
    /\ stats' = Accepted
    /\ UNCHANGED <<table, time, phase, streams, connectionNodes>>

\* The loop over connection_nodes in the finally clause.
CloseNodes(nodes) ==
    [n \in Node |-> IF n \in nodes
                    THEN ConnectionClosed(registry[n]) ELSE registry[n]]

\* The finally clause of _accept_client, whatever ended _read_client; st is the
\* value of the counters at that point.  The gateway never writes to a client,
\* so closing the writer waits for nothing.
Leave(c, st) ==
    /\ handler' = [handler EXCEPT ![c] = "closed"]
    /\ inbox' = [inbox EXCEPT ![c] = << >>]
    /\ connectionNodes' = [connectionNodes EXCEPT ![c] = {}]
    /\ stats' = [st EXCEPT !.activeConnections = @ - 1]
    /\ registry' = CloseNodes(connectionNodes[c])
    /\ UNCHANGED <<heard, time, phase, ended, lines>>

\* readline has a complete line.  A broken connection raises even if lines are
\* still buffered.
CanRead(c) ==
    /\ handler[c] = "reading"
    /\ ended[c] # "reset"
    /\ inbox[c] # << >>

\* `message.node_id not in connection_nodes`
FirstOnConnection(c, n) == n \notin connectionNodes[c]

\* A valid message: count it, observe it, register the connection on the node's
\* first message over it, and call on_message.
ReadMessage(c) ==
    /\ CanRead(c)
    /\ Head(inbox[c]).kind = "message"
    /\ LET m == Head(inbox[c])
           observed == Observe(registry[m.node], m.seq, clock)
       IN  /\ registry' = [registry EXCEPT ![m.node] =
                              IF FirstOnConnection(c, m.node)
                              THEN ConnectionOpened(observed) ELSE observed]
           /\ heard' = [heard EXCEPT ![m.node] =
                              Hear(@, registry[m.node], m.seq)]
           /\ connectionNodes' =
                  [connectionNodes EXCEPT ![c] = @ \cup {m.node}]
    /\ stats' = [stats EXCEPT !.validMessages = @ + 1]
    /\ inbox' = [inbox EXCEPT ![c] = Tail(@)]
    /\ handler' = [handler EXCEPT ![c] = "callback"]
    /\ UNCHANGED <<time, phase, ended, lines>>

\* Malformed JSON or a schema violation is counted and skipped.
ReadRejected(c) ==
    /\ CanRead(c)
    /\ Head(inbox[c]).kind \in RejectedKinds
    /\ LET kind == Head(inbox[c]).kind
       IN  stats' = [stats EXCEPT
               !.malformedJson = @ + Count(kind = "malformed_json"),
               !.schemaRejections = @ + Count(kind # "malformed_json"),
               !.rejectedReadings = @ + Count(kind = "rejected_reading")]
    /\ inbox' = [inbox EXCEPT ![c] = Tail(@)]
    /\ UNCHANGED <<table, time, phase, handler, ended, connectionNodes, lines>>

\* An overlong line closes the connection; what is buffered behind it is lost.
ReadOverlong(c) ==
    /\ CanRead(c)
    /\ Head(inbox[c]).kind = "overlong"
    /\ Leave(c, [stats EXCEPT !.overlongMessages = @ + 1])

\* The end of the stream, after the buffered lines unless it was a reset.
ReadEnd(c) ==
    /\ handler[c] = "reading"
    /\ \/ ended[c] = "reset"
       \/ ended[c] \in {"eof", "partial"} /\ inbox[c] = << >>
    /\ Leave(c, [stats EXCEPT !.truncatedMessages =
                     @ + Count(ended[c] = "partial")])

\* client_idle_timeout passed without a complete line.
IdleTimeout(c) ==
    /\ handler[c] = "reading"
    /\ ended[c] = "open"
    /\ inbox[c] = << >>
    /\ Leave(c, [stats EXCEPT !.idleDisconnects = @ + 1])

CallbackReturns(c) ==
    /\ handler[c] = "callback"
    /\ handler' = [handler EXCEPT ![c] = "reading"]
    /\ UNCHANGED <<table, time, phase, streams, connectionNodes, stats>>

\* An exception of on_message ends this connection and no other.
CallbackRaises(c) ==
    /\ handler[c] = "callback"
    /\ Leave(c, stats)

-----------------------------------------------------------------------------
(* The liveness monitor and the clock                                       *)

\* The mutant reschedules without looking at the nodes that are connected.
RefreshHealthSkipsConnected ==
    [n \in Node |-> IF registry[n].connected
                    THEN registry[n] ELSE Refresh(registry[n], clock)]

RefreshHealth == [n \in Node |-> Refresh(registry[n], clock)]

\* One round of _monitor_liveness: the whole table is refreshed in one step,
\* then the monitor sleeps again.
MonitorLiveness ==
    /\ phase = "running"
    /\ clock >= checkDue
    /\ registry' = RefreshHealth
    /\ checkDue' = clock + CheckInterval
    /\ UNCHANGED <<heard, clock, phase, clients, streams>>

\* Time passes, but the event loop wakes a running monitor at most Jitter ticks
\* after its sleep ended.
Tick ==
    /\ phase # "stopped"
    /\ clock < MaxClock
    /\ phase = "running" => clock < checkDue + Jitter
    /\ clock' = clock + 1
    /\ UNCHANGED <<table, checkDue, phase, clients, streams>>

-----------------------------------------------------------------------------
(* stop()                                                                   *)

\* Close the listener and cancel the monitor.
StopBegins ==
    /\ phase = "running"
    /\ phase' = "closing"
    /\ UNCHANGED <<table, time, clients, streams>>

\* The mutant waits for the handlers without closing the client streams.
ClosedStreamsKeepsOpen(torn) == ended

\* Closing a writer ends its reader's stream; the lines it had already received
\* are still read, and half a line, on the connections in torn, is truncated.
ClosedStreams(torn) ==
    [c \in Conn |-> IF ~(Live(c) /\ ended[c] = "open") THEN ended[c]
                    ELSE IF c \in torn THEN "partial" ELSE "eof"]

\* Close every client writer.
StopClosesWriters ==
    /\ phase = "closing"
    /\ phase' = "draining"
    /\ \E torn \in SUBSET Conn : ended' = ClosedStreams(torn)
    /\ UNCHANGED <<table, time, clients, inbox, lines>>

\* The mutant does not wait for the client tasks.
GatheredEarly == TRUE

\* asyncio.gather over the client tasks is complete.
Gathered == \A c \in Conn : ~Live(c)

\* The client tasks are gathered and wait_closed returns.
StopReturns ==
    /\ phase = "draining"
    /\ Gathered
    /\ phase' = "stopped"
    /\ UNCHANGED <<table, time, clients, streams>>

\* Nothing of the gateway runs after stop() has returned.
Terminated == phase = "stopped" /\ UNCHANGED vars

-----------------------------------------------------------------------------

HandlerStep(c) ==
    \/ ReadMessage(c)
    \/ ReadRejected(c)
    \/ ReadOverlong(c)
    \/ ReadEnd(c)
    \/ CallbackReturns(c)

Next ==
    \/ \E c \in Conn :
          \/ \E line \in Line : NodeSends(c, line)
          \/ \E how \in Ends : StreamEnds(c, how)
          \/ Accept(c)
          \/ HandlerStep(c)
          \/ IdleTimeout(c)
          \/ CallbackRaises(c)
    \/ MonitorLiveness
    \/ Tick
    \/ StopBegins
    \/ StopClosesWriters
    \/ StopReturns
    \/ Terminated

Spec == Init /\ [][Next]_vars

\* The event loop runs every ready task, and on_message returns (the storage
\* worker keeps draining its queue).  Nothing is assumed of the nodes, of the
\* idle timeout or of who calls stop().
Fairness ==
    /\ \A c \in Conn : WF_vars(HandlerStep(c))
    /\ WF_vars(StopClosesWriters)
    /\ WF_vars(StopReturns)

FairSpec == Spec /\ Fairness

-----------------------------------------------------------------------------
(* Properties                                                               *)

\* The state stays well-typed: no counter of the registry or of GatewayStats
\* becomes negative.
TypeOK ==
    /\ registry \in [Node -> NodeRecord]
    /\ heard \in [Node -> [first : Nat, seen : SUBSET Nat]]
    /\ clock \in Nat
    /\ checkDue \in Nat
    /\ phase \in Phases
    /\ handler \in [Conn -> HandlerStates]
    /\ inbox \in [Conn -> Seq(Line)]
    /\ ended \in [Conn -> Ends \cup {"open"}]
    /\ connectionNodes \in [Conn -> SUBSET Node]
    /\ stats \in Stats
    /\ lines \in Nat

\* The connections whose handler has registered node n.
Carriers(n) == {c \in Conn : n \in connectionNodes[c]}

\* active_connections of a node is the number of open connections that carry it
\* and connected says whether there is one, however connections of the node
\* overlap, end or fail; and stats.active_connections is the number of running
\* handlers (_accept_client's finally clause against connection_opened/closed).
ConnectionAccounting ==
    /\ \A n \in Node :
          /\ registry[n].activeConnections = Cardinality(Carriers(n))
          /\ registry[n].connected <=> Carriers(n) # {}
    /\ stats.activeConnections = Cardinality({c \in Conn : Live(c)})

\* estimated_messages_missing against what was really received: between the
\* first and the last sequence number of a node that never restarted, it counts
\* every number that never arrived, and exceeds that by at most the messages
\* that arrived late (_classify_sequence never takes a late arrival back out).
MissingEstimateBounds ==
    \A n \in Node :
       LET r == registry[n]
           lost == (heard[n].first .. r.lastSequence) \ heard[n].seen
       IN  Known(r) /\ r.sequenceResets = 0 =>
              /\ Cardinality(lost) <= r.estimatedMissing
              /\ r.estimatedMissing <= Cardinality(lost) + r.outOfOrder

\* Silence is detected in bounded time: while the gateway runs, a node last seen
\* SuspectAfter + CheckInterval + Jitter ago is not ONLINE any more, and one last
\* seen OfflineAfter + CheckInterval + Jitter ago is OFFLINE (_monitor_liveness
\* with refresh_health).
DetectionBound ==
    \A n \in Node :
       LET silence == clock - registry[n].lastSeen
       IN  phase = "running" /\ Known(registry[n]) =>
              /\ silence >= SuspectAfter + CheckInterval + Jitter =>
                    registry[n].health # "ONLINE"
              /\ silence >= OfflineAfter + CheckInterval + Jitter =>
                    registry[n].health = "OFFLINE"

\* No false alarm: a node heard from less than SuspectAfter ago is ONLINE, one
\* heard from less than OfflineAfter ago is not OFFLINE, also while stopping.
NoFalseAlarm ==
    \A n \in Node :
       LET silence == clock - registry[n].lastSeen
       IN  Known(registry[n]) =>
              /\ silence < SuspectAfter => registry[n].health = "ONLINE"
              /\ silence < OfflineAfter => registry[n].health # "OFFLINE"

Rank(health) == CASE health = "UNKNOWN" -> 0
                  [] health = "ONLINE"  -> 1
                  [] health = "SUSPECT" -> 2
                  [] health = "OFFLINE" -> 3

\* A node's health improves only to ONLINE and only in a step that observed a
\* message of that node: the reason "valid_message_recovery" that
\* _handle_transition gives every transition to ONLINE is true, although
\* refresh_health itself could set ONLINE.
RecoveryNeedsMessage ==
    [][\A n \in Node :
          Rank(registry'[n].health) < Rank(registry[n].health) =>
             /\ registry'[n].health = "ONLINE"
             /\ registry'[n].messagesReceived > registry[n].messagesReceived]_vars

\* When the monitor looks often enough, every OFFLINE transition is preceded by
\* a SUSPECT one: nobody sees a node jump from ONLINE to OFFLINE.
SuspectBeforeOffline ==
    [][\A n \in Node :
          CheckInterval + Jitter <= OfflineAfter - SuspectAfter =>
             ~(registry[n].health = "ONLINE" /\ registry'[n].health = "OFFLINE")]_vars

\* Once stop() has returned no handler is left, so nothing can call on_message
\* any more, and every node is disconnected: what the CLI relies on when it
\* stops the forwarder and the store after the gateway.
StoppedIsQuiescent ==
    phase = "stopped" =>
       /\ \A c \in Conn : ~Live(c)
       /\ \A n \in Node : ~registry[n].connected

\* stop() returns, however many persistent clients are connected, and without
\* their help (stop closes client streams before it waits for the handlers).
StopCompletes == phase = "closing" ~> phase = "stopped"
=============================================================================

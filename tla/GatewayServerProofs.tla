------------------------- MODULE GatewayServerProofs -------------------------
(***************************************************************************)
(* TLAPS proofs about the gateway server, for any set of nodes, any finite  *)
(* set of connections, and any thresholds, intervals and bounds.            *)
(***************************************************************************)
EXTENDS GatewayServer, FiniteSetTheorems, TLAPS

-----------------------------------------------------------------------------
(* What the methods of the registry do to a node's record                   *)

\* Assigning a field a value of its type gives a record of the type.
LEMMA CounterAssignment ==
    ASSUME NEW r \in NodeRecord, NEW n \in Nat
    PROVE  /\ [r EXCEPT !.messagesReceived = n] \in NodeRecord
           /\ [r EXCEPT !.lastSeen = n] \in NodeRecord
           /\ [r EXCEPT !.lastSequence = n] \in NodeRecord
           /\ [r EXCEPT !.estimatedMissing = n] \in NodeRecord
           /\ [r EXCEPT !.duplicates = n] \in NodeRecord
           /\ [r EXCEPT !.outOfOrder = n] \in NodeRecord
           /\ [r EXCEPT !.sequenceResets = n] \in NodeRecord
           /\ [r EXCEPT !.activeConnections = n] \in NodeRecord
BY DEF NodeRecord

LEMMA FlagAssignment ==
    ASSUME NEW r \in NodeRecord, NEW b \in BOOLEAN, NEW h \in HealthStatus
    PROVE  /\ [r EXCEPT !.connected = b] \in NodeRecord
           /\ [r EXCEPT !.health = h] \in NodeRecord
BY DEF NodeRecord

\* Counting in GatewayStats keeps the counters natural numbers.
LEMMA StatsAssignment ==
    ASSUME NEW st \in Stats, NEW n \in Nat
    PROVE  /\ [st EXCEPT !.connectionsAccepted = n] \in Stats
           /\ [st EXCEPT !.activeConnections = n] \in Stats
           /\ [st EXCEPT !.validMessages = n] \in Stats
           /\ [st EXCEPT !.malformedJson = n] \in Stats
           /\ [st EXCEPT !.schemaRejections = n] \in Stats
           /\ [st EXCEPT !.rejectedReadings = n] \in Stats
           /\ [st EXCEPT !.overlongMessages = n] \in Stats
           /\ [st EXCEPT !.truncatedMessages = n] \in Stats
           /\ [st EXCEPT !.idleDisconnects = n] \in Stats
BY DEF Stats

\* _classify_sequence keeps the record well-typed (no counter goes below zero)
\* and touches the sequence fields only.
LEMMA ClassifyFacts ==
    ASSUME NEW r \in NodeRecord, NEW seq \in Nat
    PROVE  /\ ClassifySequence(r, seq) \in NodeRecord
           /\ ClassifySequence(r, seq).messagesReceived = r.messagesReceived
           /\ ClassifySequence(r, seq).activeConnections = r.activeConnections
           /\ ClassifySequence(r, seq).connected <=> r.connected
<1> DEFINE status == SequenceStatus(r, seq)
           a == IF status \in {"DUPLICATE", "OUT_OF_ORDER"}
                THEN r.lastSequence ELSE seq
           b == IF status = "GAP"
                THEN r.estimatedMissing + Missing(r, seq) ELSE r.estimatedMissing
           c == r.duplicates + Count(status = "DUPLICATE")
           d == r.outOfOrder + Count(status = "OUT_OF_ORDER")
           e == r.sequenceResets + Count(status = "RESET")
<1>1. status = "GAP" => Missing(r, seq) \in Nat
  BY DEF SequenceStatus, Known, Missing, NodeRecord
<1>2. a \in Nat /\ b \in Nat /\ c \in Nat /\ d \in Nat /\ e \in Nat
  BY <1>1 DEF NodeRecord, Count
<1>3. ClassifySequence(r, seq) =
         [r EXCEPT !.lastSequence = a, !.estimatedMissing = b,
                   !.duplicates = c, !.outOfOrder = d, !.sequenceResets = e]
  BY DEF ClassifySequence, NodeRecord
<1> HIDE DEF a, b, c, d, e
<1>4. ClassifySequence(r, seq) \in NodeRecord
  <2>1. [r EXCEPT !.lastSequence = a, !.estimatedMissing = b,
                  !.duplicates = c, !.outOfOrder = d, !.sequenceResets = e]
           \in NodeRecord
    BY <1>2, CounterAssignment
  <2>2. QED  BY <1>3, <2>1
<1>5. QED  BY <1>3, <1>4 DEF NodeRecord

\* observe counts the message, stamps it, and leaves the node ONLINE, whatever
\* its sequence number; it does not touch the connection fields.
LEMMA ObserveFacts ==
    ASSUME NEW r \in NodeRecord, NEW seq \in Nat, NEW now \in Nat
    PROVE  /\ Observe(r, seq, now) \in NodeRecord
           /\ Observe(r, seq, now).messagesReceived = r.messagesReceived + 1
           /\ Observe(r, seq, now).lastSeen = now
           /\ Observe(r, seq, now).health = "ONLINE"
           /\ Observe(r, seq, now).activeConnections = r.activeConnections
           /\ Observe(r, seq, now).connected <=> r.connected
<1> DEFINE s == ClassifySequence(r, seq)
           k == s.messagesReceived + 1
<1>1. s \in NodeRecord /\ s.messagesReceived = r.messagesReceived
      /\ s.activeConnections = r.activeConnections /\ (s.connected <=> r.connected)
  BY ClassifyFacts
<1>2. Observe(r, seq, now) =
         [s EXCEPT !.messagesReceived = k, !.lastSeen = now, !.health = "ONLINE"]
  BY DEF Observe
<1>3. k \in Nat /\ k = r.messagesReceived + 1
  BY <1>1 DEF NodeRecord
<1> HIDE DEF s, k
<1>4. Observe(r, seq, now) \in NodeRecord
  <2> DEFINE t == [s EXCEPT !.messagesReceived = k, !.lastSeen = now]
  <2>1. t \in NodeRecord
    BY <1>1, <1>3, CounterAssignment
  <2>2. Observe(r, seq, now) = [t EXCEPT !.health = "ONLINE"]
    BY <1>2
  <2> HIDE DEF t
  <2>3. QED  BY <2>1, <2>2, FlagAssignment DEF HealthStatus
<1>5. QED  BY <1>1, <1>2, <1>3, <1>4 DEF NodeRecord

\* connection_opened and connection_closed touch the connection fields only.
LEMMA OpenedFacts ==
    ASSUME NEW r \in NodeRecord
    PROVE  /\ ConnectionOpened(r) \in NodeRecord
           /\ ConnectionOpened(r).activeConnections = r.activeConnections + 1
           /\ ConnectionOpened(r).connected
           /\ \A f \in {"messagesReceived", "health", "lastSeen", "lastSequence",
                        "estimatedMissing", "outOfOrder", "sequenceResets"} :
                 ConnectionOpened(r)[f] = r[f]
<1> DEFINE k == r.activeConnections + 1
<1>1. k \in Nat
  BY DEF NodeRecord
<1>2. ConnectionOpened(r) = [r EXCEPT !.activeConnections = k, !.connected = TRUE]
  BY DEF ConnectionOpened
<1>3. ConnectionOpened(r) \in NodeRecord
  <2> HIDE DEF k
  <2>1. [r EXCEPT !.activeConnections = k] \in NodeRecord
    BY <1>1, CounterAssignment
  <2>2. QED  BY <1>1, <1>2, <2>1, FlagAssignment DEF HealthStatus
<1>4. QED  BY <1>3 DEF ConnectionOpened, NodeRecord

LEMMA ClosedFacts ==
    ASSUME NEW r \in NodeRecord
    PROVE  /\ ConnectionClosed(r) \in NodeRecord
           /\ r.activeConnections > 0 =>
                 ConnectionClosed(r).activeConnections = r.activeConnections - 1
           /\ ConnectionClosed(r).connected
                 <=> ConnectionClosed(r).activeConnections > 0
           /\ \A f \in {"messagesReceived", "health", "lastSeen", "lastSequence",
                        "estimatedMissing", "outOfOrder", "sequenceResets"} :
                 ConnectionClosed(r)[f] = r[f]
<1> DEFINE k == IF r.activeConnections > 0 THEN r.activeConnections - 1 ELSE 0
           b == k > 0
<1>1. k \in Nat /\ b \in BOOLEAN
  BY DEF NodeRecord
<1>2. ConnectionClosed(r) = [r EXCEPT !.activeConnections = k, !.connected = b]
  BY DEF ConnectionClosed
<1>3. ConnectionClosed(r) \in NodeRecord
  <2> HIDE DEF k, b
  <2>1. [r EXCEPT !.activeConnections = k] \in NodeRecord
    BY <1>1, CounterAssignment
  <2>2. QED  BY <1>1, <1>2, <2>1, FlagAssignment DEF HealthStatus
<1>4. QED  BY <1>3 DEF ConnectionClosed, NodeRecord

\* refresh_health touches the health only, and of known nodes only.
LEMMA RefreshFacts ==
    ASSUME NEW r \in NodeRecord, NEW now \in Nat
    PROVE  /\ Refresh(r, now) \in NodeRecord
           /\ Refresh(r, now).health =
                 IF Known(r) THEN Target(now - r.lastSeen) ELSE r.health
           /\ \A f \in {"messagesReceived", "lastSeen", "lastSequence",
                        "estimatedMissing", "outOfOrder", "sequenceResets",
                        "activeConnections", "connected"} :
                 Refresh(r, now)[f] = r[f]
<1>1. now - r.lastSeen \in Int
  BY DEF NodeRecord
<1>2. Target(now - r.lastSeen) \in HealthStatus
  BY <1>1, ThresholdAssumption DEF Target, HealthStatus
<1>3. QED  BY <1>2, FlagAssignment DEF Refresh, NodeRecord


-----------------------------------------------------------------------------
(* Type correctness and connection accounting                               *)

LiveConns == {c \in Conn : Live(c)}

\* Type correctness is inductive only together with the accounting: the finally
\* clause decrements active_connections, which stays a natural number because
\* the handler that ends is one of those it counts.  A connection without a
\* running handler carries no node.
AccountingInv ==
    /\ TypeOK
    /\ ConnectionAccounting
    /\ \A c \in Conn : ~Live(c) => connectionNodes[c] = {}

\* A line at the head of an inbox is a line; a message names a node and a
\* natural sequence number.
LEMMA HeadOfInbox ==
    ASSUME TypeOK, NEW c \in Conn, CanRead(c)
    PROVE  /\ Tail(inbox[c]) \in Seq(Line)
           /\ Head(inbox[c]).kind = "message" =>
                 /\ Head(inbox[c]).node \in Node
                 /\ Head(inbox[c]).seq \in Nat
<1>1. inbox[c] \in Seq(Line) /\ inbox[c] # << >>
  BY DEF TypeOK, CanRead
<1>2. Head(inbox[c]) \in Line /\ Tail(inbox[c]) \in Seq(Line)
  BY <1>1
<1>3. QED  BY <1>2, ServerAssumption DEF Line, Message

\* The sets that are counted are finite.
LEMMA CountedSetsFinite ==
    /\ IsFiniteSet(LiveConns)
    /\ Cardinality(LiveConns) \in Nat
    /\ \A n \in Node : /\ IsFiniteSet(Carriers(n))
                       /\ Cardinality(Carriers(n)) \in Nat
<1>1. LiveConns \in SUBSET Conn /\ \A n \in Node : Carriers(n) \in SUBSET Conn
  BY DEF LiveConns, Carriers
<1>2. QED  BY <1>1, ConnAssumption, FS_Subset, FS_CardinalityType

LEMMA AccountingInit == Init => AccountingInv
<1> SUFFICES ASSUME Init PROVE AccountingInv
  OBVIOUS
<1>1. Unseen \in NodeRecord
  BY DEF Unseen, NodeRecord, HealthStatus
<1>2. TypeOK
  BY <1>1, ServerAssumption
  DEF Init, RegistryInit, TypeOK, Phases, HandlerStates, Ends, Stats
<1>3. LiveConns = {} /\ \A n \in Node : Carriers(n) = {}
  BY DEF Init, LiveConns, Live, Carriers
<1>4. ConnectionAccounting
  <2>1. \A n \in Node : registry[n].activeConnections = 0
                         /\ registry[n].connected = FALSE
    BY DEF Init, RegistryInit, Unseen
  <2>2. stats.activeConnections = 0
    BY DEF Init
  <2>3. QED  BY <1>3, <2>1, <2>2, FS_EmptySet DEF ConnectionAccounting, LiveConns
<1>5. QED  BY <1>2, <1>4 DEF AccountingInv, Init

\* Steps that start and end no handler and leave the connection fields alone
\* keep the accounting as it is.
LEMMA AccountingFrame ==
    ASSUME AccountingInv, TypeOK',
           \A c \in Conn : Live(c)' = Live(c),
           UNCHANGED connectionNodes,
           stats'.activeConnections = stats.activeConnections,
           \A n \in Node :
              /\ registry'[n].activeConnections = registry[n].activeConnections
              /\ registry'[n].connected = registry[n].connected
    PROVE  AccountingInv'
<1>1. \A n \in Node : Carriers(n)' = Carriers(n)
  BY DEF Carriers
<1>2. {c \in Conn : Live(c)}' = {c \in Conn : Live(c)}
  OBVIOUS
<1>3. QED  BY <1>1, <1>2 DEF AccountingInv, ConnectionAccounting

\* The finally clause of _accept_client: one handler and one carrier of each of
\* its nodes less.
LEMMA AccountingLeave ==
    ASSUME AccountingInv, NEW c \in Conn, Live(c),
           NEW st \in Stats, st.activeConnections = stats.activeConnections,
           Leave(c, st)
    PROVE  AccountingInv'
<1> USE DEF AccountingInv
<1>1. LiveConns' = LiveConns \ {c} /\ c \in LiveConns
  BY DEF LiveConns, Live, Leave, TypeOK
<1>2. /\ Cardinality(LiveConns') = Cardinality(LiveConns) - 1
      /\ Cardinality(LiveConns) - 1 \in Nat
  <2>1. Cardinality(LiveConns \ {c}) = Cardinality(LiveConns) - 1
    BY <1>1, CountedSetsFinite, FS_RemoveElement
  <2>2. Cardinality(LiveConns) # 0
    BY <1>1, CountedSetsFinite, FS_EmptySet
  <2>3. QED  BY <1>1, <2>1, <2>2, CountedSetsFinite
<1>3. stats.activeConnections = Cardinality(LiveConns)
  BY DEF ConnectionAccounting, LiveConns
<1>4. stats' \in Stats /\ stats'.activeConnections = Cardinality(LiveConns')
  <2> DEFINE k == st.activeConnections - 1
  <2>1. k \in Nat /\ k = Cardinality(LiveConns')
    BY <1>2, <1>3
  <2>2. stats' = [st EXCEPT !.activeConnections = k]
    BY DEF Leave
  <2> HIDE DEF k
  <2>3. QED  BY <2>1, <2>2, StatsAssignment DEF Stats
<1>5. \A n \in Node : registry'[n] = IF n \in connectionNodes[c]
                                     THEN ConnectionClosed(registry[n])
                                     ELSE registry[n]
  BY DEF Leave, CloseNodes
<1>6. registry' \in [Node -> NodeRecord]
  BY ClosedFacts DEF Leave, CloseNodes, TypeOK
<1>7. TypeOK'
  BY <1>4, <1>6 DEF TypeOK, Leave, HandlerStates, time
<1>8. ASSUME NEW n \in Node
      PROVE  /\ registry'[n].activeConnections = Cardinality(Carriers(n)')
             /\ registry'[n].connected <=> Carriers(n)' # {}
  <2>1. Carriers(n)' = Carriers(n) \ {c}
    BY DEF Carriers, Leave, TypeOK
  <2>2. registry[n] \in NodeRecord
    BY DEF TypeOK
  <2>3. /\ registry[n].activeConnections = Cardinality(Carriers(n))
        /\ registry[n].connected <=> Carriers(n) # {}
    BY DEF ConnectionAccounting
  <2>4. CASE n \in connectionNodes[c]
    <3>1. c \in Carriers(n)
      BY <2>4 DEF Carriers
    <3>2. /\ Cardinality(Carriers(n)') = Cardinality(Carriers(n)) - 1
          /\ IsFiniteSet(Carriers(n)')
      BY <2>1, <3>1, CountedSetsFinite, FS_RemoveElement
    <3>3. /\ Cardinality(Carriers(n)) > 0
          /\ Cardinality(Carriers(n)') > 0 <=> Carriers(n)' # {}
          /\ Cardinality(Carriers(n)') \in Nat
      BY <3>1, <3>2, CountedSetsFinite, FS_EmptySet, FS_CardinalityType
    <3>4. registry'[n] = ConnectionClosed(registry[n])
      BY <1>5, <2>4
    <3>5. registry'[n].activeConnections = Cardinality(Carriers(n)')
      BY <2>2, <2>3, <3>2, <3>3, <3>4, ClosedFacts
    <3>6. registry'[n].connected <=> registry'[n].activeConnections > 0
      BY <2>2, <3>4, ClosedFacts
    <3>7. QED  BY <3>3, <3>5, <3>6
  <2>5. CASE n \notin connectionNodes[c]
    <3>1. Carriers(n)' = Carriers(n)
      BY <2>1, <2>5 DEF Carriers
    <3>2. registry'[n] = registry[n]
      BY <1>5, <2>5
    <3>3. QED  BY <2>3, <3>1, <3>2
  <2>6. QED  BY <2>4, <2>5
<1>9. ConnectionAccounting'
  BY <1>4, <1>8 DEF ConnectionAccounting, LiveConns
<1>10. \A d \in Conn : ~Live(d)' => connectionNodes'[d] = {}
  BY DEF Leave, Live, TypeOK
<1>11. QED  BY <1>7, <1>9, <1>10

\* A new handler.
LEMMA AccountingAccept ==
    ASSUME AccountingInv, NEW c \in Conn, Accept(c)
    PROVE  AccountingInv'
<1> USE DEF AccountingInv
<1>1. LiveConns' = LiveConns \cup {c} /\ c \notin LiveConns
  BY DEF LiveConns, Live, Accept, TypeOK
<1>2. Cardinality(LiveConns') = Cardinality(LiveConns) + 1
  BY <1>1, CountedSetsFinite, FS_AddElement
<1>3. stats' \in Stats /\ stats'.activeConnections = Cardinality(LiveConns')
  <2>1. stats.activeConnections = Cardinality(LiveConns) /\ stats \in Stats
    BY DEF ConnectionAccounting, LiveConns, TypeOK
  <2> DEFINE k == stats.connectionsAccepted + 1
             a == stats.activeConnections + 1
  <2>2. k \in Nat /\ a \in Nat /\ a = Cardinality(LiveConns')
    BY <1>2, <2>1 DEF Stats
  <2>3. stats' = [stats EXCEPT !.connectionsAccepted = k, !.activeConnections = a]
    BY DEF Accept, Accepted
  <2> HIDE DEF k, a
  <2>4. [stats EXCEPT !.connectionsAccepted = k, !.activeConnections = a] \in Stats
    BY <2>1, <2>2, StatsAssignment
  <2>5. QED  BY <2>1, <2>2, <2>3, <2>4 DEF Stats
<1>4. TypeOK'
  BY <1>3 DEF TypeOK, Accept, HandlerStates, table, time, streams
<1>5. \A n \in Node : Carriers(n)' = Carriers(n) /\ registry'[n] = registry[n]
  BY DEF Carriers, Accept, table
<1>6. \A d \in Conn : ~Live(d)' => connectionNodes'[d] = {}
  BY DEF Accept, Live, TypeOK
<1>7. QED  BY <1>3, <1>4, <1>5, <1>6 DEF ConnectionAccounting, LiveConns

\* A valid message: the connection becomes a carrier of the node with the
\* node's first message over it.
LEMMA AccountingReadMessage ==
    ASSUME AccountingInv, NEW c \in Conn, ReadMessage(c)
    PROVE  AccountingInv'
<1> USE DEF AccountingInv
<1> DEFINE m == Head(inbox[c])
           r == registry[m.node]
           k == m.seq
           o == Observe(r, k, clock)
<1>1. m.node \in Node /\ m.seq \in Nat /\ Tail(inbox[c]) \in Seq(Line)
  BY HeadOfInbox DEF ReadMessage
<1>2. /\ r \in NodeRecord /\ clock \in Nat /\ k \in Nat
      /\ heard[m.node] \in [first : Nat, seen : SUBSET Nat]
  BY <1>1 DEF TypeOK
<1>3. /\ o \in NodeRecord
      /\ o.activeConnections = r.activeConnections
      /\ o.connected <=> r.connected
  <2> HIDE DEF r, k
  <2>1. r \in NodeRecord /\ k \in Nat /\ clock \in Nat
    BY <1>2
  <2>2. o \in NodeRecord /\ o.activeConnections = r.activeConnections
    BY <2>1, ObserveFacts
  <2>3. o.connected <=> r.connected
    BY <2>1, ObserveFacts
  <2>4. QED  BY <2>2, <2>3
<1> DEFINE q == IF FirstOnConnection(c, m.node) THEN ConnectionOpened(o) ELSE o
<1>4. registry' = [registry EXCEPT ![m.node] = q]
  BY DEF ReadMessage
<1>5. connectionNodes' = [connectionNodes EXCEPT ![c] = @ \cup {m.node}]
  BY DEF ReadMessage
<1>6. heard' \in [Node -> [first : Nat, seen : SUBSET Nat]]
  BY <1>1, <1>2 DEF ReadMessage, Hear, TypeOK
<1>7. /\ handler' = [handler EXCEPT ![c] = "callback"]
      /\ inbox' = [inbox EXCEPT ![c] = Tail(@)]
      /\ stats' = [stats EXCEPT !.validMessages = @ + 1]
      /\ UNCHANGED <<clock, checkDue, phase, ended, lines>>
      /\ handler[c] = "reading"
  BY DEF ReadMessage, CanRead, time
<1> HIDE DEF m, k, o
<1>8. q \in NodeRecord
  BY <1>3, OpenedFacts
<1>9. /\ FirstOnConnection(c, m.node) =>
            /\ q.activeConnections = registry[m.node].activeConnections + 1
            /\ q.connected
      /\ ~FirstOnConnection(c, m.node) =>
            /\ q.activeConnections = registry[m.node].activeConnections
            /\ q.connected <=> registry[m.node].connected
  BY <1>3, OpenedFacts
<1> HIDE DEF q
<1>10. stats' \in Stats /\ stats'.activeConnections = stats.activeConnections
  <2>1. stats \in Stats /\ stats.validMessages + 1 \in Nat
    BY DEF TypeOK, Stats
  <2>2. [stats EXCEPT !.validMessages = stats.validMessages + 1] \in Stats
    BY <2>1, StatsAssignment
  <2>3. QED  BY <1>7, <2>1, <2>2 DEF Stats
<1>11. TypeOK'
  BY <1>1, <1>4, <1>5, <1>6, <1>7, <1>8, <1>10 DEF TypeOK, HandlerStates
<1>12. \A d \in Conn : Live(d)' = Live(d)
  BY <1>7 DEF Live, TypeOK
<1>13. {d \in Conn : Live(d)}' = {d \in Conn : Live(d)}
  BY <1>12
<1>14. ASSUME NEW n \in Node
       PROVE  /\ registry'[n].activeConnections = Cardinality(Carriers(n)')
              /\ registry'[n].connected <=> Carriers(n)' # {}
  <2>1. /\ registry[n].activeConnections = Cardinality(Carriers(n))
        /\ registry[n].connected <=> Carriers(n) # {}
    BY DEF ConnectionAccounting
  <2>2. CASE n = m.node /\ FirstOnConnection(c, n)
    <3>1. Carriers(n)' = Carriers(n) \cup {c} /\ c \notin Carriers(n)
      BY <1>5, <2>2 DEF Carriers, FirstOnConnection, TypeOK
    <3>2. Cardinality(Carriers(n)') = Cardinality(Carriers(n)) + 1
      BY <3>1, CountedSetsFinite, FS_AddElement
    <3>3. registry'[n] = q
      BY <1>4, <2>2 DEF TypeOK
    <3>4. QED  BY <1>9, <2>1, <2>2, <3>1, <3>2, <3>3
  <2>3. CASE n = m.node /\ ~FirstOnConnection(c, n)
    <3>1. Carriers(n)' = Carriers(n)
      BY <1>5, <2>3 DEF Carriers, FirstOnConnection, TypeOK
    <3>2. registry'[n] = q
      BY <1>4, <2>3 DEF TypeOK
    <3>3. QED  BY <1>9, <2>1, <2>3, <3>1, <3>2
  <2>4. CASE n # m.node
    <3>1. Carriers(n)' = Carriers(n)
      BY <1>5, <2>4 DEF Carriers, TypeOK
    <3>2. registry'[n] = registry[n]
      BY <1>4, <2>4 DEF TypeOK
    <3>3. QED  BY <2>1, <3>1, <3>2
  <2>5. QED  BY <2>2, <2>3, <2>4
<1>15. \A d \in Conn : ~Live(d)' => connectionNodes'[d] = {}
  BY <1>5, <1>7, <1>12 DEF Live, TypeOK
<1>16. QED
  BY <1>10, <1>11, <1>13, <1>14, <1>15 DEF ConnectionAccounting

\* Every step of the gateway, of the nodes and of stop() keeps the accounting.
LEMMA AccountingStep == AccountingInv /\ [Next]_vars => AccountingInv'
<1> SUFFICES ASSUME AccountingInv, [Next]_vars PROVE AccountingInv'
  OBVIOUS
<1>0. TypeOK
  BY DEF AccountingInv
<1>1. ASSUME NEW c \in Conn, NEW line \in Line, NodeSends(c, line)
      PROVE  AccountingInv'
  <2>1. TypeOK'
    BY <1>0, <1>1 DEF TypeOK, NodeSends, table, time, clients
  <2>2. QED
    BY <1>1, <2>1, AccountingFrame DEF NodeSends, table, clients, Live
<1>2. ASSUME NEW c \in Conn, NEW how \in Ends, StreamEnds(c, how)
      PROVE  AccountingInv'
  <2>1. TypeOK'
    BY <1>0, <1>2 DEF TypeOK, StreamEnds, table, time, clients
  <2>2. QED
    BY <1>2, <2>1, AccountingFrame DEF StreamEnds, table, clients, Live
<1>3. ASSUME NEW c \in Conn, ReadRejected(c)
      PROVE  AccountingInv'
  <2> DEFINE kind == Head(inbox[c]).kind
             x == stats.malformedJson + Count(kind = "malformed_json")
             y == stats.schemaRejections + Count(kind # "malformed_json")
             z == stats.rejectedReadings + Count(kind = "rejected_reading")
  <2>1. x \in Nat /\ y \in Nat /\ z \in Nat /\ stats \in Stats
    BY <1>0 DEF TypeOK, Stats, Count
  <2>2. stats' = [stats EXCEPT !.malformedJson = x, !.schemaRejections = y,
                               !.rejectedReadings = z]
    BY <1>3 DEF ReadRejected
  <2> HIDE DEF x, y, z
  <2>3. [stats EXCEPT !.malformedJson = x, !.schemaRejections = y,
                      !.rejectedReadings = z] \in Stats
    BY <2>1, StatsAssignment
  <2>4. stats' \in Stats /\ stats'.activeConnections = stats.activeConnections
    BY <2>1, <2>2, <2>3 DEF Stats
  <2>5. Tail(inbox[c]) \in Seq(Line)
    BY <1>0, <1>3, HeadOfInbox DEF ReadRejected
  <2>6. TypeOK'
    BY <1>0, <1>3, <2>4, <2>5 DEF TypeOK, ReadRejected, table, time
  <2>7. QED
    BY <1>3, <2>4, <2>6, AccountingFrame DEF ReadRejected, table, Live
<1>4. ASSUME NEW c \in Conn, ReadOverlong(c)
      PROVE  AccountingInv'
  <2> DEFINE k == stats.overlongMessages + 1
             st == [stats EXCEPT !.overlongMessages = k]
  <2>1. k \in Nat /\ stats \in Stats
    BY <1>0 DEF TypeOK, Stats
  <2>2. st \in Stats /\ st.activeConnections = stats.activeConnections
    <3> HIDE DEF k
    <3> QED  BY <2>1, StatsAssignment DEF Stats
  <2>3. Leave(c, st) /\ Live(c)
    BY <1>4 DEF ReadOverlong, CanRead, Live
  <2> HIDE DEF st
  <2>4. QED  BY <2>2, <2>3, AccountingLeave
<1>5. ASSUME NEW c \in Conn, ReadEnd(c)
      PROVE  AccountingInv'
  <2> DEFINE k == stats.truncatedMessages + Count(ended[c] = "partial")
             st == [stats EXCEPT !.truncatedMessages = k]
  <2>1. k \in Nat /\ stats \in Stats
    BY <1>0 DEF TypeOK, Stats, Count
  <2>2. st \in Stats /\ st.activeConnections = stats.activeConnections
    <3> HIDE DEF k
    <3> QED  BY <2>1, StatsAssignment DEF Stats
  <2>3. Leave(c, st) /\ Live(c)
    BY <1>5 DEF ReadEnd, Live
  <2> HIDE DEF st
  <2>4. QED  BY <2>2, <2>3, AccountingLeave
<1>6. ASSUME NEW c \in Conn, IdleTimeout(c)
      PROVE  AccountingInv'
  <2> DEFINE k == stats.idleDisconnects + 1
             st == [stats EXCEPT !.idleDisconnects = k]
  <2>1. k \in Nat /\ stats \in Stats
    BY <1>0 DEF TypeOK, Stats
  <2>2. st \in Stats /\ st.activeConnections = stats.activeConnections
    <3> HIDE DEF k
    <3> QED  BY <2>1, StatsAssignment DEF Stats
  <2>3. Leave(c, st) /\ Live(c)
    BY <1>6 DEF IdleTimeout, Live
  <2> HIDE DEF st
  <2>4. QED  BY <2>2, <2>3, AccountingLeave
<1>7. ASSUME NEW c \in Conn, CallbackReturns(c)
      PROVE  AccountingInv'
  <2>1. TypeOK'
    BY <1>0, <1>7
    DEF TypeOK, CallbackReturns, HandlerStates, table, time, streams
  <2>2. \A d \in Conn : Live(d)' = Live(d)
    BY <1>0, <1>7 DEF TypeOK, CallbackReturns, Live
  <2>3. QED
    BY <1>7, <2>1, <2>2, AccountingFrame DEF CallbackReturns, table
<1>8. ASSUME NEW c \in Conn, CallbackRaises(c)
      PROVE  AccountingInv'
  BY <1>0, <1>8, AccountingLeave DEF CallbackRaises, Live, TypeOK
<1>9. ASSUME MonitorLiveness
      PROVE  AccountingInv'
  <2>1. \A n \in Node : registry[n] \in NodeRecord /\ clock \in Nat
    BY <1>0 DEF TypeOK
  <2>2. registry' = [n \in Node |-> Refresh(registry[n], clock)]
    BY <1>9 DEF MonitorLiveness, RefreshHealth
  <2>3. \A n \in Node :
           /\ registry'[n] \in NodeRecord
           /\ registry'[n].activeConnections = registry[n].activeConnections
           /\ registry'[n].connected = registry[n].connected
    BY <2>1, <2>2, RefreshFacts
  <2>4. TypeOK'
    BY <1>0, <1>9, <2>2, <2>3, ServerAssumption
    DEF TypeOK, MonitorLiveness, clients, streams
  <2>5. QED
    BY <1>9, <2>3, <2>4, AccountingFrame DEF MonitorLiveness, clients, Live
<1>10. ASSUME Tick
       PROVE  AccountingInv'
  <2>1. TypeOK'
    BY <1>0, <1>10 DEF TypeOK, Tick, table, clients, streams
  <2>2. QED  BY <1>10, <2>1, AccountingFrame DEF Tick, table, clients, Live
<1>11. ASSUME StopBegins \/ StopReturns
       PROVE  AccountingInv'
  <2>1. TypeOK'
    BY <1>0, <1>11
    DEF TypeOK, StopBegins, StopReturns, Phases, table, time, clients, streams
  <2>2. QED
    BY <1>11, <2>1, AccountingFrame
    DEF StopBegins, StopReturns, table, clients, Live
<1>12. ASSUME StopClosesWriters
       PROVE  AccountingInv'
  <2>1. TypeOK'
    BY <1>0, <1>12
    DEF TypeOK, StopClosesWriters, ClosedStreams, Phases, Ends, table, time,
        clients
  <2>2. QED
    BY <1>12, <2>1, AccountingFrame DEF StopClosesWriters, table, clients, Live
<1>13. ASSUME UNCHANGED vars
       PROVE  AccountingInv'
  <2>1. TypeOK'
    BY <1>0, <1>13 DEF TypeOK, vars, table, time, clients, streams
  <2>2. QED  BY <1>13, <2>1, AccountingFrame DEF vars, table, clients, Live
<1>14. QED
  BY <1>1, <1>2, <1>3, <1>4, <1>5, <1>6, <1>7, <1>8, <1>9, <1>10, <1>11, <1>12,
     <1>13, AccountingAccept, AccountingReadMessage
  DEF Next, HandlerStep, Terminated

\* The inductive invariant holds in every reachable state.
LEMMA AccountingInvariant == Spec => []AccountingInv
BY AccountingInit, AccountingStep, PTL DEF Spec

\* Type correctness of the gateway: in particular no counter of GatewayStats or
\* of a node's record goes below zero, whatever connections do.
THEOREM TypeCorrectness == Spec => []TypeOK
<1>1. AccountingInv => TypeOK
  BY DEF AccountingInv
<1>2. QED  BY <1>1, AccountingInvariant, PTL

\* Connection accounting: connection_opened and connection_closed are balanced
\* for every node over every set of overlapping connections.
THEOREM ConnectionsAccounted == Spec => []ConnectionAccounting
<1>1. AccountingInv => ConnectionAccounting
  BY DEF AccountingInv
<1>2. QED  BY <1>1, AccountingInvariant, PTL

-----------------------------------------------------------------------------
(* Shutdown                                                                 *)

QuiescenceInv == phase = "stopped" => \A c \in Conn : ~Live(c)

\* Only Accept starts a handler, and only while the gateway runs.
LEMMA QuiescenceStep ==
    TypeOK /\ QuiescenceInv /\ [Next]_vars => QuiescenceInv'
<1> SUFFICES ASSUME TypeOK, QuiescenceInv, [Next]_vars PROVE QuiescenceInv'
  OBVIOUS
<1>1. ASSUME NEW c \in Conn, NEW st, Live(c), Leave(c, st) PROVE QuiescenceInv'
  BY <1>1 DEF QuiescenceInv, Leave
<1>2. ASSUME NEW c \in Conn,
             Accept(c) \/ ReadMessage(c) \/ CallbackReturns(c)
      PROVE  QuiescenceInv'
  BY <1>2 DEF QuiescenceInv, Accept, ReadMessage, CanRead, CallbackReturns, Live
<1>3. ASSUME UNCHANGED handler,
             phase' = "stopped" => phase = "stopped" \/ Gathered
      PROVE  QuiescenceInv'
  BY <1>3 DEF QuiescenceInv, Gathered, Live
<1>4. ASSUME NEW c \in Conn, NEW line \in Line, NodeSends(c, line)
      PROVE  QuiescenceInv'
  BY <1>3, <1>4 DEF NodeSends, clients
<1>5. ASSUME NEW c \in Conn, NEW how \in Ends, StreamEnds(c, how)
      PROVE  QuiescenceInv'
  BY <1>3, <1>5 DEF StreamEnds, clients
<1>6. ASSUME NEW c \in Conn, ReadRejected(c)
      PROVE  QuiescenceInv'
  BY <1>3, <1>6 DEF ReadRejected
<1>7. ASSUME NEW c \in Conn,
             ReadOverlong(c) \/ ReadEnd(c) \/ IdleTimeout(c) \/ CallbackRaises(c)
      PROVE  QuiescenceInv'
  BY <1>1, <1>7
  DEF ReadOverlong, ReadEnd, IdleTimeout, CallbackRaises, CanRead, Live
<1>8. ASSUME \/ MonitorLiveness \/ Tick \/ StopBegins \/ StopClosesWriters
             \/ StopReturns \/ UNCHANGED vars
      PROVE  QuiescenceInv'
  BY <1>3, <1>8
  DEF MonitorLiveness, Tick, StopBegins, StopClosesWriters, StopReturns, vars,
      clients
<1>9. QED
  BY <1>2, <1>4, <1>5, <1>6, <1>7, <1>8 DEF Next, HandlerStep, Terminated

\* After stop() has returned no handler is left to call on_message and no node
\* counts as connected.
THEOREM StopIsQuiescent == Spec => []StoppedIsQuiescent
<1>1. Init => QuiescenceInv
  BY DEF Init, QuiescenceInv
<1>2. AccountingInv /\ QuiescenceInv => StoppedIsQuiescent
  BY DEF AccountingInv, ConnectionAccounting, Carriers, QuiescenceInv,
         StoppedIsQuiescent
<1>3. QED
  BY <1>1, <1>2, QuiescenceStep, TypeCorrectness, AccountingInvariant, PTL
  DEF Spec

=============================================================================

------------------------ MODULE GatewaySequenceProofs ------------------------
(***************************************************************************)
(* TLAPS proof about sequence numbers: estimated_messages_missing counts    *)
(* every number that never arrived, and at most the late arrivals besides.  *)
(***************************************************************************)
EXTENDS GatewayServerProofs

\* The numbers between the first and the last that were not heard.
Lost(first, last, seen) == (first .. last) \ seen

\* A node's counters against its history.  A node that was never observed has
\* no history.  Before the first RESET the last sequence number is the largest
\* that was heard, so a gap adds numbers none of which was heard before.
Tracked(known, last, missing, late, resets, h) ==
    /\ ~known => h.seen = {} /\ missing = 0
    /\ known /\ resets = 0 =>
          /\ h.first <= last
          /\ last \in h.seen
          /\ \A s \in h.seen : s <= last
          /\ Cardinality(Lost(h.first, last, h.seen)) <= missing
          /\ missing <= Cardinality(Lost(h.first, last, h.seen)) + late

TrackedNode(r, h) ==
    Tracked(Known(r), r.lastSequence, r.estimatedMissing, r.outOfOrder,
            r.sequenceResets, h)

SequenceInv == \A n \in Node : TrackedNode(registry[n], heard[n])

-----------------------------------------------------------------------------
(* Sets of missing numbers                                                  *)

LEMMA LostFinite ==
    ASSUME NEW a \in Nat, NEW b \in Nat, NEW S
    PROVE  IsFiniteSet(Lost(a, b, S)) /\ Cardinality(Lost(a, b, S)) \in Nat
<1>1. IsFiniteSet(a .. b)
  BY FS_Interval
<1>2. Lost(a, b, S) \subseteq a .. b
  BY DEF Lost
<1>3. QED  BY <1>1, <1>2, FS_Subset, FS_CardinalityType

\* A later number, seen now, adds the numbers skipped on the way to it.
LEMMA LostAfterGap ==
    ASSUME NEW a \in Nat, NEW b \in Nat, NEW k \in Nat, NEW S \in SUBSET Nat,
           a <= b, k > b, \A s \in S : s <= b
    PROVE  Cardinality(Lost(a, k, S \cup {k})) =
              Cardinality(Lost(a, b, S)) + (k - b - 1)
<1> DEFINE gap == (b + 1) .. (k - 1)
<1>1. Lost(a, k, S \cup {k}) = Lost(a, b, S) \cup gap
  BY DEF Lost
<1>2. Lost(a, b, S) \cap gap = {}
  BY DEF Lost
<1>3. IsFiniteSet(gap) /\ Cardinality(gap) = k - b - 1
  <2>1. b + 1 \in Int /\ k - 1 \in Int
    OBVIOUS
  <2>2. IsFiniteSet(gap) /\ Cardinality(gap) =
           IF b + 1 > k - 1 THEN 0 ELSE (k - 1) - (b + 1) + 1
    BY <2>1, FS_Interval
  <2>3. QED  BY <2>2
<1>4. IsFiniteSet(Lost(a, b, S)) /\ Cardinality(Lost(a, b, S)) \in Nat
  BY LostFinite
<1> HIDE DEF gap
<1>5. Cardinality(Lost(a, b, S) \cup gap) =
         Cardinality(Lost(a, b, S)) + Cardinality(gap)
         - Cardinality(Lost(a, b, S) \cap gap)
  BY <1>3, <1>4, FS_Union
<1>6. Cardinality(Lost(a, b, S) \cap gap) = 0
  BY <1>2, FS_EmptySet
<1> DEFINE before == Cardinality(Lost(a, b, S))
           after  == Cardinality(Lost(a, k, S \cup {k}))
<1>7. after = before + (k - b - 1) - 0
  BY <1>1, <1>3, <1>5, <1>6, Zenon
<1>8. before \in Nat
  BY <1>4
<1> HIDE DEF before, after
<1>9. after = before + (k - b - 1)
  BY <1>7, <1>8
<1>10. QED  BY <1>9 DEF before, after

\* A late number takes away at most one.
LEMMA LostAfterLate ==
    ASSUME NEW a \in Nat, NEW b \in Nat, NEW k \in Nat, NEW S
    PROVE  LET before == Cardinality(Lost(a, b, S))
               after  == Cardinality(Lost(a, b, S \cup {k}))
           IN  after <= before /\ before <= after + 1
<1>1. /\ IsFiniteSet(Lost(a, b, S)) /\ Cardinality(Lost(a, b, S)) \in Nat
  BY LostFinite
<1>2. Lost(a, b, S \cup {k}) = Lost(a, b, S) \ {k}
  BY DEF Lost
<1>3. Cardinality(Lost(a, b, S) \ {k}) =
         IF k \in Lost(a, b, S) THEN Cardinality(Lost(a, b, S)) - 1
                                ELSE Cardinality(Lost(a, b, S))
  BY <1>1, FS_RemoveElement
<1> DEFINE before == Cardinality(Lost(a, b, S))
           after  == Cardinality(Lost(a, b, S \cup {k}))
<1>4. (after = before - 1 \/ after = before) /\ before \in Nat
  BY <1>1, <1>2, <1>3, Zenon
<1> HIDE DEF before, after
<1>5. after <= before /\ before <= after + 1
  BY <1>4
<1>6. QED  BY <1>5 DEF before, after

-----------------------------------------------------------------------------
(* One observation                                                          *)

LEMMA ObserveSequence ==
    ASSUME NEW r \in NodeRecord, NEW seq \in Nat, NEW now \in Nat
    PROVE  LET o == Observe(r, seq, now)
               status == SequenceStatus(r, seq)
           IN  /\ o.lastSequence = IF status \in {"DUPLICATE", "OUT_OF_ORDER"}
                                   THEN r.lastSequence ELSE seq
               /\ o.estimatedMissing = IF status = "GAP"
                                       THEN r.estimatedMissing + Missing(r, seq)
                                       ELSE r.estimatedMissing
               /\ o.outOfOrder = r.outOfOrder + Count(status = "OUT_OF_ORDER")
               /\ o.sequenceResets = r.sequenceResets + Count(status = "RESET")
<1> DEFINE s == ClassifySequence(r, seq)
<1>1. s \in NodeRecord
  BY ClassifyFacts
<1>2. \A f \in {"lastSequence", "estimatedMissing", "outOfOrder",
                "sequenceResets"} : Observe(r, seq, now)[f] = s[f]
  <2> HIDE DEF s
  <2>1. Observe(r, seq, now) = [s EXCEPT !.messagesReceived = @ + 1,
                                         !.lastSeen = now, !.health = "ONLINE"]
    BY DEF Observe, s
  <2>2. QED  BY <1>1, <2>1 DEF NodeRecord
<1>3. /\ s.lastSequence = IF SequenceStatus(r, seq) \in {"DUPLICATE", "OUT_OF_ORDER"}
                          THEN r.lastSequence ELSE seq
      /\ s.estimatedMissing = IF SequenceStatus(r, seq) = "GAP"
                              THEN r.estimatedMissing + Missing(r, seq)
                              ELSE r.estimatedMissing
      /\ s.outOfOrder = r.outOfOrder + Count(SequenceStatus(r, seq) = "OUT_OF_ORDER")
      /\ s.sequenceResets = r.sequenceResets + Count(SequenceStatus(r, seq) = "RESET")
  BY DEF ClassifySequence, NodeRecord
<1>4. QED  BY <1>2, <1>3

\* The classes of sequence numbers, as conditions on the record.
LEMMA StatusFacts ==
    ASSUME NEW r \in NodeRecord, NEW seq \in Nat
    PROVE  LET status == SequenceStatus(r, seq)
           IN  /\ status \in {"FIRST", "DUPLICATE", "IN_ORDER", "GAP", "RESET",
                              "OUT_OF_ORDER"}
               /\ status = "FIRST" <=> ~Known(r)
               /\ status = "DUPLICATE" => seq = r.lastSequence
               /\ status = "IN_ORDER" => seq = r.lastSequence + 1
               /\ status = "GAP" => seq > r.lastSequence + 1
               /\ status = "OUT_OF_ORDER" => seq < r.lastSequence
BY DEF SequenceStatus, NodeRecord

History == [first : Nat, seen : SUBSET Nat]

LEMMA ObserveTracked ==
    ASSUME NEW r \in NodeRecord, NEW h \in History, NEW seq \in Nat,
           NEW now \in Nat, TrackedNode(r, h)
    PROVE  TrackedNode(Observe(r, seq, now), Hear(h, r, seq))
<1> DEFINE o == Observe(r, seq, now)
           g == Hear(h, r, seq)
           status == SequenceStatus(r, seq)
           last == r.lastSequence
           missing == r.estimatedMissing
           late == r.outOfOrder
           resets == r.sequenceResets
<1>1. /\ last \in Nat /\ missing \in Nat /\ late \in Nat /\ resets \in Nat
      /\ h.first \in Nat /\ h.seen \in SUBSET Nat
  BY DEF NodeRecord, History
<1>2. g.first = (IF Known(r) THEN h.first ELSE seq) /\ g.seen = h.seen \cup {seq}
  BY DEF Hear
<1>3. Known(o)
  <2>1. o.messagesReceived = r.messagesReceived + 1
    BY ObserveFacts
  <2>2. r.messagesReceived \in Nat
    BY DEF NodeRecord
  <2> HIDE DEF o
  <2>3. QED  BY <2>1, <2>2 DEF Known
<1>4. /\ o.lastSequence = IF status \in {"DUPLICATE", "OUT_OF_ORDER"}
                          THEN last ELSE seq
      /\ o.estimatedMissing = IF status = "GAP"
                              THEN missing + (seq - last - 1) ELSE missing
      /\ o.outOfOrder = IF status = "OUT_OF_ORDER" THEN late + 1 ELSE late
      /\ o.sequenceResets = IF status = "RESET" THEN resets + 1 ELSE resets
  <2>1. /\ o.lastSequence = IF status \in {"DUPLICATE", "OUT_OF_ORDER"}
                            THEN last ELSE seq
        /\ o.estimatedMissing = IF status = "GAP"
                                THEN missing + Missing(r, seq) ELSE missing
        /\ o.outOfOrder = late + Count(status = "OUT_OF_ORDER")
        /\ o.sequenceResets = resets + Count(status = "RESET")
    BY ObserveSequence
  <2> HIDE DEF o, status, late, resets, missing
  <2>2. QED  BY <1>1, <2>1 DEF Missing, Count
<1>5. /\ status \in {"FIRST", "DUPLICATE", "IN_ORDER", "GAP", "RESET",
                     "OUT_OF_ORDER"}
      /\ status = "FIRST" <=> ~Known(r)
      /\ status = "DUPLICATE" => seq = last
      /\ status = "IN_ORDER" => seq = last + 1
      /\ status = "GAP" => seq > last + 1
      /\ status = "OUT_OF_ORDER" => seq < last
  BY StatusFacts
<1>6. Tracked(Known(r), last, missing, late, resets, h)
  BY DEF TrackedNode
<1> DEFINE k == Known(r)
<1> HIDE DEF o, g, status, last, missing, late, resets, k
<1> SUFFICES Tracked(TRUE, o.lastSequence, o.estimatedMissing, o.outOfOrder,
                     o.sequenceResets, g)
  BY <1>3 DEF TrackedNode, o, g
<1>7. CASE status = "FIRST"
  <2>1. /\ o.lastSequence = seq /\ o.estimatedMissing = 0
        /\ o.outOfOrder = late /\ g.first = seq /\ g.seen = {seq}
    BY <1>2, <1>4, <1>5, <1>6, <1>7 DEF Tracked
  <2>2. Lost(seq, seq, {seq}) = {}
    BY DEF Lost
  <2>3. Cardinality(Lost(g.first, o.lastSequence, g.seen)) = 0
    BY <2>1, <2>2, FS_EmptySet, Zenon
  <2>4. QED  BY <1>1, <2>1, <2>3 DEF Tracked
<1>8. CASE status = "RESET"
  BY <1>1, <1>4, <1>8 DEF Tracked
<1>9. CASE status \notin {"FIRST", "RESET"} /\ resets # 0
  BY <1>1, <1>4, <1>9 DEF Tracked
<1>10. CASE status \notin {"FIRST", "RESET"} /\ resets = 0
  <2> DEFINE n == Cardinality(Lost(h.first, last, h.seen))
             n2 == Cardinality(Lost(g.first, o.lastSequence, g.seen))
  <2>1. /\ h.first <= last /\ last \in h.seen /\ \A s \in h.seen : s <= last
        /\ n <= missing /\ missing <= n + late
    BY <1>5, <1>6, <1>10 DEF Tracked
  <2>2. g.first = h.first /\ g.seen = h.seen \cup {seq}
    BY <1>2, <1>5, <1>10
  <2>3. n \in Nat
    BY <1>1, LostFinite
  <2>4. CASE status = "DUPLICATE"
    <3>1. g.seen = h.seen /\ o.lastSequence = last
      BY <1>4, <1>5, <2>1, <2>2, <2>4
    <3>2. n2 = n
      BY <2>2, <3>1
    <3> HIDE DEF n, n2
    <3>3. /\ g.first <= o.lastSequence /\ o.lastSequence \in g.seen
          /\ \A s \in g.seen : s <= o.lastSequence
      BY <2>1, <2>2, <3>1
    <3>4. n2 <= o.estimatedMissing /\ o.estimatedMissing <= n2 + o.outOfOrder
      BY <1>4, <2>1, <2>4, <3>2
    <3>5. QED  BY <3>3, <3>4 DEF Tracked, n2
  <2>5. CASE status \in {"IN_ORDER", "GAP"}
    <3>1. seq > last /\ o.lastSequence = seq
      BY <1>1, <1>4, <1>5, <2>5
    <3>2. n2 = n + (seq - last - 1)
      BY <1>1, <2>1, <2>2, <3>1, LostAfterGap
    <3> HIDE DEF n, n2
    <3>3. o.estimatedMissing = missing + (seq - last - 1) /\ o.outOfOrder = late
      BY <1>1, <1>4, <1>5, <2>5
    <3>4. n2 <= o.estimatedMissing /\ o.estimatedMissing <= n2 + o.outOfOrder
      BY <1>1, <2>1, <2>3, <3>2, <3>3
    <3>5. /\ g.first <= o.lastSequence /\ o.lastSequence \in g.seen
          /\ \A s \in g.seen : s <= o.lastSequence
      BY <1>1, <2>1, <2>2, <3>1
    <3>6. QED  BY <3>4, <3>5 DEF Tracked, n2
  <2>6. CASE status = "OUT_OF_ORDER"
    <3>1. seq < last /\ o.lastSequence = last /\ o.estimatedMissing = missing
          /\ o.outOfOrder = late + 1
      BY <1>4, <1>5, <2>6
    <3>2. n2 <= n /\ n <= n2 + 1
      BY <1>1, <2>2, <3>1, LostAfterLate
    <3>3. n2 \in Nat
      BY <1>1, <2>2, <3>1, LostFinite
    <3> HIDE DEF n, n2
    <3>4. n2 <= o.estimatedMissing /\ o.estimatedMissing <= n2 + o.outOfOrder
      BY <1>1, <2>1, <2>3, <3>1, <3>2, <3>3
    <3>5. /\ g.first <= o.lastSequence /\ o.lastSequence \in g.seen
          /\ \A s \in g.seen : s <= o.lastSequence
      BY <1>1, <2>1, <2>2, <3>1
    <3>6. QED  BY <3>4, <3>5 DEF Tracked, n2
  <2>7. QED  BY <1>5, <1>10, <2>4, <2>5, <2>6
<1>11. QED  BY <1>7, <1>8, <1>9, <1>10

-----------------------------------------------------------------------------
(* The steps of the gateway                                                 *)

\* The sequence fields of one record are those of another.
SameSequence(q, r) ==
    \A f \in {"messagesReceived", "lastSequence", "estimatedMissing",
              "outOfOrder", "sequenceResets"} : q[f] = r[f]

LEMMA SameTracked ==
    ASSUME NEW q, NEW r, NEW h, SameSequence(q, r), TrackedNode(r, h)
    PROVE  TrackedNode(q, h)
<1>1. /\ q.messagesReceived = r.messagesReceived
      /\ q.lastSequence = r.lastSequence
      /\ q.estimatedMissing = r.estimatedMissing
      /\ q.outOfOrder = r.outOfOrder
      /\ q.sequenceResets = r.sequenceResets
  BY DEF SameSequence
<1>2. QED  BY <1>1 DEF TrackedNode, Known

LEMMA SequenceInit == Init => SequenceInv
BY DEF Init, RegistryInit, Unseen, SequenceInv, TrackedNode, Tracked, Known

LEMMA SequenceStep == TypeOK /\ SequenceInv /\ [Next]_vars => SequenceInv'
<1> SUFFICES ASSUME TypeOK, SequenceInv, [Next]_vars PROVE SequenceInv'
  OBVIOUS
<1>0. \A n \in Node : /\ registry[n] \in NodeRecord /\ heard[n] \in History
                      /\ TrackedNode(registry[n], heard[n])
  BY DEF TypeOK, SequenceInv, History
<1>1. ASSUME UNCHANGED heard,
             \A n \in Node : SameSequence(registry'[n], registry[n])
      PROVE  SequenceInv'
  BY <1>0, <1>1, SameTracked DEF SequenceInv
<1>2. ASSUME UNCHANGED table PROVE SequenceInv'
  BY <1>2, <1>1 DEF table, SameSequence
<1>3. ASSUME NEW c \in Conn, NEW st, Leave(c, st)
      PROVE  SequenceInv'
  <2>1. \A n \in Node : registry'[n] = IF n \in connectionNodes[c]
                                       THEN ConnectionClosed(registry[n])
                                       ELSE registry[n]
    BY <1>3 DEF Leave, CloseNodes
  <2>2. \A n \in Node : SameSequence(registry'[n], registry[n])
    BY <1>0, <2>1, ClosedFacts DEF SameSequence
  <2>3. QED  BY <1>1, <1>3, <2>2 DEF Leave
<1>4. ASSUME MonitorLiveness PROVE SequenceInv'
  <2>1. \A n \in Node : registry'[n] = Refresh(registry[n], clock)
    BY <1>4 DEF MonitorLiveness, RefreshHealth
  <2>2. \A n \in Node : SameSequence(registry'[n], registry[n])
    <3>1. ASSUME NEW n \in Node
          PROVE  SameSequence(Refresh(registry[n], clock), registry[n])
      <4>1. registry[n] \in NodeRecord /\ clock \in Nat
        BY <1>0 DEF TypeOK
      <4>2. QED  BY <4>1, RefreshFacts DEF SameSequence
    <3>2. QED  BY <2>1, <3>1
  <2>3. QED  BY <1>1, <1>4, <2>2 DEF MonitorLiveness
<1>5. ASSUME NEW c \in Conn, ReadMessage(c) PROVE SequenceInv'
  <2> DEFINE m == Head(inbox[c])
             r == registry[m.node]
             h == heard[m.node]
             k == m.seq
             o == Observe(r, k, clock)
             q == IF FirstOnConnection(c, m.node) THEN ConnectionOpened(o) ELSE o
             g == Hear(h, r, k)
  <2>1. m.node \in Node /\ k \in Nat
    BY <1>5, HeadOfInbox DEF ReadMessage
  <2>2. /\ r \in NodeRecord /\ h \in History /\ clock \in Nat
        /\ TrackedNode(r, h)
    BY <1>0, <2>1 DEF TypeOK
  <2>3. /\ registry' = [registry EXCEPT ![m.node] = q]
        /\ heard' = [heard EXCEPT ![m.node] = g]
    BY <1>5 DEF ReadMessage
  <2>4. o \in NodeRecord /\ TrackedNode(o, g)
    <3> HIDE DEF r, h, k
    <3> QED  BY <2>1, <2>2, ObserveFacts, ObserveTracked
  <2> HIDE DEF o, g
  <2>5. SameSequence(q, o)
    BY <2>4, OpenedFacts DEF SameSequence
  <2> HIDE DEF q
  <2>6. TrackedNode(q, g)
    BY <2>4, <2>5, SameTracked
  <2> HIDE DEF m
  <2>7. ASSUME NEW n \in Node PROVE TrackedNode(registry'[n], heard'[n])
    <3>1. CASE n = m.node
      BY <2>3, <2>6, <3>1 DEF TypeOK
    <3>2. CASE n # m.node
      BY <1>0, <2>3, <3>2 DEF TypeOK
    <3>3. QED  BY <3>1, <3>2
  <2>8. QED  BY <2>7 DEF SequenceInv
<1>6. ASSUME NEW c \in Conn, NEW line \in Line, NodeSends(c, line)
      PROVE  SequenceInv'
  BY <1>2, <1>6 DEF NodeSends
<1>7. ASSUME NEW c \in Conn, NEW how \in Ends, StreamEnds(c, how)
      PROVE  SequenceInv'
  BY <1>2, <1>7 DEF StreamEnds
<1>8. ASSUME NEW c \in Conn, Accept(c) \/ ReadRejected(c) \/ CallbackReturns(c)
      PROVE  SequenceInv'
  BY <1>2, <1>8 DEF Accept, ReadRejected, CallbackReturns
<1>9. ASSUME NEW c \in Conn,
             ReadOverlong(c) \/ ReadEnd(c) \/ IdleTimeout(c) \/ CallbackRaises(c)
      PROVE  SequenceInv'
  BY <1>3, <1>9 DEF ReadOverlong, ReadEnd, IdleTimeout, CallbackRaises
<1>10. ASSUME \/ Tick \/ StopBegins \/ StopClosesWriters
              \/ StopReturns \/ UNCHANGED vars
       PROVE  SequenceInv'
  BY <1>2, <1>10 DEF Tick, StopBegins, StopClosesWriters, StopReturns, vars
<1>11. QED
  BY <1>4, <1>5, <1>6, <1>7, <1>8, <1>9, <1>10 DEF Next, HandlerStep, Terminated

LEMMA SequenceInvariant == Spec => []SequenceInv
BY SequenceInit, SequenceStep, TypeCorrectness, PTL DEF Spec

\* For a node that never restarted, estimated_messages_missing is at least the
\* number of messages that were lost and exceeds it by at most the number of
\* those that arrived late, for any set of nodes, connections and sequence
\* numbers.
THEOREM MissingEstimated == Spec => []MissingEstimateBounds
<1>1. SequenceInv => MissingEstimateBounds
  BY DEF SequenceInv, TrackedNode, Tracked, Lost, MissingEstimateBounds
<1>2. QED  BY <1>1, SequenceInvariant, PTL
=============================================================================

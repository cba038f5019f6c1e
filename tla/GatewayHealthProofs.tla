------------------------- MODULE GatewayHealthProofs -------------------------
(***************************************************************************)
(* TLAPS proofs about the liveness monitor: silence is detected in bounded  *)
(* time, nobody is suspected too early, and health changes only in the ways *)
(* the gateway reports.                                                     *)
(***************************************************************************)
EXTENDS GatewayServerProofs

(* What a step may do to the health of a node                               *)

Quiet(n) ==
    /\ registry'[n].health = registry[n].health
    /\ registry'[n].lastSeen = registry[n].lastSeen
    /\ registry'[n].messagesReceived = registry[n].messagesReceived

Observed(n) ==
    /\ registry'[n].health = "ONLINE"
    /\ registry'[n].lastSeen = clock
    /\ registry'[n].messagesReceived = registry[n].messagesReceived + 1

\* Outside the monitor only a message of a node changes its health, and then
\* stamps it; a handler that ends changes the connection fields only.
LEMMA StepKinds ==
    ASSUME TypeOK, [Next]_vars
    PROVE  \/ MonitorLiveness
           \/ Tick
           \/ /\ UNCHANGED time
              /\ phase' = "running" => phase = "running"
              /\ \A n \in Node : Quiet(n) \/ Observed(n)
<1> DEFINE Goal == /\ UNCHANGED time
                   /\ phase' = "running" => phase = "running"
                   /\ \A n \in Node : Quiet(n) \/ Observed(n)
<1>0. \A n \in Node : registry[n] \in NodeRecord
  BY DEF TypeOK
<1>1. ASSUME UNCHANGED <<registry, time>>, phase' = "running" => phase = "running"
      PROVE  Goal
  BY <1>1 DEF Quiet
<1>2. ASSUME NEW c \in Conn, NEW st, Leave(c, st)
      PROVE  Goal
  <2>1. \A n \in Node : registry'[n] = IF n \in connectionNodes[c]
                                       THEN ConnectionClosed(registry[n])
                                       ELSE registry[n]
    BY <1>2 DEF Leave, CloseNodes
  <2>2. \A n \in Node : Quiet(n)
    BY <1>0, <2>1, ClosedFacts DEF Quiet
  <2>3. QED  BY <1>2, <2>2 DEF Leave
<1>3. ASSUME NEW c \in Conn, ReadMessage(c)
      PROVE  Goal
  <2> DEFINE m == Head(inbox[c])
             r == registry[m.node]
             k == m.seq
             o == Observe(r, k, clock)
             q == IF FirstOnConnection(c, m.node) THEN ConnectionOpened(o) ELSE o
  <2>1. m.node \in Node /\ k \in Nat
    BY <1>3, HeadOfInbox DEF ReadMessage
  <2>2. r \in NodeRecord /\ clock \in Nat
    BY <1>0, <2>1 DEF TypeOK
  <2>3. registry' = [registry EXCEPT ![m.node] = q] /\ UNCHANGED <<time, phase>>
    BY <1>3 DEF ReadMessage
  <2>4. /\ o \in NodeRecord /\ o.health = "ONLINE" /\ o.lastSeen = clock
        /\ o.messagesReceived = r.messagesReceived + 1
    <3> HIDE DEF r, k
    <3> QED  BY <2>1, <2>2, ObserveFacts
  <2> HIDE DEF o
  <2>5. /\ q.health = "ONLINE" /\ q.lastSeen = clock
        /\ q.messagesReceived = r.messagesReceived + 1
    BY <2>4, OpenedFacts
  <2> HIDE DEF q, k, m
  <2>6. Observed(m.node)
    BY <2>1, <2>3, <2>5 DEF Observed, TypeOK
  <2>7. \A n \in Node : n # m.node => Quiet(n)
    BY <2>3 DEF Quiet, TypeOK
  <2>8. QED  BY <2>3, <2>6, <2>7
<1>4. ASSUME NEW c \in Conn, NEW line \in Line, NodeSends(c, line)
      PROVE  Goal
  BY <1>1, <1>4 DEF NodeSends, table
<1>5. ASSUME NEW c \in Conn, NEW how \in Ends, StreamEnds(c, how)
      PROVE  Goal
  BY <1>1, <1>5 DEF StreamEnds, table
<1>6. ASSUME NEW c \in Conn, Accept(c) \/ ReadRejected(c) \/ CallbackReturns(c)
      PROVE  Goal
  BY <1>1, <1>6 DEF Accept, ReadRejected, CallbackReturns, table
<1>7. ASSUME NEW c \in Conn,
             ReadOverlong(c) \/ ReadEnd(c) \/ IdleTimeout(c) \/ CallbackRaises(c)
      PROVE  Goal
  BY <1>2, <1>7 DEF ReadOverlong, ReadEnd, IdleTimeout, CallbackRaises
<1>8. ASSUME StopBegins \/ StopClosesWriters \/ StopReturns \/ UNCHANGED vars
      PROVE  Goal
  BY <1>1, <1>8 DEF StopBegins, StopClosesWriters, StopReturns, vars, table
<1> HIDE DEF Goal
<1>9. Goal \/ MonitorLiveness \/ Tick
  BY <1>3, <1>4, <1>5, <1>6, <1>7, <1>8 DEF Next, HandlerStep, Terminated
<1>10. QED  BY <1>9 DEF Goal

-----------------------------------------------------------------------------
(* The inductive invariant                                                  *)

\* The health of a known node, at time now, against its last message and
\* against the monitor's last check, at due - CheckInterval: what was ONLINE (or
\* not OFFLINE) after that check had been heard from recently enough then, and
\* what is not ONLINE (or OFFLINE) has been silent long enough.
NodeTimed(r, now, due) ==
    IF Known(r)
    THEN /\ r.health \in HealthStatus
         /\ r.lastSeen <= now
         /\ r.health = "ONLINE" =>
               due - CheckInterval - r.lastSeen < SuspectAfter
         /\ r.health # "OFFLINE" =>
               due - CheckInterval - r.lastSeen < OfflineAfter
         /\ r.health # "ONLINE" => now - r.lastSeen >= SuspectAfter
         /\ r.health = "OFFLINE" => now - r.lastSeen >= OfflineAfter
    ELSE r.health = "UNKNOWN"

\* The monitor's next check is never more than one interval away, and while it
\* runs it is never more than Jitter late.
HealthInv ==
    /\ checkDue - CheckInterval <= clock
    /\ phase = "running" => clock <= checkDue + Jitter
    /\ \A n \in Node : NodeTimed(registry[n], clock, checkDue)

LEMMA HealthInit == Init => HealthInv
BY ServerAssumption DEF Init, RegistryInit, Unseen, HealthInv, NodeTimed, Known

LEMMA HealthStep == TypeOK /\ HealthInv /\ [Next]_vars => HealthInv'
<1> SUFFICES ASSUME TypeOK, HealthInv, [Next]_vars PROVE HealthInv'
  OBVIOUS
<1>0. /\ \A n \in Node : registry[n] \in NodeRecord
      /\ clock \in Nat /\ checkDue \in Nat
      /\ CheckInterval \in Nat /\ Jitter \in Nat
      /\ SuspectAfter \in Nat /\ SuspectAfter > 0
      /\ OfflineAfter \in Nat /\ OfflineAfter > SuspectAfter
  BY ServerAssumption, ThresholdAssumption DEF TypeOK
<1>1. ASSUME MonitorLiveness PROVE HealthInv'
  <2>1. ASSUME NEW n \in Node
        PROVE  NodeTimed(registry'[n], clock, clock + CheckInterval)
    <3> DEFINE r == registry[n]
               s == Refresh(r, clock)
    <3>1. registry'[n] = s
      BY <1>1 DEF MonitorLiveness, RefreshHealth
    <3>2. /\ s.lastSeen = r.lastSeen /\ s.messagesReceived = r.messagesReceived
          /\ s.health = IF Known(r) THEN Target(clock - r.lastSeen) ELSE r.health
      BY <1>0, RefreshFacts
    <3>3. NodeTimed(r, clock, checkDue) /\ r.lastSeen \in Nat
          /\ r.messagesReceived \in Nat
      BY <1>0 DEF HealthInv, NodeRecord
    <3> HIDE DEF r, s
    <3>4. NodeTimed(s, clock, clock + CheckInterval)
      BY <1>0, <3>2, <3>3 DEF NodeTimed, Known, Target, HealthStatus
    <3>5. QED  BY <3>1, <3>4
  <2>2. clock' = clock /\ checkDue' = clock + CheckInterval /\ phase' = phase
    BY <1>1 DEF MonitorLiveness
  <2>3. QED  BY <1>0, <2>1, <2>2 DEF HealthInv
<1>2. ASSUME Tick PROVE HealthInv'
  <2>1. /\ clock' = clock + 1 /\ UNCHANGED <<registry, checkDue, phase>>
        /\ phase = "running" => clock < checkDue + Jitter
    BY <1>2 DEF Tick, table
  <2>2. ASSUME NEW n \in Node
        PROVE  NodeTimed(registry[n], clock + 1, checkDue)
    <3>1. registry[n].lastSeen \in Nat /\ NodeTimed(registry[n], clock, checkDue)
      BY <1>0 DEF HealthInv, NodeRecord
    <3>2. QED  BY <1>0, <3>1 DEF NodeTimed
  <2>3. QED  BY <1>0, <2>1, <2>2 DEF HealthInv
<1>3. ASSUME UNCHANGED time, phase' = "running" => phase = "running",
             \A n \in Node : Quiet(n) \/ Observed(n)
      PROVE  HealthInv'
  <2>1. ASSUME NEW n \in Node PROVE NodeTimed(registry'[n], clock, checkDue)
    <3>1. /\ registry[n].lastSeen \in Nat /\ registry[n].messagesReceived \in Nat
          /\ NodeTimed(registry[n], clock, checkDue)
          /\ checkDue - CheckInterval <= clock
      BY <1>0 DEF HealthInv, NodeRecord
    <3>2. CASE Quiet(n)
      BY <1>0, <3>1, <3>2 DEF NodeTimed, Known, Quiet
    <3>3. CASE Observed(n)
      BY <1>0, <3>1, <3>3 DEF NodeTimed, Known, Observed, HealthStatus
    <3>4. QED  BY <1>3, <3>2, <3>3
  <2>2. QED  BY <1>3, <2>1 DEF HealthInv, time
<1>4. QED  BY <1>1, <1>2, <1>3, StepKinds

LEMMA HealthInvariant == Spec => []HealthInv
BY HealthInit, HealthStep, TypeCorrectness, PTL DEF Spec

-----------------------------------------------------------------------------
(* The theorems                                                             *)

\* A silent node is SUSPECT or OFFLINE at most CheckInterval + Jitter after the
\* threshold, for every threshold, interval and delay.
THEOREM SilenceDetected == Spec => []DetectionBound
<1>1. TypeOK /\ HealthInv => DetectionBound
  <2> SUFFICES ASSUME TypeOK, HealthInv, NEW n \in Node,
                      phase = "running", Known(registry[n])
               PROVE  LET silence == clock - registry[n].lastSeen IN
                      /\ silence >= SuspectAfter + CheckInterval + Jitter =>
                            registry[n].health # "ONLINE"
                      /\ silence >= OfflineAfter + CheckInterval + Jitter =>
                            registry[n].health = "OFFLINE"
    BY DEF DetectionBound
  <2>1. /\ registry[n].lastSeen \in Nat /\ clock \in Nat /\ checkDue \in Nat
        /\ CheckInterval \in Nat /\ Jitter \in Nat
        /\ SuspectAfter \in Nat /\ OfflineAfter \in Nat
    BY ServerAssumption, ThresholdAssumption DEF TypeOK, NodeRecord
  <2>2. NodeTimed(registry[n], clock, checkDue) /\ clock <= checkDue + Jitter
    BY DEF HealthInv
  <2>3. QED  BY <2>1, <2>2 DEF NodeTimed
<1>2. QED  BY <1>1, HealthInvariant, TypeCorrectness, PTL

\* No node is suspected or declared OFFLINE before its threshold.
THEOREM NeverTooEarly == Spec => []NoFalseAlarm
<1>1. TypeOK /\ HealthInv => NoFalseAlarm
  <2> SUFFICES ASSUME TypeOK, HealthInv, NEW n \in Node, Known(registry[n])
               PROVE  LET silence == clock - registry[n].lastSeen IN
                      /\ silence < SuspectAfter => registry[n].health = "ONLINE"
                      /\ silence < OfflineAfter => registry[n].health # "OFFLINE"
    BY DEF NoFalseAlarm
  <2>1. /\ registry[n].lastSeen \in Nat /\ clock \in Nat
        /\ SuspectAfter \in Nat /\ OfflineAfter \in Nat
    BY ThresholdAssumption DEF TypeOK, NodeRecord
  <2>2. NodeTimed(registry[n], clock, checkDue)
    BY DEF HealthInv
  <2>3. QED  BY <2>1, <2>2 DEF NodeTimed
<1>2. QED  BY <1>1, HealthInvariant, TypeCorrectness, PTL

\* With a monitor that is fast enough for the two thresholds, a node never
\* jumps from ONLINE to OFFLINE.
THEOREM SuspectComesFirst == Spec => SuspectBeforeOffline
<1>1. ASSUME TypeOK, HealthInv, [Next]_vars, NEW n \in Node,
             CheckInterval + Jitter <= OfflineAfter - SuspectAfter,
             registry[n].health = "ONLINE"
      PROVE  registry'[n].health # "OFFLINE"
  <2>0. /\ registry[n] \in NodeRecord /\ registry[n].lastSeen \in Nat
        /\ clock \in Nat /\ checkDue \in Nat
        /\ CheckInterval \in Nat /\ Jitter \in Nat
        /\ SuspectAfter \in Nat /\ OfflineAfter \in Nat
    BY <1>1, ServerAssumption, ThresholdAssumption DEF TypeOK, NodeRecord
  <2>1. CASE MonitorLiveness
    <3>1. registry'[n] = Refresh(registry[n], clock) /\ phase = "running"
      BY <1>1, <2>1 DEF MonitorLiveness, RefreshHealth
    <3>2. registry'[n].health = IF Known(registry[n])
                                THEN Target(clock - registry[n].lastSeen)
                                ELSE registry[n].health
      <4>1. registry[n] \in NodeRecord /\ clock \in Nat
        BY <2>0
      <4>2. Refresh(registry[n], clock).health =
               IF Known(registry[n]) THEN Target(clock - registry[n].lastSeen)
                                     ELSE registry[n].health
        BY <4>1, RefreshFacts, Zenon
      <4>3. QED  BY <3>1, <4>2, Zenon
    <3>3. NodeTimed(registry[n], clock, checkDue) /\ clock <= checkDue + Jitter
      BY <1>1, <3>1 DEF HealthInv
    <3>4. Known(registry[n]) => clock - registry[n].lastSeen < OfflineAfter
      BY <1>1, <2>0, <3>3 DEF NodeTimed
    <3>5. QED  BY <1>1, <2>0, <3>2, <3>4 DEF Target
  <2>2. CASE Tick
    BY <1>1, <2>2 DEF Tick, table
  <2>3. CASE Quiet(n) \/ Observed(n)
    BY <1>1, <2>3 DEF Quiet, Observed
  <2>4. QED  BY <1>1, <2>1, <2>2, <2>3, StepKinds
<1>2. TypeOK /\ HealthInv /\ [Next]_vars =>
         [\A n \in Node :
             CheckInterval + Jitter <= OfflineAfter - SuspectAfter =>
                ~(registry[n].health = "ONLINE"
                  /\ registry'[n].health = "OFFLINE")]_vars
  BY <1>1
<1>3. QED
  BY <1>2, HealthInvariant, TypeCorrectness, PTL DEF Spec, SuspectBeforeOffline

\* Health improves only through a message of the node: the monitor, which could
\* set ONLINE, never does.
THEOREM RecoveryByMessage == Spec => RecoveryNeedsMessage
<1>1. ASSUME TypeOK, HealthInv, [Next]_vars, NEW n \in Node,
             Rank(registry'[n].health) < Rank(registry[n].health)
      PROVE  /\ registry'[n].health = "ONLINE"
             /\ registry'[n].messagesReceived > registry[n].messagesReceived
  <2>0. /\ registry[n] \in NodeRecord /\ registry[n].lastSeen \in Nat
        /\ registry[n].messagesReceived \in Nat /\ clock \in Nat
        /\ SuspectAfter \in Nat /\ OfflineAfter \in Nat
        /\ OfflineAfter > SuspectAfter
        /\ registry[n].health \in {"UNKNOWN", "ONLINE", "SUSPECT", "OFFLINE"}
    BY <1>1, ThresholdAssumption DEF TypeOK, NodeRecord, HealthStatus
  <2>1. CASE MonitorLiveness
    <3>1. registry'[n] = Refresh(registry[n], clock)
      BY <1>1, <2>1 DEF MonitorLiveness, RefreshHealth
    <3>2. registry'[n].health = IF Known(registry[n])
                                THEN Target(clock - registry[n].lastSeen)
                                ELSE registry[n].health
      <4>1. registry[n] \in NodeRecord /\ clock \in Nat
        BY <2>0
      <4>2. Refresh(registry[n], clock).health =
               IF Known(registry[n]) THEN Target(clock - registry[n].lastSeen)
                                     ELSE registry[n].health
        BY <4>1, RefreshFacts, Zenon
      <4>3. QED  BY <3>1, <4>2, Zenon
    <3>3. NodeTimed(registry[n], clock, checkDue)
      BY <1>1 DEF HealthInv
    <3>4. ~(Rank(registry'[n].health) < Rank(registry[n].health))
      BY <2>0, <3>2, <3>3 DEF NodeTimed, Target, Rank, HealthStatus
    <3>5. QED  BY <1>1, <3>4
  <2>2. CASE Tick \/ Quiet(n)
    <3>1. registry'[n].health = registry[n].health
      BY <1>1, <2>2 DEF Tick, Quiet, table
    <3>2. Rank(registry[n].health) \in Int
      BY <2>0 DEF Rank
    <3>3. QED  BY <1>1, <3>1, <3>2
  <2>3. CASE Observed(n)
    BY <1>1, <2>0, <2>3 DEF Observed
  <2>4. QED  BY <1>1, <2>1, <2>2, <2>3, StepKinds
<1>2. TypeOK /\ HealthInv /\ [Next]_vars =>
         [\A n \in Node :
             Rank(registry'[n].health) < Rank(registry[n].health) =>
                /\ registry'[n].health = "ONLINE"
                /\ registry'[n].messagesReceived > registry[n].messagesReceived]_vars
  BY <1>1
<1>3. QED
  BY <1>2, HealthInvariant, TypeCorrectness, PTL DEF Spec, RecoveryNeedsMessage
=============================================================================

---------------------------- MODULE NodeRegistry ----------------------------
(***************************************************************************)
(* gateway/registry.py: the gateway's table of nodes.  For every node id it *)
(* keeps the last sequence number, the counters that classify sequence      *)
(* numbers, the number of TCP connections that currently carry the node and *)
(* the node's health.                                                       *)
(*                                                                         *)
(* Every method of the class runs to completion between two awaits of the   *)
(* event loop, so a method is an operator from the node's old record to its *)
(* new one, and the server's handlers (GatewayServer) compose them into     *)
(* their own steps.  Time is the monotonic clock in ticks.  The wall-clock  *)
(* stamps, node_kind and latest_sensor_values never influence control and   *)
(* are left out; the transition log is the sequence of changes of health.   *)
(***************************************************************************)
EXTENDS Integers, FiniteSets

CONSTANTS
    Node,          \* node ids
    SuspectAfter,  \* expected_interval * suspect_after_intervals, in ticks
    OfflineAfter   \* expected_interval * offline_after_intervals, in ticks

\* The constructor refuses every other choice of thresholds.
ASSUME ThresholdAssumption ==
    /\ SuspectAfter \in Nat \ {0}
    /\ OfflineAfter \in Nat
    /\ OfflineAfter > SuspectAfter

VARIABLES
    registry,  \* node id -> its NodeRecord; Unseen for an id never observed
    heard      \* history: the first sequence number and all those observed

HealthStatus == {"ONLINE", "SUSPECT", "OFFLINE"}

NodeRecord ==
    [messagesReceived  : Nat,
     health            : HealthStatus \cup {"UNKNOWN"},
     lastSeen          : Nat,
     lastSequence      : Nat,
     estimatedMissing  : Nat,
     duplicates        : Nat,
     outOfOrder        : Nat,
     sequenceResets    : Nat,
     activeConnections : Nat,
     connected         : BOOLEAN]

\* `self.nodes.get(node_id)` is None.
Unseen ==
    [messagesReceived  |-> 0,
     health            |-> "UNKNOWN",
     lastSeen          |-> 0,
     lastSequence      |-> 0,
     estimatedMissing  |-> 0,
     duplicates        |-> 0,
     outOfOrder        |-> 0,
     sequenceResets    |-> 0,
     activeConnections |-> 0,
     connected         |-> FALSE]

Known(r) == r.messagesReceived > 0

RegistryInit ==
    /\ registry = [n \in Node |-> Unseen]
    /\ heard = [n \in Node |-> [first |-> 0, seen |-> {}]]

-----------------------------------------------------------------------------
(* Sequence numbers                                                         *)

\* The mutant looks for the restart before it looks for the repetition.
SequenceStatusResetFirst(r, seq) ==
    CASE ~Known(r)                                     -> "FIRST"
      [] Known(r) /\ seq = 0                           -> "RESET"
      [] Known(r) /\ seq = r.lastSequence /\ seq # 0   -> "DUPLICATE"
      [] Known(r) /\ seq = r.lastSequence + 1          -> "IN_ORDER"
      [] Known(r) /\ seq > r.lastSequence + 1          -> "GAP"
      [] Known(r) /\ seq < r.lastSequence /\ seq # 0   -> "OUT_OF_ORDER"

\* What observe returns: FIRST for a new node, else _classify_sequence.
SequenceStatus(r, seq) ==
    CASE ~Known(r)                                     -> "FIRST"
      [] Known(r) /\ seq = r.lastSequence              -> "DUPLICATE"
      [] Known(r) /\ seq = r.lastSequence + 1          -> "IN_ORDER"
      [] Known(r) /\ seq > r.lastSequence + 1          -> "GAP"
      [] Known(r) /\ seq < r.lastSequence /\ seq = 0   -> "RESET"
      [] Known(r) /\ seq < r.lastSequence /\ seq # 0   -> "OUT_OF_ORDER"

\* The mutant counts the number that arrived as well.
MissingInclusive(r, seq) == seq - r.lastSequence

\* The numbers a gap skips.
Missing(r, seq) == seq - r.lastSequence - 1

Count(condition) == IF condition THEN 1 ELSE 0

\* The mutant lets a late message move last_sequence back.
ClassifyLateMovesBack(r, seq) ==
    LET status == SequenceStatus(r, seq) IN
    [r EXCEPT
        !.lastSequence     = IF status = "DUPLICATE" THEN @ ELSE seq,
        !.estimatedMissing = IF status = "GAP" THEN @ + Missing(r, seq) ELSE @,
        !.duplicates       = @ + Count(status = "DUPLICATE"),
        !.outOfOrder       = @ + Count(status = "OUT_OF_ORDER"),
        !.sequenceResets   = @ + Count(status = "RESET")]

\* The mutant counts a restart but does not follow it.
ClassifyResetNotFollowed(r, seq) ==
    LET status == SequenceStatus(r, seq) IN
    [r EXCEPT
        !.lastSequence     = IF status \in {"DUPLICATE", "OUT_OF_ORDER", "RESET"}
                             THEN @ ELSE seq,
        !.estimatedMissing = IF status = "GAP" THEN @ + Missing(r, seq) ELSE @,
        !.duplicates       = @ + Count(status = "DUPLICATE"),
        !.outOfOrder       = @ + Count(status = "OUT_OF_ORDER"),
        !.sequenceResets   = @ + Count(status = "RESET")]

ClassifySequence(r, seq) ==
    LET status == SequenceStatus(r, seq) IN
    [r EXCEPT
        !.lastSequence     = IF status \in {"DUPLICATE", "OUT_OF_ORDER"}
                             THEN @ ELSE seq,
        !.estimatedMissing = IF status = "GAP" THEN @ + Missing(r, seq) ELSE @,
        !.duplicates       = @ + Count(status = "DUPLICATE"),
        !.outOfOrder       = @ + Count(status = "OUT_OF_ORDER"),
        !.sequenceResets   = @ + Count(status = "RESET")]

\* The mutant leaves the recovery to the next refresh_health.
ObserveNoRecovery(r, seq, now) ==
    [ClassifySequence(r, seq) EXCEPT
        !.messagesReceived = @ + 1,
        !.lastSeen = now,
        !.health = IF Known(r) THEN @ ELSE "ONLINE"]

\* observe: classify, count, stamp, and come back ONLINE from any state.  The
\* record created for a FIRST message has all counters at zero.
Observe(r, seq, now) ==
    [ClassifySequence(r, seq) EXCEPT
        !.messagesReceived = @ + 1,
        !.lastSeen = now,
        !.health = "ONLINE"]

\* History only: what the counters are compared with.
Hear(h, r, seq) ==
    [first |-> IF Known(r) THEN h.first ELSE seq,
     seen  |-> h.seen \cup {seq}]

-----------------------------------------------------------------------------
(* Connections                                                              *)

ConnectionOpened(r) ==
    [r EXCEPT !.activeConnections = @ + 1, !.connected = TRUE]

\* The mutant forgets that another connection may still carry the node.
ConnectionClosedIsFinal(r) ==
    [r EXCEPT !.activeConnections = IF @ > 0 THEN @ - 1 ELSE 0,
              !.connected = FALSE]

\* Decrements to at least zero; the node stays connected while another
\* connection still carries it.
ConnectionClosed(r) ==
    LET n == IF r.activeConnections > 0 THEN r.activeConnections - 1 ELSE 0 IN
    [r EXCEPT !.activeConnections = n, !.connected = (n > 0)]

-----------------------------------------------------------------------------
(* Health                                                                   *)

Target(elapsed) ==
    CASE elapsed >= OfflineAfter                             -> "OFFLINE"
      [] elapsed < OfflineAfter /\ elapsed >= SuspectAfter   -> "SUSPECT"
      [] elapsed < SuspectAfter                              -> "ONLINE"

\* The mutant leaves a SUSPECT node alone.
RefreshSuspectSticks(r, now) ==
    IF Known(r) /\ r.health # "SUSPECT"
    THEN [r EXCEPT !.health = Target(now - r.lastSeen)]
    ELSE r

\* refresh_health for one node of the table.
Refresh(r, now) ==
    IF Known(r) THEN [r EXCEPT !.health = Target(now - r.lastSeen)] ELSE r
=============================================================================

----------------------------- MODULE VirtualNode -----------------------------
(***************************************************************************)
(* virtual_nodes/node.py under virtual_nodes/simulator.py: the task of one  *)
(* virtual node (virtual-000, the one failures are injected into), and the  *)
(* simulator's run(): warm-up, measurement, failure sequence, stop, stats.  *)
(*                                                                         *)
(* The node uses a sequence number when it makes a reading, not when it has *)
(* written it.  Sleeps are of any length, except that failure_at lies       *)
(* before the end of the measurement.  Other nodes share nothing with this  *)
(* one and are left out.                                                    *)
(***************************************************************************)
EXTENDS SensorUplink

CONSTANT MaxSamples  \* bound on the readings of the node, over its incarnations

ASSUME VirtualAssumption == MaxSamples \in Nat \ {0}

VARIABLES
    npc,       \* where the node's task is suspended; "off" without a simulator
    counts,    \* the counters of the running incarnation
    past,      \* the sums over the earlier incarnations
    sim,       \* the phase of the simulator
    sequence,  \* where _failure_sequence is
    baseline,  \* totals at the start of the measurement
    row        \* the row of node_stats.csv

vnode == <<npc, counts, past, sim, sequence, baseline, row>>

NoCounts == [samples |-> 0, attempts |-> 0, sent |-> 0, drops |-> 0]

Counters == DOMAIN NoCounts

VirtualInit ==
    /\ npc \in {"off", "connecting"}
    /\ counts = NoCounts
    /\ past = NoCounts
    /\ sim = "warmup"
    /\ sequence = "none"
    /\ baseline = NoCounts
    /\ row = NoCounts

\* Within the bounds.
MoreSamples ==
    Sequence < MaxSequence /\ past.samples + counts.samples < MaxSamples

-----------------------------------------------------------------------------
(* The node's task                                                          *)

\* open_connection
NodeConnects ==
    /\ npc = "connecting"
    /\ Newest < MaxConnections
    /\ conns' = Open
    /\ client' = TRUE
    /\ npc' = "sampling"
    /\ UNCHANGED <<counts, past, sim, sequence, baseline, row, issued,
                   faults, gateway>>

NodeConnectFails ==
    /\ npc = "connecting"
    /\ npc' = "backoff"
    /\ UNCHANGED <<counts, past, sim, sequence, baseline, row, uplink>>

\* The sleep before the next sample, if there was one, ends.  make_reading uses
\* the next number; then the reading is dropped on purpose (drop_probability) ...
NodeDrops ==
    /\ npc = "sampling"
    /\ MoreSamples
    /\ issued' = NextSequence
    /\ counts' = [counts EXCEPT !.samples = @ + 1, !.drops = @ + 1]
    /\ npc' = "sampling"
    /\ UNCHANGED <<past, sim, sequence, baseline, row, conns, client,
                   faults, gateway>>

\* ... or attempted ...
NodeSends ==
    /\ npc = "sampling"
    /\ MoreSamples
    /\ issued' = NextSequence
    /\ counts' = [counts EXCEPT !.samples = @ + 1, !.attempts = @ + 1]
    /\ npc' = "delaying"
    /\ UNCHANGED <<past, sim, sequence, baseline, row, conns, client,
                   faults, gateway>>

\* ... and written after the artificial delay, which may be none.
NodeWrites ==
    /\ npc = "delaying"
    /\ conns' = Write([Line EXCEPT !.sequence = Sequence - 1])
    /\ npc' = "draining"
    /\ UNCHANGED <<counts, past, sim, sequence, baseline, row, client,
                   issued, faults, gateway>>

\* drain() returns; on a lost connection only while the loss is unknown.
NodeDrained ==
    /\ npc = "draining"
    /\ TRUE \in Connected
    /\ counts' = [counts EXCEPT !.sent = @ + 1]
    /\ npc' = "sampling"
    /\ UNCHANGED <<past, sim, sequence, baseline, row, uplink>>

\* The mutant puts the number back, as the firmware does.
NodeDrainFailsRetries ==
    /\ npc = "draining"
    /\ FALSE \in Connected
    /\ npc' = "backoff"
    /\ issued' = [issued EXCEPT ![Boot] = @ - 1]
    /\ UNCHANGED <<counts, past, sim, sequence, baseline, row, conns, client,
                   faults, gateway>>

\* drain() raises: the reading is not sent again.
NodeDrainFails ==
    /\ npc = "draining"
    /\ FALSE \in Connected
    /\ npc' = "backoff"
    /\ UNCHANGED <<counts, past, sim, sequence, baseline, row, uplink>>

\* The sleep ends and the writer, if there is one, is closed.  wait_closed
\* raises what the connection was lost with; anything but a ConnectionError
\* ends the task.
NodeReconnects ==
    /\ npc = "backoff"
    /\ client' = FALSE
    /\ npc' \in IF client THEN {"connecting", "ended"} ELSE {"connecting"}
    /\ UNCHANGED <<counts, past, sim, sequence, baseline, row, conns,
                   issued, faults, gateway>>

NodeStep ==
    \/ NodeConnectFails \/ NodeDrops \/ NodeSends \/ NodeWrites
    \/ NodeDrained \/ NodeDrainFails \/ NodeReconnects

-----------------------------------------------------------------------------
(* The simulator                                                            *)

\* A cancelled task closes its writer and waits until that is done: what was
\* written before still arrives, unless the connection breaks.
Cancelled ==
    /\ npc' = IF npc = "ended" THEN npc ELSE "closing"
    /\ client' = FALSE
    /\ UNCHANGED <<conns, issued, faults, gateway>>

NodeEnds ==
    /\ npc = "closing"
    /\ npc' = "ended"
    /\ UNCHANGED <<counts, past, sim, sequence, baseline, row, uplink>>

\* The mutant takes the totals of the running incarnation only.
TotalsOfLast == counts

\* _totals: the sums over all incarnations.
Totals == [k \in Counters |-> past[k] + counts[k]]

\* Warm-up and guard are over; the failure sequence is started if failure_at is
\* set.
MeasurementStarts ==
    /\ npc # "off"
    /\ sim = "warmup"
    /\ sim' = "measuring"
    /\ baseline' = Totals
    /\ sequence' \in {"none", "pending"}
    /\ UNCHANGED <<npc, counts, past, row, uplink>>

\* _failure_sequence stops the node ...
FailureInjected ==
    /\ sequence = "pending"
    /\ sequence' = "stopping"
    /\ Cancelled
    /\ UNCHANGED <<counts, past, sim, baseline, row>>

\* The mutant replaces the stopped incarnation instead of adding to the list.
NodeRecoversReplaced ==
    /\ sequence = "stopping"
    /\ npc = "ended"
    /\ sim = "measuring"
    /\ Boot < MaxIncarnations
    /\ sequence' = "recovered"
    /\ counts' = NoCounts
    /\ issued' = Append(issued, 0)
    /\ npc' = "connecting"
    /\ UNCHANGED <<past, sim, baseline, row, conns, client, faults, gateway>>

\* ... waits for its task, and starts another incarnation later, if recovery_at
\* is set and the measurement has not ended before.
NodeRecovers ==
    /\ sequence = "stopping"
    /\ npc = "ended"
    /\ sim = "measuring"
    /\ Boot < MaxIncarnations
    /\ sequence' = "recovered"
    /\ past' = Totals
    /\ counts' = NoCounts
    /\ issued' = Append(issued, 0)
    /\ npc' = "connecting"
    /\ UNCHANGED <<sim, baseline, row, conns, client, faults, gateway>>

\* The measurement is over: cancel the failure sequence, then every task.  The
\* nodes may still run while the cancelled failure sequence is awaited.
MeasurementEnds ==
    /\ sim = "measuring"
    /\ sequence # "pending"
    /\ IF sequence # "none"
       THEN sim' = "ending" /\ UNCHANGED <<npc, uplink>>
       ELSE sim' = "stopping" /\ Cancelled
    /\ UNCHANGED <<counts, past, sequence, baseline, row>>

StopAll ==
    /\ sim = "ending"
    /\ sim' = "stopping"
    /\ Cancelled
    /\ UNCHANGED <<counts, past, sequence, baseline, row>>

\* All tasks have ended: node_stats.csv is the difference to the baseline.
WriteStats ==
    /\ sim = "stopping"
    /\ npc = "ended"
    /\ sim' = "done"
    /\ row' = [k \in Counters |-> Totals[k] - baseline[k]]
    /\ UNCHANGED <<npc, counts, past, sequence, baseline, uplink>>

SimulatorStep ==
    \/ NodeEnds \/ MeasurementStarts \/ FailureInjected \/ NodeRecovers
    \/ MeasurementEnds \/ StopAll \/ WriteStats

VirtualStep == NodeConnects \/ NodeStep \/ SimulatorStep

-----------------------------------------------------------------------------

VirtualTypeOK ==
    /\ npc \in {"off", "connecting", "sampling", "delaying", "draining",
                "backoff", "closing", "ended"}
    /\ sim \in {"warmup", "measuring", "ending", "stopping", "done"}
    /\ sequence \in {"none", "pending", "stopping", "recovered"}
    /\ {counts, past, baseline} \subseteq [Counters -> Nat]
    /\ row \in [Counters -> Int]

\* The counters of a node add up across incarnations, and the gateway never
\* observes a reading that no attempt was counted for, or one twice.
AttemptsCoverDelivery ==
    npc # "off" =>
       /\ Totals.samples = Totals.attempts + Totals.drops
       /\ Totals.sent <= Totals.attempts
       /\ record.messagesReceived = Cardinality(delivered)
       /\ record.messagesReceived <= Totals.attempts

\* A row of node_stats.csv is consistent although the counters are read while
\* the nodes run: the samples are the attempts and the drops of the interval,
\* and at most the one reading that was under way at its start was written
\* without an attempt inside the interval.
StatsRowBalanced ==
    sim = "done" =>
       /\ \A k \in Counters : row[k] >= 0
       /\ row.samples = row.attempts + row.drops
       /\ row.sent <= row.attempts + 1
=============================================================================

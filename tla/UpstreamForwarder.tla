-------------------------- MODULE UpstreamForwarder --------------------------
(***************************************************************************)
(* gateway/upstream.py with gateway/aggregator.py: readings are queued      *)
(* without blocking the sensor path, one worker task sends them to the      *)
(* collector, either one record per reading (RAW) or one record per time    *)
(* window (AGGREGATED), and stop() drains what it can.                      *)
(*                                                                         *)
(* Tasks interleave at awaits: the worker (wpc), the task that calls stop() *)
(* (spc) and the connection handlers that call try_submit.  The rest is the *)
(* network: a connection that may break, and be found broken later; the     *)
(* collector process, which may restart, stop reading, or fail to append to *)
(* its output.                                                              *)
(*                                                                         *)
(* There are two clocks.  The monotonic one decides everything; the wall    *)
(* clock, in whole milliseconds, is only published, and need not keep pace. *)
(*                                                                         *)
(* A reading is the number of its acceptance, 1, 2, ...; a record is its id *)
(* with the set of readings it stands for.  The retry backoff is a          *)
(* delay of any length; upstream_bytes and the emitted events are left out. *)
(***************************************************************************)
EXTENDS Integers, Sequences, FiniteSets, FiniteSetsExt

CONSTANTS
    Modes,        \* the configured forward modes: a subset of RAW, AGGREGATED
    QueueSize,    \* queue_size
    Window,       \* aggregation_window_seconds, in milliseconds
    TicksPerMs,   \* ticks of the monotonic clock in a millisecond
    Walls,        \* wall clocks: the milliseconds published at every tick
    MaxWall,      \* bound on what they publish
    MaxSkew,      \* ticks between reading the wall clock and the monotonic one
    KernelRoom,   \* records the sockets' buffers hold while nobody reads
    HighWater,    \* records the transport buffers before drain() blocks
    MaxLag,       \* ticks a reading may wait in store.submit before try_submit
    MaxReadings,  \* bound on the accepted readings
    MaxDrops,     \* bound on the readings refused because the queue is full
    MaxClock,     \* bound on the clock
    MaxOutages,   \* bound on the connections that break
    MaxFailures,  \* bound on the refused connection attempts
    MayStall      \* whether the collector may stop reading without closing

ASSUME ForwarderAssumption ==
    /\ Modes \subseteq {"RAW", "AGGREGATED"}
    /\ QueueSize \in Nat \ {0}
    /\ Window \in Nat \ {0}
    /\ TicksPerMs \in Nat \ {0}
    /\ Walls \subseteq [0 .. MaxClock -> 0 .. MaxWall]
    /\ {MaxWall, MaxSkew} \subseteq Nat
    /\ {KernelRoom, HighWater, MaxLag, MaxReadings, MaxDrops, MaxClock,
        MaxOutages, MaxFailures} \subseteq Nat
    /\ MayStall \in BOOLEAN

VARIABLES
    mode,        \* ForwardMode
    clock,       \* time.monotonic_ns
    wall,        \* time.time_ns // 1_000_000 at every tick of the clock
    readings,    \* accepted readings: received_monotonic_ns, received_at_ms and
                 \* whether a DUPLICATE
    queue,       \* asyncio.Queue of readings and _STOP
    window,      \* readings in the aggregator's accumulator; {} when None
    inflight,    \* the record _send_record is sending
    last,        \* the worker returns after that record
    wpc,         \* where the worker is suspended
    spc,         \* where stop() is suspended
    cancelled,   \* stop() ran into its timeout
    stats,       \* UpstreamStats
    available,   \* _collector_available
    conn,        \* the connection behind self._writer
    channel,     \* records written to it that the collector has not read
    received,    \* records the collector has written to its output, in order
    counted,     \* messages_received of the collector process
    restarted,   \* the output holds records of an earlier collector process
    up,          \* the collector listens
    stalled,     \* the collector does not read
    outages,     \* connections broken so far, for the bound
    confirmed,   \* history: the records counted as upstream_messages
    sent,        \* history: the readings in them
    abandoned    \* history: readings stop() counted as abandoned

input == <<mode, clock, wall, readings>>
worker == <<queue, window, inflight, last, wpc>>
stopper == <<spc, cancelled>>
report == <<stats, available>>
link == <<conn, channel, received>>
output == <<counted, restarted>>
collector == <<up, stalled, outages, output>>
network == <<link, collector>>
history == <<confirmed, sent, abandoned>>
vars == <<input, worker, stopper, report, network, history>>

STOP == 0

\* Readings 1 .. Len(readings) were accepted, in this order.
Enqueued == 1 .. Len(readings)
ExcludedReadings == {i \in Enqueued : readings[i].duplicate}
Queued == {queue[k] : k \in DOMAIN queue} \ {STOP}

\* at is gateway_received_at_ms of a raw record, window_start_ms of an aggregate.
NoRecord == [id |-> <<"none", 0, 0>>, at |-> 0, readings |-> {},
             partial |-> FALSE, forwardedAt |-> 0]

\* "wait" is queue.get() with nothing to get, "get" the top of the loop;
\* "send" is _connection(), "drain" is writer.drain(), "backoff" the sleep.
WorkerStates == {"get", "wait", "send", "drain", "backoff", "done", "died"}
Sending == {"send", "drain", "backoff"}

\* "putting" is the put of _STOP on a full queue, "joining" the wait for the
\* worker, "closing" the final _close_connection.
StopStates == {"idle", "putting", "joining", "closing", "stopped", "raised"}

\* "dead": broken, not noticed yet.  "lost": broken with a ConnectionError.
\* "unreachable": broken with another OSError (no route to host, timed out).
\* "closed": closed by stop() after the transport's buffer was flushed.
ConnStates == {"none", "open", "dead", "lost", "unreachable", "closed"}

Init ==
    /\ mode \in Modes
    /\ clock = 0
    /\ wall \in Walls
    /\ readings = << >>
    /\ queue = << >>
    /\ window = {}
    /\ inflight = NoRecord
    /\ last = FALSE
    /\ wpc = "get"
    /\ spc = "idle"
    /\ cancelled = FALSE
    /\ stats = [upstreamMessages |-> 0, connectionAttempts |-> 0,
                connectionFailures |-> 0, sendFailures |-> 0,
                recordsAbandoned |-> 0, queueFullDrops |-> 0]
    /\ available = "unknown"
    /\ conn = "none"
    /\ channel = << >>
    /\ received = << >>
    /\ up \in BOOLEAN
    /\ stalled = FALSE
    /\ outages = 0
    /\ counted = 0
    /\ restarted = FALSE
    /\ confirmed = {}
    /\ sent = {}
    /\ abandoned = {}

-----------------------------------------------------------------------------
(* try_submit                                                               *)

\* The mutant puts the newest reading first.
EnqueueFirst(i) == << i >> \o queue

\* queue.put_nowait
Enqueue(i) == Append(queue, i)

\* The receive times a reading submitted now may carry.  The callback awaits
\* the store first, and a full store may let a later reading overtake, so the
\* queue is not in the order of receive times.
ReceiveTimes == {t \in 0 .. clock : clock - t <= MaxLag}

\* What the wall clock may have said just before the monotonic clock said mono.
PublishedTimes(mono) ==
    {wall[s] : s \in {t \in 0 .. mono : mono - t <= MaxSkew}}

\* Whether the registry called it a DUPLICATE; only the aggregator looks.
Classified == {d \in BOOLEAN : d => mode = "AGGREGATED"}

\* A reading is accepted while there is room ...
TrySubmitAccepts(duplicate, mono, at) ==
    /\ spc = "idle"
    /\ Len(readings) < MaxReadings
    /\ Len(queue) < QueueSize
    /\ readings' = Append(readings,
                          [mono |-> mono, at |-> at, duplicate |-> duplicate])
    /\ queue' = Enqueue(Len(readings) + 1)
    /\ UNCHANGED <<mode, clock, wall, window, inflight, last, wpc, stopper, report,
                   network, history>>

\* ... and refused and counted, without waiting, when there is none.
TrySubmitDrops ==
    /\ spc = "idle"
    /\ Len(queue) = QueueSize
    /\ stats.queueFullDrops < MaxDrops
    /\ stats' = [stats EXCEPT !.queueFullDrops = @ + 1]
    /\ UNCHANGED <<input, worker, stopper, available, network, history>>

-----------------------------------------------------------------------------
(* The window aggregator                                                    *)

\* window_ns
WindowTicks == Window * TicksPerMs

\* A window is anchored at the receive time of its first reading: published
\* from its wall time, closed by its monotonic one.
Start == readings[Min(window)].at
PlannedEnd == Start + Window
Deadline == readings[Min(window)].mono + WindowTicks

\* _summarize and aggregate_record: the record_id is built from the window's
\* published bounds.
Summary(partial, end) ==
    [id |-> <<"aggregate", Start, end>>, at |-> Start, readings |-> window,
     partial |-> partial, forwardedAt |-> wall[clock]]

\* The mutant lets the reading at the deadline still enter the window.
CrossesBoundaryLate(i) == window # {} /\ readings[i].mono > Deadline

CrossesBoundary(i) == window # {} /\ readings[i].mono >= Deadline

-----------------------------------------------------------------------------
(* The worker: _run_raw and _run_aggregated                                 *)

\* A deadline that has passed at the top of the loop gives wait_for a timeout
\* of zero, which never takes an item, even if one is queued.
MayTake ==
    /\ queue # << >>
    /\ \/ wpc = "wait"
       \/ wpc = "get" /\ (window # {} => clock < Deadline)

\* queue.get() suspends.
WorkerWaits ==
    /\ wpc = "get"
    /\ queue = << >>
    /\ window # {} => clock < Deadline
    /\ wpc' = "wait"
    /\ UNCHANGED <<input, queue, window, inflight, last, stopper, report,
                   network, history>>

RawRecord(i) ==
    [id |-> <<"raw", i, readings[i].mono>>, at |-> readings[i].at,
     readings |-> {i}, partial |-> FALSE, forwardedAt |-> wall[clock]]

\* RAW: one record per reading.
TakeRaw ==
    /\ mode = "RAW"
    /\ MayTake
    /\ Head(queue) # STOP
    /\ queue' = Tail(queue)
    /\ inflight' = RawRecord(Head(queue))
    /\ wpc' = "send"
    /\ UNCHANGED <<input, window, last, stopper, report, network, history>>

\* AGGREGATED: add() ignores duplicates, and returns the completed window when
\* the reading lies beyond its deadline.
TakeReading ==
    /\ mode = "AGGREGATED"
    /\ MayTake
    /\ Head(queue) # STOP
    /\ queue' = Tail(queue)
    /\ LET i == Head(queue) IN
       \/ /\ readings[i].duplicate
          /\ wpc' = "get"
          /\ UNCHANGED <<window, inflight>>
       \/ /\ ~readings[i].duplicate
          /\ ~CrossesBoundary(i)
          /\ window' = window \cup {i}
          /\ wpc' = "get"
          /\ UNCHANGED inflight
       \/ /\ ~readings[i].duplicate
          /\ CrossesBoundary(i)
          /\ inflight' = Summary(FALSE, PlannedEnd)
          /\ window' = {i}
          /\ wpc' = "send"
    /\ UNCHANGED <<input, last, stopper, report, network, history>>

\* The wait timed out at the window's deadline: flush the full window.
WindowTimeout ==
    /\ wpc \in {"get", "wait"}
    /\ window # {}
    /\ clock >= Deadline
    /\ inflight' = Summary(FALSE, PlannedEnd)
    /\ window' = {}
    /\ wpc' = "send"
    /\ UNCHANGED <<input, queue, last, stopper, report, network, history>>

\* The mutant never finds data when it flushes at the end.
HasDataNever == FALSE

HasData == window # {}

\* _STOP: flush the open window as a partial one, then return.
TakeStop ==
    /\ MayTake
    /\ Head(queue) = STOP
    /\ queue' = Tail(queue)
    /\ \/ /\ ~HasData
          /\ wpc' = "done"
          /\ UNCHANGED <<window, inflight, last>>
       \/ /\ HasData
          /\ inflight' = Summary(TRUE, wall[clock])
          /\ window' = {}
          /\ last' = TRUE
          /\ wpc' = "send"
    /\ UNCHANGED <<input, stopper, report, network, history>>

-----------------------------------------------------------------------------
(* _send_record, _connection and _close_connection                          *)

\* The mutant encodes the record anew for every attempt.
WrittenReencoded == [inflight EXCEPT !.forwardedAt = wall[clock]]

\* The record was encoded once, before the first attempt.
Written == inflight

\* The writer is usable as far as anyone knows.  What is written to a broken
\* connection goes nowhere.
WriteReused ==
    /\ wpc = "send"
    /\ conn \in {"open", "dead"}
    /\ channel' = IF conn = "open" THEN Append(channel, Written) ELSE channel
    /\ wpc' = "drain"
    /\ UNCHANGED <<input, queue, window, inflight, last, stopper, report, conn,
                   received, collector, history>>

\* The mutant forgets to note that the collector is back.
ReconnectForgetsAvailable ==
    IF available = "unknown" THEN "up" ELSE available

\* _collector_available after a successful connection attempt.
AvailableOnConnect == "up"

\* There is no writer, or it is closing: connect and write.
ConnectAndWrite ==
    /\ wpc = "send"
    /\ conn \notin {"open", "dead"}
    /\ up
    /\ conn' = "open"
    /\ channel' = << Written >>
    /\ available' = AvailableOnConnect
    /\ stats' = [stats EXCEPT !.connectionAttempts = @ + 1]
    /\ wpc' = "drain"
    /\ UNCHANGED <<input, queue, window, inflight, last, stopper, received,
                   collector, history>>

\* The first mutant ends the worker after a failure, the second goes on with
\* the next record.
AfterFailureReturns == "done"
AfterFailureGivesUp == "get"

\* Closing the writer after a failure re-raises the error the connection was
\* lost with; only a ConnectionError is suppressed, so any other OSError ends
\* the worker with the record in its hands.
AfterFailure == IF conn = "unreachable" THEN "died" ELSE "backoff"

\* The connection attempt is refused: note it once, close, back off.
ConnectFails ==
    /\ wpc = "send"
    /\ conn \notin {"open", "dead"}
    /\ ~up
    /\ stats.connectionFailures < MaxFailures
    /\ stats' = [stats EXCEPT !.connectionAttempts = @ + 1,
                              !.connectionFailures = @ + 1,
                              !.sendFailures = @ + 1]
    /\ available' = "down"
    /\ conn' = "none"
    /\ wpc' = AfterFailure
    /\ UNCHANGED <<input, queue, window, inflight, last, stopper, channel,
                   received, collector, history>>

\* drain() has nothing to wait for: below the high-water mark, or broken
\* without notice.
BelowHighWater ==
    \/ conn = "open" /\ Len(channel) <= KernelRoom + HighWater
    \/ conn = "dead"

Broken == conn \in {"lost", "unreachable"}

Drained ==
    /\ wpc = "drain"
    /\ BelowHighWater
    /\ stats' = [stats EXCEPT !.upstreamMessages = @ + 1]
    /\ confirmed' = confirmed \cup {inflight}
    /\ sent' = sent \cup inflight.readings
    /\ inflight' = NoRecord
    /\ wpc' = IF last THEN "done" ELSE "get"
    /\ UNCHANGED <<input, queue, window, last, stopper, available, network,
                   abandoned>>

\* drain() raises: close and back off, to send the same record again.
DrainFails ==
    /\ wpc = "drain"
    /\ Broken
    /\ stats' = [stats EXCEPT !.sendFailures = @ + 1]
    /\ conn' = "none"
    /\ wpc' = AfterFailure
    /\ UNCHANGED <<input, queue, window, inflight, last, stopper, available,
                   channel, received, collector, history>>

\* The sleep between two attempts ends.
BackoffEnds ==
    /\ wpc = "backoff"
    /\ wpc' = "send"
    /\ UNCHANGED <<input, queue, window, inflight, last, stopper, report,
                   network, history>>

-----------------------------------------------------------------------------
(* stop()                                                                   *)

\* The mutant ignores the size of the queue.
RoomForStopAlways == TRUE

RoomForStop == Len(queue) < QueueSize

\* self._worker is None from here on: no reading is accepted any more.
StopBegins ==
    /\ spc = "idle"
    /\ IF RoomForStop
       THEN queue' = Enqueue(STOP) /\ spc' = "joining"
       ELSE UNCHANGED queue /\ spc' = "putting"
    /\ UNCHANGED <<input, window, inflight, last, wpc, cancelled, report,
                   network, history>>

StopPuts ==
    /\ spc = "putting"
    /\ RoomForStop
    /\ queue' = Enqueue(STOP)
    /\ spc' = "joining"
    /\ UNCHANGED <<input, window, inflight, last, wpc, cancelled, report,
                   network, history>>

\* The worker returned, or had died: then awaiting it raises its error.
StopJoins ==
    /\ spc = "joining"
    /\ wpc \in {"done", "died"}
    /\ spc' = IF wpc = "done" THEN "closing" ELSE "raised"
    /\ UNCHANGED <<input, worker, cancelled, report, network, history>>

\* The mutant does not count the record that was being sent.
AbandonedQueueOnly == Cardinality(Queued)

\* The cancelled worker counts the record it is sending, stop() what is queued.
Abandoned == Cardinality(Queued) + 1

\* shutdown_timeout passed: cancel the worker and drain the queue.  The
\* timeout is long enough for a worker that is not held up by the network, so
\* it finds the worker in _send_record, which counts its record.  The readings
\* of the aggregator's open window are not looked at.
StopTimesOut ==
    /\ spc \in {"putting", "joining"}
    /\ wpc \in Sending
    /\ stats' = [stats EXCEPT !.recordsAbandoned = @ + Abandoned]
    /\ abandoned' = Queued \cup inflight.readings
    /\ queue' = << >>
    /\ window' = {}
    /\ inflight' = NoRecord
    /\ wpc' = "done"
    /\ spc' = "closing"
    /\ cancelled' = TRUE
    /\ UNCHANGED <<input, last, available, network, confirmed, sent>>

\* The mutant puts _STOP without a timeout.
StopWaitsForRoom == spc = "putting" /\ wpc = "died" /\ UNCHANGED vars

\* The put of _STOP times out after the worker has died: awaiting it raises.
StopFindsDead ==
    /\ spc = "putting"
    /\ wpc = "died"
    /\ spc' = "raised"
    /\ UNCHANGED <<input, worker, cancelled, report, network, history>>

\* The mutant aborts the transport, which drops what was not read yet.
UnreadAborted == << >>

\* close() lets the peer read what was written.
UnreadAfterClose == channel

\* The final _close_connection: wait_closed returns once the transport has
\* handed its buffer to the socket, and raises if the connection was lost with
\* something other than a ConnectionError.
StopCloses ==
    /\ spc = "closing"
    /\ conn = "open" => Len(channel) <= KernelRoom
    /\ spc' = IF conn = "unreachable" THEN "raised" ELSE "stopped"
    /\ conn' = IF conn = "open" THEN "closed" ELSE "none"
    /\ channel' = UnreadAfterClose
    /\ UNCHANGED <<input, worker, cancelled, report, received, collector,
                   history>>

-----------------------------------------------------------------------------
(* The collector and the network                                            *)

CollectorHasLine ==
    /\ up
    /\ ~stalled
    /\ conn \in {"open", "closed"}
    /\ channel # << >>

\* The collector reads the next line, counts it and appends it to its output.
CollectorReads ==
    /\ CollectorHasLine
    /\ counted' = counted + 1
    /\ received' = Append(received, Head(channel))
    /\ channel' = Tail(channel)
    /\ UNCHANGED <<input, worker, stopper, report, conn, up, stalled, outages,
                   restarted, history>>

\* It counts the line and the append raises an OSError: the handler closes the
\* connection without a word, and the process goes on.
CollectorAppendFails ==
    /\ CollectorHasLine
    /\ outages < MaxOutages
    /\ outages' = outages + 1
    /\ counted' = counted + 1
    /\ conn' = IF conn = "open" THEN "dead" ELSE "none"
    /\ channel' = << >>
    /\ UNCHANGED <<input, worker, stopper, report, received, up, stalled,
                   restarted, history>>

\* The connection breaks, alone or because the collector went away; whatever
\* the collector has not read of it is lost.
ConnectionBreaks ==
    /\ conn \in {"open", "closed"}
    /\ outages < MaxOutages
    /\ outages' = outages + 1
    /\ conn' = IF conn = "open" THEN "dead" ELSE "none"
    /\ channel' = << >>
    /\ up' \in BOOLEAN
    /\ stalled' = FALSE
    /\ UNCHANGED <<input, worker, stopper, report, received, output, history>>

\* The gateway's socket reports the broken connection.
BreakNoticed ==
    /\ conn = "dead"
    /\ conn' \in {"lost", "unreachable"}
    /\ UNCHANGED <<input, worker, stopper, report, channel, received,
                   collector, history>>

\* The collector is started, or started again, with its counters at zero.
CollectorStarts ==
    /\ ~up
    /\ up' = TRUE
    /\ counted' = 0
    /\ restarted' = (received # << >>)
    /\ UNCHANGED <<input, worker, stopper, report, link, stalled, outages,
                   history>>

\* The collector stops reading a connection without closing, and goes on later.
CollectorStalls ==
    /\ MayStall
    /\ conn \in {"open", "closed"}
    /\ ~stalled
    /\ stalled' = TRUE
    /\ UNCHANGED <<input, worker, stopper, report, link, up, outages, output,
                   history>>

CollectorResumes ==
    /\ stalled
    /\ stalled' = FALSE
    /\ UNCHANGED <<input, worker, stopper, report, link, up, outages, output,
                   history>>

\* The worker's next step is its own: nothing it waits for is missing.
Runnable ==
    \/ wpc = "get"
    \/ wpc = "wait" /\ (queue # << >> \/ (window # {} /\ clock >= Deadline))
    \/ wpc = "drain" /\ (BelowHighWater \/ Broken)

\* A tick is far longer than the event loop needs to run a ready task.
Tick ==
    /\ ~Runnable
    /\ clock < MaxClock
    /\ spc \notin {"stopped", "raised"}
    /\ clock' = clock + 1
    /\ UNCHANGED <<mode, wall, readings, worker, stopper, report, network, history>>

Terminated == spc \in {"stopped", "raised"} /\ UNCHANGED vars

-----------------------------------------------------------------------------

WorkerStep ==
    \/ WorkerWaits \/ TakeRaw \/ TakeReading \/ WindowTimeout \/ TakeStop
    \/ WriteReused \/ ConnectAndWrite \/ ConnectFails
    \/ Drained \/ DrainFails \/ BackoffEnds

StopStep ==
    StopPuts \/ StopJoins \/ StopTimesOut \/ StopFindsDead \/ StopCloses

Environment ==
    \/ CollectorReads \/ CollectorAppendFails \/ ConnectionBreaks \/ BreakNoticed
    \/ CollectorStarts \/ CollectorStalls \/ CollectorResumes

Next ==
    \/ \E duplicate \in Classified, mono \in ReceiveTimes :
          \E at \in PublishedTimes(mono) : TrySubmitAccepts(duplicate, mono, at)
    \/ TrySubmitDrops
    \/ WorkerStep
    \/ StopBegins
    \/ StopStep
    \/ Environment
    \/ Tick
    \/ Terminated

Spec == Init /\ [][Next]_vars

\* The event loop runs the worker and stop() whenever they can go on, timers
\* included; nothing is assumed of the collector.
FairSpec == Spec /\ WF_vars(WorkerStep) /\ WF_vars(StopStep)

\* In addition a collector that comes back, does not stop reading for ever and
\* whose broken connections are noticed.
ResponsiveSpec ==
    /\ FairSpec
    /\ SF_vars(CollectorReads)
    /\ WF_vars(CollectorResumes)
    /\ WF_vars(CollectorStarts)
    /\ WF_vars(BreakNoticed)

-----------------------------------------------------------------------------
(* Properties                                                               *)

Record ==
    [id : {"none", "raw", "aggregate"} \X Nat \X Nat, at : Nat,
     readings : SUBSET Nat, partial : BOOLEAN, forwardedAt : Nat]

UpstreamStats ==
    [upstreamMessages : Nat, connectionAttempts : Nat, connectionFailures : Nat,
     sendFailures : Nat, recordsAbandoned : Nat, queueFullDrops : Nat]

\* The state stays well-typed and the queue within its size, _STOP included.
TypeOK ==
    /\ mode \in Modes
    /\ clock \in 0 .. MaxClock
    /\ wall \in Walls
    /\ readings \in Seq([mono : Nat, at : Nat, duplicate : BOOLEAN])
    /\ queue \in Seq(Nat) /\ Len(queue) <= QueueSize
    /\ window \in SUBSET Nat
    /\ inflight \in Record
    /\ last \in BOOLEAN
    /\ wpc \in WorkerStates
    /\ spc \in StopStates
    /\ cancelled \in BOOLEAN
    /\ stats \in UpstreamStats
    /\ available \in {"unknown", "up", "down"}
    /\ conn \in ConnStates
    /\ channel \in Seq(Record)
    /\ received \in Seq(Record)
    /\ up \in BOOLEAN
    /\ stalled \in BOOLEAN
    /\ outages \in Nat
    /\ counted \in Nat
    /\ restarted \in BOOLEAN
    /\ confirmed \in SUBSET Record
    /\ sent \in SUBSET Nat
    /\ abandoned \in SUBSET Nat

\* What the collector has read and will read of the current connection.
Wire == received \o channel
InWire == UNION {Wire[k].readings : k \in DOMAIN Wire}

\* RAW mode's counters add up at every moment: every accepted reading is queued,
\* being sent, counted as an upstream message, or counted as abandoned.
RawAccounting ==
    mode = "RAW" =>
       Len(readings) = Cardinality(Queued)
                       + Cardinality(inflight.readings)
                       + stats.upstreamMessages
                       + stats.recordsAbandoned

\* A reading is in one place at a time - in the queue, in the open window, in
\* the record being sent, in one sent record, or abandoned - and, as long as
\* stop() has not cancelled the worker, in no other place than these, unless it
\* is a DUPLICATE that the aggregator ignored.
ReadingsConserved ==
    LET place == <<Queued, window, inflight.readings, sent, abandoned>>
    IN  /\ \A j, k \in DOMAIN place : j # k => place[j] \cap place[k] = {}
        /\ ~cancelled =>
              Enqueued = ExcludedReadings \cup UNION {place[k] : k \in DOMAIN place}

\* A stop() that did not run into its timeout has sent everything that was
\* accepted, the partial last window included (_STOP goes through the queue
\* behind the readings).
GracefulStopSendsAll ==
    spc = "stopped" /\ ~cancelled => sent = Enqueued \ ExcludedReadings

\* The collector sees readings in the order they were accepted, through
\* failures, retries and windows: of two records on the wire either both are
\* the same record or every reading of the first is older than every reading
\* of the second.
OrderPreserved ==
    \A j, k \in DOMAIN Wire :
       j < k => \/ Wire[j].readings = Wire[k].readings
                \/ Max(Wire[j].readings) < Min(Wire[k].readings)

\* ms milliseconds on the published clock, floored at both ends, fit into this
\* many ticks.
Within(ms, ticks) == TicksPerMs * (ms - 1) < ticks

\* A wall clock that was not set back and not set forward.
Steady ==
    \A s, t \in 0 .. MaxClock :
       s <= t => wall[s] <= wall[t] /\ Within(wall[t] - wall[s], t - s)

\* Every aggregate record's bounds fit its readings, also when the worker comes
\* late to a backlog (add against flush and _aggregation_timeout).  On the
\* monotonic clock the first reading anchors the window: no other lies at or
\* beyond its deadline, or before it by more than the lag with which readings
\* are submitted.  The published bounds start at the first reading's wall time
\* and a full window spans exactly the configured one.  They bound the readings'
\* wall times too while the wall clock is not set: a partial window's end
\* strictly, a full window's end and both starts only up to the rounding to
\* milliseconds and the time between the readings of the two clocks.
WindowCoversReadings ==
    \A k \in DOMAIN Wire :
       LET r == Wire[k]
           first == readings[Min(r.readings)]
       IN r.id[1] = "aggregate" =>
          /\ r.id[2] = first.at
          /\ ~r.partial => r.id[3] = r.id[2] + Window
          /\ \A i \in r.readings :
                /\ first.mono - MaxLag <= readings[i].mono
                /\ readings[i].mono < first.mono + WindowTicks
                /\ Steady =>
                      /\ Within(r.id[2] - readings[i].at, MaxLag + MaxSkew)
                      /\ IF r.partial THEN readings[i].at <= r.id[3]
                         ELSE Within(readings[i].at - r.id[3], MaxSkew)

\* Two collector records with one record_id are the same record, so analysis
\* may drop one of them (docs: "deduplicates collector records by record_id").
RecordIdsUnique ==
    \A j, k \in DOMAIN Wire : Wire[j].id = Wire[k].id => Wire[j] = Wire[k]

\* In RAW mode they always are: a retransmission repeats the encoded record.
RetransmissionsIdentical == mode = "RAW" => RecordIdsUnique

\* While no connection breaks, every record counted as an upstream message is
\* on the wire exactly once, across windows, backpressure and stop().
ExactlyOnceWithoutOutage ==
    outages = 0 =>
       /\ sent \subseteq InWire
       /\ \A j, k \in DOMAIN Wire : j # k => Wire[j] # Wire[k]

\* While the forwarder reports the collector unavailable it has no connection
\* it believes to be usable, so no record is counted as sent.
UnavailableMeansNoConnection == available = "down" => conn \notin {"open", "dead"}

\* What the collector was sent stays delivered: a reading of a record counted
\* as an upstream message has been read by the collector or is on its way
\* (README: "Collector evidence remains at-least-once").
SentIsDelivered == sent \subseteq InWire

\* Once stop() is over, every accepted reading was sent, ignored as a duplicate
\* or counted as abandoned (README: "abandonment is counted rather than
\* silently ignored").
NothingSilentlyLost ==
    spc \in {"stopped", "raised"} =>
       Enqueued = sent \cup abandoned \cup ExcludedReadings

\* stop() ends, one way or another.
StopTerminates == spc # "idle" ~> spc \in {"stopped", "raised"}

\* In RAW mode every accepted reading is eventually sent, whatever outages come
\* first, unless the forwarder is stopped or its worker has died.
EventuallySent ==
    \A i \in 1 .. MaxReadings :
       (mode = "RAW" /\ i \in Enqueued) ~>
          (i \in sent \/ spc # "idle" \/ wpc = "died")
=============================================================================

# A TLA+ model of the hybrid edge WSN testbed

The repository is a small wireless-sensor-network testbed: sensor nodes (ESP32
firmware, or virtual nodes in one Python process) send newline-delimited JSON
over TCP to an edge gateway; the gateway validates, classifies and stores every
message, watches the nodes' health, and forwards readings to a collector, one by
one or aggregated; an experiment runner orchestrates the processes and analysis
scripts evaluate the files they leave.  This directory holds TLA+ modules for the
parts whose correctness depends on interleaving, timing and failure, the TLC
runs that check them and TLAPS proofs of the most important invariants.

Paths below are relative to the repository, which is `src/` in `PROJECT.json`.

## Inventory

| Component | State | Operations | Hard because |
|---|---|---|---|
| Node registry, `gateway/registry.py` | per node: last sequence number and receive time, counters, open connections, health | `observe`, `connection_opened/closed`, `refresh_health` | called by every connection handler and by the monitor; late, duplicate and restarted sequences |
| Gateway server, `gateway/server.py` | handler tasks, their nodes, `GatewayStats`, listener, monitor | accept, read loop, monitor round, `stop` | a node may be on several connections, a connection may carry several nodes, handlers end in eight ways, shutdown races them |
| Sensor protocol, `gateway/protocol.py` | none | `parse_message` | pure validation |
| Upstream forwarder, `gateway/upstream.py` | bounded queue, worker task, writer, in-flight record, `UpstreamStats`, availability | `try_submit`, worker loops, `_send_record`, `stop` | retries, broken connections noticed late, backpressure, shutdown with a timeout |
| Window aggregator, `gateway/aggregator.py` | the open window | `add`, `flush` | boundaries against timeouts and backlogs |
| Raw message store, `gateway/storage.py` | bounded queue, batching worker | `submit`, `stop` | backpressure on the handlers, worker failure |
| Event recorder, `gateway/events.py` | two bounded queues, batching workers | `record_*`, `stop` | lossy producers, worker failure |
| Gateway command line, `gateway/server.py` | the composition | start, `log_message`, shutdown sequence | order of the stops, and what a failing stop skips |
| Metrics sampler, `gateway/metrics.py` | a timer | sample, `stop` | I/O only |
| Collector, `collector/server.py` | handlers, `CollectorStats`, output file | accept, read loop, `stop` | shutdown with a connected forwarder; a line is counted before it is appended, and the append may fail |
| Firmware, `firmware/src/main.cpp` | Wi-Fi, TCP and sampling state, four deadlines, two backoffs, sequence number | `setup`, `loop`: sensor, Wi-Fi, TCP, sample and send | partial writes, reboot, sequence reuse, links lost between the steps of a pass |
| Virtual nodes, `virtual_nodes/` | sequence, counters, connection; incarnations, baseline | send loop, warm-up, measurement, failure and recovery, statistics | samples lost at reconnect, counters read while the nodes run |
| Experiment runner, `experiments/run.py` | child processes, run status, manifest, summary | `run_once`, `_stop_child` | stop escalation against slow shutdown, Ctrl-C, failing children, a worktree that changes |
| Final matrix, `experiments/final_matrix.py` | plan, admissions | `execute_campaign` | one bad run among many |
| Run analysis, `analysis/analyze.py` | none | interval, deduplication, admission, statistics | concludes from counts what happened to readings |
| Campaign admission, `analysis/final_campaign.py` | none | checks of headers and runs, statistics | trusts what earlier programs wrote |

Interaction.  A node's line enters a connection handler, which updates the
registry and the counters without an await in between, then awaits
`on_message`; the command line's `log_message` awaits `store.submit`
(backpressure) and calls `forwarder.try_submit` (drop when full).  The monitor
task refreshes the registry periodically.  The forwarder's worker owns the
collector connection.  Shutdown stops gateway, forwarder, store, metrics and
recorder in this order.  Everything in the gateway runs in one asyncio event
loop, so a step of its models is the code between two awaits.

The runner starts collector, gateway and simulator as processes, in this order,
waits for the simulator, stops gateway and collector with signals, and judges
them by their return codes.  The campaign repeats that for every condition,
analyzes each run's files and stops at the first run that is not admitted.

What makes each part correct: the registry's counts agree with the open
connections and its estimates with what was received; silence is detected in
bounded time and never early; stopping terminates and leaves no handler behind;
the forwarder accounts for every accepted reading, keeps order, repeats records
identically, and delivers when the collector is there; a sequence number tells
the truth about the node that sent it; a run that counts as successful is
complete, and a campaign that is reported was run by the commit it names.
`PROJECT.json` lists the hazards line by line, with the properties that cover
them.

## Modules

| Module | Role |
|---|---|
| `NodeRegistry` | the registry's methods as operators on a node's record, with a history of what was heard |
| `GatewayServer` | EXTENDS `NodeRegistry`: handlers, monitor, clock, `stop` |
| `UpstreamForwarder` | queue, worker, aggregator, connection, `stop`, with the collector and the network as environment |
| `BatchWriter` | the evidence files: bounded queue, batching worker, stop marker, shared by `RawMessageStore` and `AsyncCsvWriter` |
| `EvidenceLog` | abstract: what an evidence file promises |
| `GatewayPipeline` | EXTENDS `BatchWriter`: the command line's start, `log_message`, shutdown; its store implements `EvidenceLog` |
| `SensorUplink` | one node's TCP connections, the gateway's handlers reading them, and an instance of `NodeRegistry` judging the numbers |
| `FirmwareNode` | EXTENDS `SensorUplink`: the ESP32's `setup` and `loop` |
| `VirtualNode` | EXTENDS `SensorUplink`: a virtual node and the simulator around it |
| `SensorNodes` | composes the two: the node is one or the other |
| `RunAnalysis` | EXTENDS `UpstreamForwarder`: what the analysis makes of the files it leaves |
| `ExperimentRun` | `run_once` with its three processes, signals, waits, files and the worktree |
| `FinalCampaign` | EXTENDS `ExperimentRun`: the campaign, its admissions and its acceptance |
| `MCGateway`, `MCForwarder`, `MCPipeline`, `MCUplink`, `MCExperiment` | instances for TLC; the bounds are in the `.cfg` files |
| `GatewayServerProofs` | type correctness, connection accounting, quiescence |
| `GatewayHealthProofs` | the timing properties of the liveness monitor |
| `GatewaySequenceProofs` | the estimate of missing messages |
| `CampaignProofs` | complete runs, complete cleanup, sound campaigns |
| `ForwarderProofs` | the forwarder's accounting, conservation, order, windows, record identifiers |
| `AnalysisProofs` | the analysis counts once; what parity of the counters means |
| `PipelineProofs` | complete files, order of starts and stops, the store implements `EvidenceLog` |
| `UplinkProofs` | what resets, gaps, duplicates and out-of-order numbers mean; the simulator's counters |

### GatewayServer and NodeRegistry

`registry[n]` is the node's `NodeRecord`; an id that was never observed is the
record `Unseen`.  `handler[c]` says where the task of connection `c` is
suspended: in `readline` ("reading") or in `on_message` ("callback").
`inbox[c]` holds the complete lines of its `StreamReader`, `ended[c]` how its
byte stream ended.  `phase` is the progress of `stop()`.  One action is one
resumption of a task: `ReadMessage` is everything from the line to the call of
`on_message`, including `observe` and `connection_opened`; `Leave` is the
finally clause of `_accept_client`, with which every exit of the read loop ends
(`ReadOverlong`, `ReadEnd`, `IdleTimeout`, `CallbackRaises`).  A line is a valid
message (a node and a sequence number; readings and heartbeats are treated
alike by the registry) or one of the kinds the server rejects.

Time is in ticks.  `MonitorLiveness` is enabled once its sleep has ended, and
the clock cannot run more than `Jitter` ticks past that moment: the delay with
which the event loop wakes the monitor is a parameter, not assumed away.

A connection is accepted in one step.  In asyncio acceptance takes several
rounds of the event loop, but one that straddles `server.close()` is either
registered before `stop()` resumes from awaiting the cancelled monitor, or
refused when its transport is attached to the closed server.

The gateway never writes to a client, so `writer.wait_closed()` in the finally
clause has nothing to flush; it is not a step of its own.

### UpstreamForwarder

A reading is the number of its acceptance by `try_submit`; a record is its
`record_id` with the set of readings it stands for, so "lost", "duplicated" and
"reordered" can be said.  `wpc` says where the worker is suspended and `spc`
where `stop()` is.

There are two clocks.  `clock` is `time.monotonic_ns`, in ticks of which
`TicksPerMs` make a millisecond; `wall[t]` is the whole millisecond that
`time.time_ns() // 1_000_000` gives at tick t, and may be any function: nothing
makes it keep pace.  A reading carries both (`readings[i].mono` and
`readings[i].at`).  They are up to `MaxLag` ticks older than the submission,
because `log_message` waits for the store first and a full store may let a later
reading overtake; and up to `MaxSkew` ticks apart, because the server reads one
clock after the other.  The aggregator decides on `mono` alone (`Deadline`) and
publishes `at` (`Start`, `PlannedEnd`, the `record_id`).  So a reading inside a
window may carry the window's published end, and if the wall clock is set it may
carry anything: `WindowCoversReadings` states membership on the monotonic clock,
and on the wall clock only up to rounding and only while it is `Steady`.  A
configured window that is no whole number of milliseconds (the code truncates one
scale to nanoseconds and rounds the other to milliseconds) is left out.

The connection distinguishes what asyncio distinguishes: broken but not noticed
("dead": writes still succeed), lost with a `ConnectionError` ("lost"), lost
with another `OSError` ("unreachable"), since `_close_connection` suppresses
only the first kind.  `channel` holds the records written and not yet read by
the collector; the first `KernelRoom` of them are in socket buffers, the rest in
the transport's buffer, whose size makes `drain()` wait (`HighWater`) and
`wait_closed()` wait (until it is flushed).  The collector counts a line before it
appends it; if the append fails, its handler closes the connection and the process
goes on (`CollectorAppendFails`).

Three facts about asyncio are built in: `wait_for` with a zero timeout never
takes an item from the queue, even if one is there (`MayTake`); `wait_closed`
re-raises the error the connection was lost with (`AfterFailure`); `close()`
flushes before it closes (`StopCloses`).  The shutdown timeout is taken to be
long enough for a worker that the network does not hold up, so it only expires
while the worker is sending (`StopTimesOut`).  The retry backoff is a delay of
any length.

### BatchWriter and GatewayPipeline

For each of the three files, `queue`, `batch` and `file` say where an accepted
item is; `accepted` is the history of what entered the queue.  `TakeBatch` is the
worker's inner loop: up to `BatchSize` items, fewer if the queue runs empty or the
stop marker is met, in which case the worker returns after this write ("last").
A failed write leaves any part of the batch in the file and ends the worker,
which nothing notices before `stop()` awaits it.

`GatewayPipeline` has every component configured.  `cli` and `stage` follow
`_run_from_cli` through `StartOrder` and `StopOrder`; `step` says whether a
writer's `stop()` still has to put its marker.  A message is its number; a
handler puts it into the store's queue and offers it to the forwarder in one
step, or waits ("submitting") while the queue is full.  A file that exists, a
port that is taken, a stop that raises and a summary that cannot be written end
the process ("failed"), upon which asyncio cancels the workers but lets a write
in progress finish.  `Killed` is the runner's last resort and loses what is in
memory.  The metrics sampler and the forwarder are reduced to running, failed
and stopped.  An event that is dropped by a full queue changes nothing in the
model: the recorder's drop counters are not in the state, so `CleanExitComplete`
speaks of the rows that were accepted, not of counters and rows adding up.

### SensorUplink, FirmwareNode, VirtualNode, SensorNodes

`conns` is the sequence of the node's connections, each with the lines that were
written and not read, and whether it still carries data.  The gateway reads each
in a task of its own, so a line of an old connection may be handled after lines
of a newer one (`overtaken` remembers that it happened).  A line is the
incarnation that sent it and its number; a broken connection keeps any prefix,
and a failed write may have put all, a part or nothing of its line on the wire.
`Connected` is what a status query may say: on a broken connection either answer,
until the node gives it up.

`FirmwareNode` takes one step for each part of `loop()`, in its order, with the
deadlines as remaining ticks; Wi-Fi and TCP change between the steps.  A
`connect()` may block for up to `ConnectTimeout` ticks, which the retry delay,
counted from the time the pass began, includes.  `SampleSent` uses up the number,
`SampleFails` keeps it.  `Reboot` restarts the counter and `setup`, where I2C and
sensor may not answer.  A configuration that `valid_runtime_config` refuses makes
the firmware do nothing and is excluded by `FirmwareAssumption`.

`VirtualNode` uses a number when the reading is made, sent or not.  The task is
suspended in `open_connection`, the sample sleep, the artificial delay, `drain`,
the reconnect sleep or `wait_closed`, and can be cancelled at each.  An `OSError`
that is no `ConnectionError` ends the task in `wait_closed`; the simulator does
not notice.  `past` are the counters of earlier incarnations, `baseline` the
totals when the measurement started, `row` the line of `node_stats.csv`.

What the numbers tell, and what they do not.  As long as no connection is
overtaken, a counted reset is a restart, the missing estimate is at most what was
lost, and a number called OUT_OF_ORDER belongs to an incarnation whose first
message never arrived.  Overtaking connections break each of these, which is why
the properties exclude it: a late 0 looks like a restart.  A DUPLICATE may be the
first copy of a reading, when a restarted node whose first message was lost
reaches the last number of its former life.

### RunAnalysis

Pure operators on the state in which `UpstreamForwarder` leaves the evidence,
checked in every reachable state.  A raw record's measurement interval is decided
by its reading's published receive time, an aggregate's by its published window.

`Admitted` is what `_scientific_admission` compares: the gateway's
`upstream_messages` with the collector's `messages_received`, a counter that is
raised before the append and is not the length of the file.  Equal counters alone
do not mean delivery.  A record counted as sent may be lost with one connection
while another is sent again after it was read; and after a failed append the
counters agree although the file is a line short.  `ParityMeansDelivery` says what
is true for any number of breaks: of the runs the gates admit, exactly those are
complete whose file has as many lines as `messages_received` says and repeats no
line - two things the analysis has at hand.  The gates on bytes and on invalid
lines are left out; they only admit less, so what is said of every admitted run
still holds.

### ExperimentRun and FinalCampaign

`rpc` and `cur` follow `run_once`, and the finally clause is the phase "cleanup";
`signalled` and `waited` are the progress of `_stop_child`.  Of a process the
model keeps its life (`proc`), its return code, and whether its summary file is
absent, half written or complete.  A process may take any time for anything, so
every timeout may expire and every signal may come at any moment of its life.
`Interrupted` is what SIGINT does: before a process has installed its handlers it
dies, afterwards it stops; SIGTERM sets the same event again, which only the
simulator, without a handler, dies of.  The simulator's first SIGINT cancels its
task.  That unwinds at an await; once it writes its files no await is left and they
become complete ("finishing"), whether or not a traceback follows.  A second SIGINT
stops it wherever it is, with the file absent, half written or complete.  `CtrlC`
reaches the whole foreground
group or only the runner.

`flow` counts readings: accepted or dropped by the gateway, unsent, sent,
abandoned; on the wire; counted by the collector and in its output (`got`).
`pending` is 1 while the first unsent record is written and its `drain()` has not
returned.  The forwarder gives up `DrainWait` after it was told to stop, and that
one record may then be collected and counted as abandoned.

The connection between the two is on one host.  It ends with either process, or
when the collector cannot append a line: the line is counted, its handler leaves,
what is unread is lost and both processes go on.  The gateway's side is then
"dead"; what is written to it goes nowhere, until the gateway notices and sends
the unconfirmed record again.  The handler's other exits (an overlong or truncated
line) and the skipping of an invalid one are left out: gateway and collector share
the record models, a record is far shorter than the limit, and a torn last line
needs a gateway that died, whose run is no success.  `SuccessIsComplete` therefore
cannot say that everything sent was collected.  It says that this is so unless
counter and output differ, which no return code shows, and
`AcceptedCampaignSound` that an accepted run misses exactly as many readings as
were counted and not appended, which no gate shows either.

No
relation between `DrainWait`, `IntWait` and `TermWait` is assumed: the defaults
are five seconds, five and one, so a gateway whose collector does not answer may
end by itself, with readings abandoned and return code 0, or be killed before it
wrote its summary.  A run can therefore be a "success" with abandoned readings;
`SuccessIsComplete` says that they are counted, and the admission refuses them.
A record carries one reading, as in RAW mode; in AGGREGATED mode a shutdown that
times out also loses the open window without counting it (finding
`forwarder_open_window`).

The collector's `stop()` waits in `wait_closed` for a handler that reads until the
gateway disconnects.  That order is a deadlock for a collector stopped alone and
the reason why `SuccessIsComplete` holds: the runner stops the gateway first, and
the collector cannot end before everything written on a connection it has not
closed itself is read.

`tree` is the worktree: the frozen commit, the same with edits, or another commit.
The runner looks at it twice, each process when it imports its modules, and the
analysis after the run.  `strayed` and `moved` are histories that
`AcceptedCampaignSound` needs to say what the checks can and cannot see: a change
made and undone while the processes start leaves no trace.

`FinalCampaign` starts the next run in a fresh directory and leaves the files of a
refused one behind.  `ValidHeaders` and `ValidRun` are the conditions of
`analyze_final_campaign` on what the model has; it compares more (identifiers,
membership, row counts).  One of these compares the rows of
`measurement_readings.csv`, DUPLICATE ones included, with the number of unique
readings, so a run with duplicates in its interval is refused; virtual nodes that
were not restarted cause none (`DuplicateExplained`).

## Runs

| Run | Specification | Shows |
|---|---|---|
| `gateway_liveness` | `Spec` | detection bound, no false alarm, SUSPECT before OFFLINE, recovery only by a message, bounds of the missing estimate |
| `gateway_connections` | `FairSpec` | types, exact connection counts, quiescence after `stop()`, `stop()` completes |
| `forwarder` | `Spec` | accounting, conservation, graceful stop, order, window bounds, identical retransmissions, exactly-once without outage, availability flag; the analysis counts deliveries once |
| `forwarder_live` | `ResponsiveSpec` | `stop()` terminates, readings are eventually sent; what equal counters say of the file |
| `pipeline` | `FairSpec` | the store implements `EvidenceLog`; a normal exit means complete files; starts and stops are in an order in which no producer outlives its sink; forwarding follows the evidence; shutdown ends unless a writer died behind a full queue |
| `uplink` | `LiveSpec` | reset, gap, duplicate and out-of-order mean what they claim; the simulator's counters and its statistics row add up; the firmware keeps reporting |
| `experiment` | `Spec` | success is complete but for failed appends, cleanup is complete, an accepted campaign is sound, `run_once` ends |
| `forwarder_open_window` | `Spec` | finding: open window dropped uncounted at a timed-out shutdown |
| `forwarder_worker_death` | `Spec` | finding: the worker dies of an `OSError` while cleaning up |
| `forwarder_record_ids` | `Spec` | finding: two aggregate records with one `record_id` |
| `forwarder_delivery` | `Spec` | finding: a record counted as sent is lost with its connection |
| `forwarder_stalled` | `FairSpec` | finding: `stop()` waits for a collector that does not read |

The first seven pass; the other five are expected to find a violation, each of a
sentence of the repository's README, quoted in `PROJECT.json`.

Every property of a passing run has a mutant in `PROJECT.json`: a definition
changed the way a plausible bug would change the code, for which TLC finds the
property violated.  The mutated forms stand beside the definitions they replace
and are used nowhere else.

### Bounds

- `gateway_liveness`: two nodes behind one connection, sequence numbers 0, 1 and
  3, three messages, eight instants with `SuspectAfter = 2`, `OfflineAfter = 4`,
  `CheckInterval = 1`, `Jitter = 1`.  Three messages reach every class of
  sequence number (first, in order, gap, duplicate, late, reset), and the clock
  runs past the latest moment at which OFFLINE must be reported.  Symmetry in
  the nodes: no property is a liveness formula and no constant names a node.
- `gateway_connections`: two connections and two nodes, three lines, every kind
  of rejected line (the plain schema violation differs from the rejected reading
  in a counter only), every kind of end.  Three lines let both connections carry
  a node and one of them a second one.  No symmetry, because a liveness property
  is checked.  The clock stands still.
- `forwarder`: three readings through a queue of two, one refused reading, three
  instants, two of which make a millisecond, with windows of one millisecond; one
  broken connection or failed append, one refused connection attempt, one unread
  record in the socket buffers and none in the transport's before `drain()` waits.
  Two of the three readings fill the queue behind one in flight; the clock crosses
  one window boundary with a window on either side.  Two wall clocks: one half a
  millisecond past a whole one, so a reading inside its window carries the published
  end, and one that is set back.  The two clocks are read in the same instant
  (`MaxSkew = 0`) and the collector does not stall; `forwarder_live` and
  `forwarder_stalled` have it stall, and the proofs cover any skew.
- `forwarder_live`: two readings, a queue of one, so the put of the stop marker has
  to wait; a collector that may stall; two breaks or failed appends, which is what a
  loss and a repetition that cancel each other need.
- `pipeline`: two connections, four messages through a store queue of two (so
  batches of two, a marker met inside a batch and two waiting handlers occur),
  one row in either event file, one failing write anywhere.
- `uplink`: a physical or a virtual node, numbers 0 to 3, two incarnations, three
  connections and one fault (a connection that breaks, Wi-Fi that is lost, a
  failing write), four samples of the virtual node over both incarnations.  With
  one restart and one broken connection three connections are in use, two of them
  holding unread lines, which is what overtaking, a missed start and a number met
  again after the restart need.  Backoff from 1 to 2, so it is doubled and
  limited; every other time of the firmware is one tick, so a blocking `connect()`
  uses up the first delay.
- `experiment`: two runs, two mishaps (failing process, failed start, failed
  append, Ctrl-C, change of the worktree) in any combination, so Ctrl-C during a cleanup, a change
  and its undoing, or a failure in the second run occur; two readings through a
  queue of one; every wait is one tick, so that the gateway's drain and the
  runner's wait for it end in either order.
- The findings need no outage or a single one and use the same or smaller bounds.

### Fairness

The event loop runs every ready task, so the handlers' and the worker's steps
and `stop()` are weakly fair (`Fairness`, `FairSpec`).  `on_message` is assumed
to return, which the store justifies as long as its worker lives.  Nothing is
assumed of the nodes, of idle timeouts, of who calls `stop()`, or, in
`FairSpec`, of the collector.  `ResponsiveSpec` adds a collector that is started
again, resumes reading and whose broken connections are noticed; reading is
strongly fair because stalls and breaks interrupt it.

`LiveSpec` of `SensorNodes` assumes that the firmware's loop runs (weak fairness)
and that what it tries again and again succeeds at some time: the sensor answers,
the station associates, the gateway accepts, a write is complete (strong fairness,
since each is only possible while its turn of the loop and its preconditions
last).  Nothing is assumed of the gateway's reading or of the virtual node.

`FinalCampaign` assumes that the runner's event loop and the clock go on, and
nothing at all of the processes: `RunEnds` must hold when they hang.  It is written
as `[]<>` of "not begun or over", because every later run begins with `idle`.

In `GatewayPipeline` one condition suffices: as long as the process itself has a
step to take, some such step is taken (`Progress`).  It includes that a disk
write ends and that the forwarder's `stop()` returns or raises, which is where
the finding `forwarder_stalled` applies; it includes neither the signal nor the
kill, so a hanging shutdown would be reported.

## Proofs

TLAPS proves for every value of the constants that satisfies the assumptions
(`ThresholdAssumption`, `ServerAssumption`, `ConnAssumption`: the constructor's
checks on thresholds and interval, natural bounds, finitely many connections;
`WaitAssumption`, `PlannedAssumption`: natural waits and bounds, at least one run;
`ForwarderAssumption`, `WriterAssumption`, `PipelineAssumption`: the constructors'
checks on queue, window, batch and buffer sizes, natural bounds; `UplinkAssumption`,
`FirmwareAssumption`, `VirtualAssumption`: natural bounds, and the firmware's intervals
positive with a first backoff not above the largest):

- `TypeCorrectness`, `ConnectionsAccounted`: `TypeOK` alone is not inductive,
  because `activeConnections - 1` in `Leave` is a natural number only if the
  counter was positive.  The inductive invariant is `TypeOK`,
  `ConnectionAccounting` and that only live handlers carry nodes: the counter is
  the cardinality of the set of live handlers, to which the leaving one belongs.
- `StopIsQuiescent`: from the invariant above, and that after `stopped` no
  handler is live.
- `SilenceDetected`, `NeverTooEarly`: the inductive invariant `HealthInv` relates
  each node's health to the last monitor round, `checkDue - CheckInterval`: a
  node silent since before that round was classified by it, and a classification
  worse than ONLINE was right when it was made and stays right until the next
  message.
- `SuspectComesFirst`, `RecoveryByMessage`: action properties, from `HealthInv`
  at the state before the step.
- `MissingEstimated`: the inductive invariant `SequenceInv` adds that, before the
  first RESET, the last sequence number is the largest that was heard.  So the
  numbers a gap skips were not heard before and the estimate grows by exactly as
  many as are newly lost, a duplicate changes nothing, and a late message removes
  at most one number from the lost ones while it is counted as out of order.

- `RunComplete`, `CleanupIsComplete`, `CampaignSound`: for all waits, queue sizes,
  numbers of runs and of mishaps.  The runner sees return codes, the properties
  speak of readings, so the invariant `IInv` has to connect them.  `ReturnCodes`
  says that 0 stands for a finished process with a complete file.  `Phases` and
  `NotStarted` say which processes can be alive in each phase of `run_once`; that
  the cleanup leaves none needs that it passes all of them, last started first.
  `FlowInv` says that as long as neither gateway nor collector died, what was
  accepted is sent, unsent or abandoned; that what is collected or on the wire was
  sent or is the one record pending or given up; that what was sent is on the wire
  or collected while the collector's counter and output agree; that they differ
  once it has closed a connection; and that a collector that is done has no open
  connection and an empty wire.  At success both return codes are 0, so the wire is
  empty and nothing is unsent.  `WorktreeInv`
  keeps the manifest equal to the worktree unless that was changed during the
  run.  `CampaignInv` carries both into the evidence of the admitted runs, which
  no later step changes.
- `ForwarderTypes`, `Conservation`, `GracefulStop`, `WireInOrder`, `WindowsCover`,
  `RawIdsUnique`, `RawCounters`, `DownMeansNoConnection`: for all queue sizes,
  windows, lags and numbers of outages.  The invariant `IInv` of `ForwarderProofs`
  follows a reading through queue, open window, record in flight and wire.
  `PlaceInv` says that each accepted reading is in exactly one of the places the
  code has for it, `OrderInv` that each place holds smaller numbers than the ones
  behind it, which is what makes concatenating them meaningful, `WireInv` that what
  is on the wire is the record being sent or older ones, `ControlInv` which of
  writer, record and marker exist at each point of the worker and of `stop()`, and
  `WindowInv` that the readings of the open window were received before its
  monotonic deadline.  `WindowsCover` carries this to the published bounds for any
  wall clock: the wall times of two readings differ by what the clock advanced
  between the moments at which they were read, which `Steady` bounds.
  `RawAccounting` is inductive together with them.
- `ExactlyOnce`: as long as no connection broke, `IntactInv` says that the wire and
  the collector hold each sent record once.
- `ParityIsDelivery`: `ConfirmedInv` says that the records counted as upstream
  messages are as many as the counter, and that each sent reading is in exactly one
  of them; `FileInv` that only they and the record being sent were ever written, and
  that one collector process counts at least what it appends.  With equal counters
  and a file as long as the counter there are as many lines as sent records, so a
  file without repetition is all of them, and a file that lacks one repeats another.
  `CountsOnce` rests on `RetransmissionsIdentical`: copies of a record are equal, so
  it does not matter which of them the analysis keeps.
- `PipelineTypes`, `SinksOutlive`, `CleanExit`, `ForwardOrder`, and
  `StoreRefinesLog`, which shows that `GatewayPipeline` implements `EvidenceLog`:
  each of its steps is an `Accept`, a `Write` or a `Close` of the log, or leaves it
  unchanged.  `WriterInv` is the reason: while a worker lives, what was accepted is
  file, batch and queue in this order, with the marker behind everything; whatever
  happens, the file is an initial part of what was accepted.  `StageInv` says which
  components run at each stage of start and shutdown, in particular that a marker is
  only put once nothing produces any more; `MessageInv` that each message is
  accepted or waits in exactly one handler.
- `UplinkTypes`, `ResetIsRestart`, `OutOfOrderIsMissedStart`, `GapsAreRealLosses`,
  `DuplicateIsExplained`, `AttemptsCover`, `StatsRow`: for all bounds on sequence
  numbers, incarnations, connections, faults and samples, for the firmware and the
  virtual node alike.  `Kinds` sorts the steps of both programs, of the network and
  of the gateway by what they do to the uplink: idle, use a number, restart, write a
  line, read a line.  The invariant `IInv` of `UplinkProofs` says that nothing was
  written that was not used up (`WrittenInv`; the number of a failed write is used
  again), that the unread lines are in the order they were sent over all connections
  (`OrderInv`), and that no number is both unread and observed unless the firmware
  had a fault (`FreshInv`).  `MarkInv` carries the argument about the registry: while
  no connection was overtaken there is a last observed number (b, s), everything left
  in the newest connections comes after it, `last_sequence` is s once the 0 of
  incarnation b was observed and at least s otherwise, there were fewer than b
  resets, and the estimate of missing messages is at most the number of used,
  unobserved numbers before (b, s).  A reset inside one incarnation would need a 0
  after the 0; a gap adds only numbers between the old mark and the new one.
  `CounterInv` bounds what was sent by attempts, in total and since the baseline, up
  to the one reading under way; `CoverInv` counts what is observed, unread or about
  to be written against the attempts.

Lemmas state once what `ClassifySequence`, `Observe`, `ConnectionOpened`,
`ConnectionClosed` and `Refresh` do to each field of a record, and what kinds of
step there are for the registry (`StepKinds`).

Only model-checked: the liveness properties (`StopCompletes`, `StopTerminates`,
`EventuallySent`, `ShutdownCompletes`, `KeepsReporting`, `RunEnds`), which are
beyond the prover.  Every other property of a passing run is also a theorem.

## Not modelled

Not modelled: the field validators of `gateway/protocol.py` and
`experiments/config.py`, the arguments of the child processes, and the sums of an
aggregate (data on which no step depends); what the metrics sampler samples; the
statistics, tables and figures of `analysis/` beyond admission, interval and
deduplication (batch computation in floating point over finished files, without
state or concurrency); `exploratory_physical.py`, which is nothing else; the
firmware's bring-up scan and disconnect diagnostics, which only print.

--------------------------- MODULE GatewayPipeline ---------------------------
(***************************************************************************)
(* gateway/server.py, _run_from_cli: the gateway process as a composition.  *)
(* It starts the event recorder, the metrics sampler, the raw message store,*)
(* the forwarder and the server; hands every message to the store and then  *)
(* to the forwarder; and on a signal stops them one after the other.        *)
(*                                                                         *)
(* The server and the forwarder are reduced to what the evidence files see  *)
(* of them; GatewayServer and UpstreamForwarder model them.  The runner may *)
(* kill the process while it stops.                                         *)
(***************************************************************************)
EXTENDS BatchWriter, SequencesExt

CONSTANTS
    Conn,          \* client connections, each used once
    MaxMessages,   \* bound on the valid messages received
    MaxEvents,     \* bound on the rows of both event files
    MaxDiskErrors  \* bound on failing writes

ASSUME PipelineAssumption ==
    /\ Writer = {"store", "gateway_events", "health_events"}
    /\ MaxMessages \in Nat
    /\ MaxEvents \in Nat
    /\ MaxDiskErrors \in Nat

VARIABLES
    cli,         \* where _run_from_cli is
    stage,       \* the component it is starting or stopping
    step,        \* a writer's stop(): "call", "put" (waits for room), "join"
    handler,     \* the client tasks
    hand,        \* the message a handler is submitting, 0 if none
    received,    \* valid messages so far; a message is its number
    forwarder,   \* "none", "running", "stopped"
    forwarded,   \* history: what try_submit accepted, in order
    metrics,     \* the sampler's task
    diskErrors   \* failed writes so far

process == <<cli, stage, step>>
clients == <<handler, hand, received>>
upstream == <<forwarder, forwarded>>
sampler == <<metrics, diskErrors>>
vars == <<writers, process, clients, upstream, sampler>>

StartOrder == <<"gateway_events", "health_events", "metrics", "store",
                "forwarder", "gateway">>

\* The mutant stops the store before the server.
StopOrderStoreFirst == <<"store", "gateway", "forwarder", "metrics",
                         "gateway_events", "health_events", "summary">>

\* The mutant stops the event recorder before the forwarder.
StopOrderRecorderEarly == <<"gateway", "gateway_events", "health_events",
                            "forwarder", "store", "metrics", "summary">>

StopOrder == <<"gateway", "forwarder", "store", "metrics",
               "gateway_events", "health_events", "summary">>

CliStates == {"starting", "serving", "stopping", "exited", "failed", "killed"}
HandlerStates == {"unused", "reading", "submitting", "closed"}
MetricsStates == {"none", "running", "done", "died"}

Starting(x) == cli = "starting" /\ StartOrder[stage] = x
Stopping(x) == cli = "stopping" /\ StopOrder[stage] = x
Ended == cli \in {"exited", "failed", "killed"}
Live(c) == handler[c] \in {"reading", "submitting"}

Init ==
    /\ WritersInit
    /\ cli = "starting"
    /\ stage = 1
    /\ step = "call"
    /\ handler = [c \in Conn |-> "unused"]
    /\ hand = [c \in Conn |-> 0]
    /\ received = 0
    /\ forwarder = "none"
    /\ forwarded = << >>
    /\ metrics = "none"
    /\ diskErrors = 0

NextStage == stage' = stage + 1 /\ step' = "call" /\ cli' = cli
Fail == cli' = "failed" /\ UNCHANGED <<stage, step>>

-----------------------------------------------------------------------------
(* Starting                                                                 *)

StartsWriter(w) ==
    /\ Starting(w)
    /\ StartWriter(w)
    /\ NextStage
    /\ UNCHANGED <<clients, upstream, sampler>>

StartsMetrics ==
    /\ Starting("metrics")
    /\ metrics' = "running"
    /\ NextStage
    /\ UNCHANGED <<writers, clients, upstream, diskErrors>>

StartsForwarder ==
    /\ Starting("forwarder")
    /\ forwarder' = "running"
    /\ NextStage
    /\ UNCHANGED <<writers, clients, forwarded, sampler>>

StartsGateway ==
    /\ Starting("gateway")
    /\ cli' = "serving"
    /\ UNCHANGED <<writers, stage, step, clients, upstream, sampler>>

\* A file exists already, or the port is taken.  The recorder stops its first
\* writer if the second cannot start; nothing else is stopped.
StartFails ==
    LET undone == IF Starting("health_events") THEN {"gateway_events"} ELSE {}
    IN  /\ cli = "starting"
        /\ ~Starting("forwarder")
        /\ running' = [w \in Writer |-> running[w] /\ w \notin undone]
        /\ worker' = [w \in Writer |-> IF w \in undone THEN "done" ELSE worker[w]]
        /\ Fail
        /\ UNCHANGED <<queue, batch, file, accepted, clients, upstream, sampler>>

-----------------------------------------------------------------------------
(* Serving                                                                  *)

\* Rows the bound still allows.
Spare == MaxEvents - Len(accepted["gateway_events"]) - Len(accepted["health_events"])

\* Up to k rows for event file w; a row is its number in the file.
Rows(w, k) ==
    {[i \in 1 .. j |-> Len(accepted[w]) + i] : j \in 0 .. Min({k, Spare})}

\* One step offers m to the store and up to g and h rows to the event files.
Offers(m, g, h) ==
    \E ge \in Rows("gateway_events", g), he \in Rows("health_events", h) :
       /\ Len(ge) + Len(he) <= Spare
       /\ Submit([store |-> m, gateway_events |-> ge, health_events |-> he])

\* try_submit takes a reading, or skips a heartbeat or drops one.
MayForward(m) == forwarded' \in {forwarded, Append(forwarded, m)}

Accept(c) ==
    /\ cli = "serving"
    /\ handler[c] = "unused"
    /\ handler' = [handler EXCEPT ![c] = "reading"]
    /\ Offers(<< >>, 1, 0)
    /\ UNCHANGED <<process, hand, received, upstream, sampler>>

\* The mutant forwards a message that is still waiting for the store.
ForwardsAtOnceAlways == TRUE

\* store.submit returned without waiting.
ForwardsAtOnce == running["store"] /\ Free("store") > 0

\* A valid message: its events (an unusual sequence number, a node that is new
\* on the connection, a transition of its health), then log_message, where the
\* forwarder may report a drop.  If the store's queue is full the handler waits
\* in submit; if the store is not running, submit raises and the connection ends.
Receive(c) ==
    LET m == received + 1
    IN  /\ ~Ended
        /\ handler[c] = "reading"
        /\ received < MaxMessages
        /\ received' = m
        /\ Offers(<<m>>, 3, 1)
        /\ handler' = [handler EXCEPT ![c] =
               IF ~running["store"] THEN "closed"
               ELSE IF Free("store") > 0 THEN "reading" ELSE "submitting"]
        /\ hand' = [hand EXCEPT ![c] = IF handler'[c] = "submitting" THEN m ELSE 0]
        /\ IF ForwardsAtOnce THEN MayForward(m) ELSE forwarded' = forwarded
        /\ UNCHANGED <<process, forwarder, sampler>>

\* The put that had to wait has found room; log_message goes on.
SubmitResumes(c) ==
    /\ ~Ended
    /\ handler[c] = "submitting"
    /\ Free("store") > 0
    /\ \E rows \in Rows("gateway_events", 1) :
          LET new == Queued("gateway_events", rows)
          IN  /\ queue' = [queue EXCEPT !["store"] = Append(@, hand[c]),
                                        !["gateway_events"] = @ \o new]
              /\ accepted' = [accepted EXCEPT !["store"] = Append(@, hand[c]),
                                              !["gateway_events"] = @ \o new]
    /\ MayForward(hand[c])
    /\ handler' = [handler EXCEPT ![c] = "reading"]
    /\ hand' = [hand EXCEPT ![c] = 0]
    /\ UNCHANGED <<running, worker, batch, file, process, received, forwarder, sampler>>

\* A discarded line.
Rejects(c) ==
    /\ ~Ended
    /\ handler[c] = "reading"
    /\ Offers(<< >>, 1, 0)
    /\ UNCHANGED <<process, clients, upstream, sampler>>

\* The connection ends: an event for the cause and one for each of its nodes.
Leaves(c) ==
    /\ ~Ended
    /\ handler[c] = "reading"
    /\ handler' = [handler EXCEPT ![c] = "closed"]
    /\ Offers(<< >>, MaxEvents, 0)
    /\ UNCHANGED <<process, hand, received, upstream, sampler>>

\* The liveness monitor, until the server is stopped.
MonitorEmits ==
    /\ cli = "serving"
    /\ Offers(<< >>, 0, 1)
    /\ UNCHANGED <<process, clients, upstream, sampler>>

\* The forwarder's worker reports the collector.
ForwarderEmits ==
    /\ ~Ended
    /\ forwarder = "running"
    /\ forwarded # << >>
    /\ Offers(<< >>, 1, 0)
    /\ UNCHANGED <<process, clients, upstream, sampler>>

-----------------------------------------------------------------------------
(* The workers and the sampler                                              *)

\* asyncio.run cancels the workers when the process fails.
Takes(w) ==
    /\ ~Ended
    /\ TakeBatch(w) \/ TakeStop(w)
    /\ UNCHANGED <<process, clients, upstream, sampler>>

\* A thread that is writing is waited for even then.
Wrote(w) ==
    /\ BatchWritten(w)
    /\ UNCHANGED <<process, clients, upstream, sampler>>

WriteError(w) ==
    /\ diskErrors < MaxDiskErrors
    /\ WriteFails(w)
    /\ diskErrors' = diskErrors + 1
    /\ UNCHANGED <<process, clients, upstream, metrics>>

\* A sample cannot be appended.  (One that can changes nothing modelled here.)
SampleFails ==
    /\ ~Ended
    /\ metrics = "running"
    /\ diskErrors < MaxDiskErrors
    /\ metrics' = "died"
    /\ diskErrors' = diskErrors + 1
    /\ UNCHANGED <<writers, process, clients, upstream>>

-----------------------------------------------------------------------------
(* Stopping                                                                 *)

\* SIGINT or SIGTERM: the server closes its listener and its clients and
\* cancels the monitor.
StopBegins ==
    /\ cli = "serving"
    /\ cli' = "stopping"
    /\ stage' = 1
    /\ UNCHANGED <<writers, step, clients, upstream, sampler>>

\* The client tasks are gathered.
GatewayStopped ==
    /\ Stopping("gateway")
    /\ \A c \in Conn : ~Live(c)
    /\ NextStage
    /\ UNCHANGED <<writers, clients, upstream, sampler>>

ForwarderStopped ==
    /\ Stopping("forwarder")
    /\ forwarder' = "stopped"
    /\ NextStage
    /\ UNCHANGED <<writers, clients, forwarded, sampler>>

\* stop() re-raises what its worker died of.
ForwarderRaises ==
    /\ Stopping("forwarder")
    /\ forwarder' = "stopped"
    /\ Fail
    /\ UNCHANGED <<writers, clients, forwarded, sampler>>

StopsWriter(w) ==
    /\ Stopping(w)
    /\ step = "call"
    /\ StopWriter(w)
    /\ step' = IF Free(w) > 0 THEN "join" ELSE "put"
    /\ UNCHANGED <<cli, stage, clients, upstream, sampler>>

PutsStop(w) ==
    /\ Stopping(w)
    /\ step = "put"
    /\ PutStop(w)
    /\ step' = "join"
    /\ UNCHANGED <<cli, stage, clients, upstream, sampler>>

\* `await worker`: it returned, or what it died of is re-raised and the
\* remaining stops and the summary are skipped.
WriterJoined(w) ==
    /\ Stopping(w)
    /\ step = "join"
    /\ \/ worker[w] = "done" /\ NextStage
       \/ worker[w] = "died" /\ Fail
    /\ UNCHANGED <<writers, clients, upstream, sampler>>

\* The stop event is set; a sample in progress is finished first.
MetricsJoined ==
    /\ Stopping("metrics")
    /\ \/ metrics = "running" /\ metrics' = "done" /\ NextStage
       \/ metrics = "died" /\ metrics' = metrics /\ Fail
    /\ UNCHANGED <<writers, clients, upstream, diskErrors>>

\* The summary is written, or its file exists already.
WritesSummary ==
    /\ Stopping("summary")
    /\ cli' \in {"exited", "failed"}
    /\ UNCHANGED <<writers, stage, step, clients, upstream, sampler>>

\* What a file may hold when its write was interrupted.
Torn(w) == {file[w] \o SubSeq(batch[w], 1, k) : k \in 0 .. Len(batch[w])}

\* The runner kills a process that does not end within seconds of its SIGINT.
\* One that is serving would have reacted to it.  The memory is gone, and of the
\* batches in writing any part has reached the files.
Killed ==
    /\ cli \in {"starting", "stopping"}
    /\ cli' = "killed"
    /\ \E s \in Torn("store"), g \in Torn("gateway_events"), h \in Torn("health_events") :
          file' = [store |-> s, gateway_events |-> g, health_events |-> h]
    /\ running' = [w \in Writer |-> FALSE]
    /\ worker' = [w \in Writer |-> "none"]
    /\ queue' = [w \in Writer |-> << >>]
    /\ batch' = [w \in Writer |-> << >>]
    /\ handler' = [c \in Conn |-> "closed"]
    /\ hand' = [c \in Conn |-> 0]
    /\ forwarder' = "none"
    /\ metrics' = "none"
    /\ stage' = 1
    /\ step' = "call"
    /\ UNCHANGED <<accepted, received, forwarded, diskErrors>>

Terminated == Ended /\ UNCHANGED vars

-----------------------------------------------------------------------------

CliStep ==
    \/ \E w \in Writer : StartsWriter(w)
    \/ StartsMetrics
    \/ StartsForwarder
    \/ StartsGateway
    \/ GatewayStopped
    \/ ForwarderStopped
    \/ \E w \in Writer : StopsWriter(w) \/ PutsStop(w) \/ WriterJoined(w)
    \/ MetricsJoined
    \/ WritesSummary

Next ==
    \/ CliStep
    \/ StartFails
    \/ \E c \in Conn :
          Accept(c) \/ Receive(c) \/ SubmitResumes(c) \/ Rejects(c) \/ Leaves(c)
    \/ MonitorEmits
    \/ ForwarderEmits
    \/ \E w \in Writer : Takes(w) \/ Wrote(w) \/ WriteError(w)
    \/ SampleFails
    \/ StopBegins
    \/ ForwarderRaises
    \/ Killed
    \/ Terminated

Spec == Init /\ [][Next]_vars

\* What the process does by itself.  A client whose stream stop() has closed
\* leaves.
Progress ==
    \/ CliStep
    \/ \E w \in Writer : Takes(w) \/ Wrote(w)
    \/ \E c \in Conn : SubmitResumes(c) \/ (Stopping("gateway") /\ Leaves(c))

\* The event loop does not rest while something is ready, a write to disk ends,
\* and the forwarder's stop() returns or raises.  Nobody has to send a signal,
\* and nobody has to kill the process.
Fairness == WF_vars(Progress)

FairSpec == Spec /\ Fairness

-----------------------------------------------------------------------------
(* Properties                                                               *)

\* The state stays well-typed and no queue holds more than queue_size items.
TypeOK ==
    /\ running \in [Writer -> BOOLEAN]
    /\ queue \in [Writer -> Seq(Nat)]
    /\ {batch, file, accepted} \subseteq [Writer -> Seq(Nat \ {STOP})]
    /\ \A w \in Writer : Len(queue[w]) <= QueueSize[w] /\ Len(batch[w]) <= BatchSize
    /\ worker \in [Writer -> WorkerStates]
    /\ cli \in CliStates
    /\ stage \in 1 .. Len(StopOrder)
    /\ step \in {"call", "put", "join"}
    /\ handler \in [Conn -> HandlerStates]
    /\ hand \in [Conn -> 0 .. MaxMessages]
    /\ received \in 0 .. MaxMessages
    /\ forwarder \in {"none", "running", "stopped"}
    /\ forwarded \in Seq(1 .. MaxMessages)
    /\ metrics \in MetricsStates
    /\ diskErrors \in 0 .. MaxDiskErrors

Log == INSTANCE EvidenceLog
           WITH Item <- 1 .. MaxMessages, accepted <- accepted["store"],
                file <- file["store"], closed <- cli = "exited"

\* The raw message file is what its docstring calls lossless: whatever workers
\* fail and whenever the process ends, it holds an initial part of what submit()
\* accepted, and all of it when the gateway exits normally (storage.py's worker
\* and stop(), _run_from_cli's shutdown).
StoreImplementsLog == Log!Spec

\* No producer outlives its sink: while a client handler runs, the store and
\* both event writers are running, and while the forwarder runs, the writer of
\* the gateway events is; otherwise submit or try_submit would raise into a
\* handler or the forwarder's worker (the order of starts and stops in
\* _run_from_cli).
ProducersHaveSinks ==
    /\ (\E c \in Conn : Live(c)) => \A w \in Writer : running[w]
    /\ forwarder = "running" => running["gateway_events"]

\* A normal exit means complete evidence: every file holds everything its queue
\* accepted, and the store every valid message the server received.  A worker
\* that failed on the way makes the exit abnormal.
CleanExitComplete ==
    cli = "exited" =>
       /\ \A w \in Writer : file[w] = accepted[w]
       /\ ToSet(file["store"]) = 1 .. received

\* What is forwarded was accepted as evidence first, and in the same order:
\* log_message awaits store.submit before it calls try_submit, also when several
\* handlers wait for room in the store's queue.  So no message is forwarded twice.
ForwardFollowsEvidence ==
    LET evidence == accepted["store"]
    IN  /\ ToSet(forwarded) \subseteq ToSet(evidence)
        /\ \A j, k \in DOMAIN forwarded : \A p, q \in DOMAIN evidence :
              j < k /\ evidence[p] = forwarded[j] /\ evidence[q] = forwarded[k] => p < q

\* A dead worker behind a full queue.
Stuck(w) == worker[w] = "died" /\ Free(w) <= 0

\* Once stopping, the gateway process ends, unless a writer died and its queue
\* filled up: then a handler waits in submit, or stop() waits to put the marker,
\* with nobody to make room.
ShutdownCompletes == cli = "stopping" ~> (Ended \/ \E w \in Writer : Stuck(w))
=============================================================================

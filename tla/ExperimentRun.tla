---------------------------- MODULE ExperimentRun ----------------------------
(***************************************************************************)
(* experiments/run.py: run_once starts the collector, the gateway and the   *)
(* simulator as processes, waits for the simulator, stops the others with   *)
(* SIGINT, SIGTERM and SIGKILL, checks the return codes and writes          *)
(* run_summary.json.  Beside it run the three processes, the person at the  *)
(* terminal (Ctrl-C) and whoever works in the Git worktree.                 *)
(*                                                                         *)
(* Of a process the model keeps what the runner and the other processes     *)
(* see: whether it listens, is stopping, writes its summary or has exited,  *)
(* and how many records are queued, on the wire and collected; what happens *)
(* inside is the subject of UpstreamForwarder and GatewayPipeline.  The     *)
(* connection between gateway and collector is on one host: it ends with    *)
(* one of the two processes, or when the collector cannot append to its     *)
(* output.  What else ends it or makes the collector skip a line (overlong, *)
(* truncated or invalid lines) the gateway does not send: both use the same *)
(* record models, and a record is far shorter than max_message_bytes.  A    *)
(* record carries one reading, as in RAW mode.  Every wait is counted in    *)
(* ticks.                                                                   *)
(***************************************************************************)
EXTENDS Integers, Sequences, FiniteSets

CONSTANTS
    PortWait,       \* _wait_for_port's timeout
    SimulatorWait,  \* warmup + duration + 20
    IntWait,        \* _stop_child's wait after SIGINT: 5 s
    TermWait,       \* and after SIGTERM: 1 s
    DrainWait,      \* shutdown_timeout of the gateway's forwarder: 5 s
    QueueSize,      \* forwarder_queue_size
    MaxReadings,    \* bound on the readings that reach the gateway
    MaxMishaps      \* bound on failing processes and appends, Ctrl-C's and
                    \* worktree changes

ASSUME WaitAssumption ==
    {PortWait, SimulatorWait, IntWait, TermWait, DrainWait, QueueSize,
     MaxReadings, MaxMishaps} \subseteq Nat

Child == {"collector", "gateway", "simulator"}

VARIABLES
    rpc,        \* where run_once is
    cur,        \* the child it starts, waits for or stops
    signalled,  \* the last signal of _stop_child for it
    waited,     \* ticks in the current wait
    status,     \* status
    cut,        \* a Ctrl-C hit the finally clause
    manifest,   \* the worktree manifest.json names
    summary,    \* status in run_summary.json
    proc,       \* the processes
    rc,         \* their return codes
    file,       \* their summary files
    draining,   \* ticks since the gateway was told to stop
    flow,       \* the readings and records on their way
    conn,       \* the gateway's connection to the collector; "dead" is closed
                \* by the collector, and the gateway has not noticed
    tree,       \* the worktree: the frozen commit, edited, or another commit
    strayed,    \* history: a process was started from another worktree than the
                \* frozen one
    moved,      \* history: the worktree changed during this run
    mishaps     \* so far, for the bound

runner == <<rpc, cur, signalled, waited, status, cut, manifest, summary>>
children == <<proc, rc, file, draining>>
traffic == <<flow, conn>>
worktree == <<tree, strayed, moved>>
run == <<runner, children, traffic, worktree, mishaps>>

\* accepted = unsent + sent, until readings are given up.  pending is 1 while
\* the first of the unsent is written and drain() has not returned; counted is
\* messages_received, got the lines in the collector's output.
NoFlow == [accepted |-> 0, dropped |-> 0, abandoned |-> 0, unsent |-> 0,
           pending |-> 0, sent |-> 0, wire |-> 0, counted |-> 0, got |-> 0]

\* The state when run_once is called, the worktree apart.
FreshRun ==
    /\ rpc = "idle" /\ cur = "collector" /\ signalled = "none" /\ waited = 0
    /\ status = "failed" /\ cut = FALSE /\ manifest = "none" /\ summary = "none"
    /\ proc = [c \in Child |-> "none"] /\ rc = [c \in Child |-> "none"]
    /\ file = [c \in Child |-> "none"] /\ draining = 0
    /\ flow = NoFlow /\ conn = "none"
    /\ strayed = FALSE /\ moved = FALSE

RunInit ==
    /\ FreshRun
    /\ mishaps = 0
    /\ tree \in {"frozen", "edited"}

Dirty(t) == t = "edited"
Commit(t) == IF t = "other" THEN "other" ELSE "frozen"

Exited(c) == proc[c] = "exited"
Gone(c) == proc[c] \in {"none", "exited"}

-----------------------------------------------------------------------------
(* What happens to a process                                                *)

\* The collector's side of a connection is closed.
Cut(c) == IF c = "open" THEN "dead" ELSE c

\* The process is gone without having finished.  With the gateway its queue and
\* a part of what it wrote go, with the collector what it had not read.
Dies(c, code) ==
    /\ proc' = [proc EXCEPT ![c] = "exited"]
    /\ rc' = [rc EXCEPT ![c] = code]
    /\ file' = [file EXCEPT ![c] =
                   IF proc[c] \in {"writing", "finishing"} THEN "truncated" ELSE @]
    /\ \/ /\ c = "gateway"
          /\ conn' = "none"
          /\ \E w \in 0 .. flow.wire :
                flow' = [flow EXCEPT !.unsent = 0, !.pending = 0, !.wire = w]
       \/ /\ c = "collector"
          /\ conn' = Cut(conn)
          /\ flow' = [flow EXCEPT !.wire = 0]
       \/ c = "simulator" /\ UNCHANGED traffic

\* SIGINT: the gateway and the collector have a handler that sets stop_event,
\* once they have started.  asyncio.run cancels the simulator, which unwinds, or
\* finishes when no await is left; at the second SIGINT it stops where it is.
Interrupted(c) ==
    CASE proc[c] = "up"                              -> "stopping"
      [] proc[c] = "booting"                         -> "exited"
      [] proc[c] = "writing" /\ c = "simulator"      -> "finishing"
      [] proc[c] = "writing" /\ c # "simulator"      -> "writing"
      [] proc[c] = "finishing"                       -> "stopping"
      [] proc[c] \in {"none", "stopping", "exited"}  -> proc[c]

SigInt(to) ==
    /\ proc' = [c \in Child |-> IF c \in to THEN Interrupted(c) ELSE proc[c]]
    /\ rc' = [c \in Child |->
                IF c \in to /\ proc[c] = "booting" THEN "error" ELSE rc[c]]
    /\ IF "simulator" \in to /\ proc["simulator"] = "finishing"
       THEN \E f \in {"none", "truncated", "complete"} :
               file' = [file EXCEPT !["simulator"] = f]
       ELSE UNCHANGED file
    /\ draining' = IF "gateway" \in to /\ proc["gateway"] = "up"
                   THEN 0 ELSE draining
    /\ UNCHANGED traffic

-----------------------------------------------------------------------------
(* run_once                                                                 *)

\* A controlled run is refused in a dirty worktree.
ChecksWorktree ==
    /\ rpc = "idle"
    /\ rpc' = IF Dirty(tree) THEN "raised" ELSE "checked"
    /\ UNCHANGED <<cur, signalled, waited, status, cut, manifest,
                   summary, children, traffic, worktree, mishaps>>

\* build_manifest asks Git again.
WritesManifest ==
    /\ rpc = "checked"
    /\ manifest' = tree
    /\ rpc' = "start"
    /\ UNCHANGED <<cur, signalled, waited, status, cut, summary,
                   children, traffic, worktree, mishaps>>

StartsChild ==
    /\ rpc = "start"
    /\ proc' = [proc EXCEPT ![cur] = "booting"]
    /\ rpc' = IF cur = "simulator" THEN "measure" ELSE "listen"
    /\ waited' = 0
    /\ UNCHANGED <<cur, signalled, status, cut, manifest, summary,
                   rc, file, draining, traffic, worktree, mishaps>>

\* The mutant starts with the child after which the simulator was to come.
CleanupFirstGateway == "gateway"

\* The finally clause stops the children in reverse order.
CleanupFirst == "simulator"

ToCleanup ==
    rpc' = "cleanup" /\ cur' = CleanupFirst /\ signalled' = "none" /\ waited' = 0

\* _start_child fails, with nothing started.
StartFails ==
    /\ rpc = "start"
    /\ mishaps < MaxMishaps
    /\ mishaps' = mishaps + 1
    /\ ToCleanup
    /\ UNCHANGED <<status, cut, manifest, summary, proc, rc,
                   file, draining, traffic, worktree>>

\* _wait_for_port: somebody accepts a connection.  That is the child, or a
\* stranger that took the port first and made the child fail, which the runner
\* has not noticed.
PortAnswers ==
    /\ rpc = "listen"
    /\ proc[cur] = "up" \/ rc[cur] = "error"
    /\ rpc' = "start"
    /\ cur' = IF cur = "collector" THEN "gateway" ELSE "simulator"
    /\ waited' = 0
    /\ UNCHANGED <<signalled, status, cut, manifest, summary,
                   children, traffic, worktree, mishaps>>

\* The child exited before listening, or the deadline passed.
PortFails ==
    /\ rpc = "listen"
    /\ Exited(cur) \/ waited = PortWait
    /\ ToCleanup
    /\ UNCHANGED <<status, cut, manifest, summary, children,
                   traffic, worktree, mishaps>>

\* The simulator is done, well or not, or takes too long.
Measured ==
    /\ rpc = "measure"
    /\ \/ /\ Exited("simulator") /\ rc["simulator"] = "ok"
          /\ rpc' = "stop" /\ cur' = "gateway" /\ waited' = 0
          /\ UNCHANGED signalled
       \/ Exited("simulator") /\ rc["simulator"] # "ok" /\ ToCleanup
       \/ ~Exited("simulator") /\ waited = SimulatorWait /\ ToCleanup
    /\ UNCHANGED <<status, cut, manifest, summary, children,
                   traffic, worktree, mishaps>>

-----------------------------------------------------------------------------
(* _stop_child, in the try block and in the finally clause                  *)

Stopping == rpc \in {"stop", "cleanup"}

StopInterrupts ==
    /\ Stopping
    /\ ~Gone(cur)
    /\ signalled = "none"
    /\ signalled' = "int"
    /\ waited' = 0
    /\ SigInt({cur})
    /\ UNCHANGED <<rpc, cur, status, cut, manifest, summary, worktree, mishaps>>

\* SIGTERM sets stop_event once more; only the simulator dies of it.
StopTerminates ==
    /\ Stopping
    /\ ~Gone(cur)
    /\ signalled = "int"
    /\ waited = IntWait
    /\ signalled' = "term"
    /\ waited' = 0
    /\ IF cur = "simulator" THEN Dies(cur, "killed")
                            ELSE UNCHANGED <<proc, rc, file, traffic>>
    /\ UNCHANGED <<rpc, cur, status, cut, manifest, summary, draining,
                   worktree, mishaps>>

\* The mutant goes on waiting.
StopKillsNot ==
    /\ Stopping
    /\ ~Gone(cur)
    /\ signalled = "term"
    /\ waited = TermWait
    /\ signalled' = "kill"
    /\ UNCHANGED <<rpc, cur, waited, status, cut, manifest, summary,
                   children, traffic, worktree, mishaps>>

StopKills ==
    /\ Stopping
    /\ ~Gone(cur)
    /\ signalled = "term"
    /\ waited = TermWait
    /\ signalled' = "kill"
    /\ Dies(cur, "killed")
    /\ UNCHANGED <<rpc, cur, waited, status, cut, manifest, summary,
                   draining, worktree, mishaps>>

\* _ensure_success for the two that were stopped.
ReturncodesOk == rc["gateway"] = "ok" /\ rc["collector"] = "ok"

\* The child is gone.  After the collector the try block checks the return
\* codes, and the finally clause builds the summary.
StopDone ==
    /\ Stopping
    /\ Gone(cur)
    /\ \/ /\ rpc = "stop" /\ cur = "gateway"
          /\ cur' = "collector" /\ signalled' = "none" /\ waited' = 0
          /\ UNCHANGED <<rpc, status>>
       \/ /\ rpc = "stop" /\ cur = "collector"
          /\ status' = IF ReturncodesOk THEN "success" ELSE status
          /\ ToCleanup
       \/ /\ rpc = "cleanup" /\ cur # "collector"
          /\ cur' = IF cur = "simulator" THEN "gateway" ELSE "collector"
          /\ signalled' = "none" /\ waited' = 0
          /\ UNCHANGED <<rpc, status>>
       \/ /\ rpc = "cleanup" /\ cur = "collector"
          /\ rpc' = "summary" /\ waited' = 0
          /\ UNCHANGED <<cur, signalled, status>>
    /\ UNCHANGED <<cut, manifest, summary, children, traffic,
                   worktree, mishaps>>

\* _build_summary parses the children's files: a truncated one raises, and then
\* there is no run_summary.json.
BuildsSummary ==
    /\ rpc = "summary"
    /\ \/ /\ \E c \in Child : file[c] = "truncated"
          /\ rpc' = "raised" /\ UNCHANGED summary
       \/ /\ \A c \in Child : file[c] # "truncated"
          /\ rpc' = IF status = "success" THEN "returned" ELSE "raised"
          /\ summary' = status
    /\ UNCHANGED <<cur, signalled, waited, status, cut, manifest,
                   children, traffic, worktree, mishaps>>

RunnerStep ==
    \/ ChecksWorktree \/ WritesManifest \/ StartsChild \/ StartFails
    \/ PortAnswers \/ PortFails \/ Measured
    \/ StopInterrupts \/ StopTerminates \/ StopKills \/ StopDone
    \/ BuildsSummary

\* The runner waits, and for how long at most.
Waiting ==
    \/ rpc \in {"listen", "measure"}
    \/ Stopping /\ signalled # "none" /\ ~Gone(cur)

Limit ==
    CASE rpc = "listen"                     -> PortWait
      [] rpc = "measure"                    -> SimulatorWait
      [] Stopping /\ signalled = "int"      -> IntWait
      [] Stopping /\ signalled # "int"      -> TermWait

Tick ==
    /\ Waiting
    /\ waited < Limit
    /\ waited' = waited + 1
    /\ draining' = IF proc["gateway"] = "stopping" /\ draining < DrainWait
                   THEN draining + 1 ELSE draining
    /\ UNCHANGED <<rpc, cur, signalled, status, cut, manifest, summary,
                   proc, rc, file, traffic, worktree, mishaps>>

\* Ctrl-C, or a cancel() that reaches only the runner.  It ends the try block at
\* an await; the finally clause it ends for good.
CtrlC ==
    /\ Waiting \/ rpc = "start"
    /\ mishaps < MaxMishaps
    /\ mishaps' = mishaps + 1
    /\ IF rpc = "cleanup"
       THEN /\ rpc' = "raised" /\ cut' = TRUE
            /\ UNCHANGED <<cur, signalled, waited, status>>
       ELSE ToCleanup /\ status' = "interrupted" /\ UNCHANGED cut
    /\ \E to \in {Child, {}} : SigInt(to)
    /\ UNCHANGED <<manifest, summary, worktree>>

-----------------------------------------------------------------------------
(* The processes                                                            *)

\* A process has imported its modules from the worktree, and listens or works.
ChildReady(c) ==
    /\ proc[c] = "booting"
    /\ proc' = [proc EXCEPT ![c] = "up"]
    /\ strayed' = (strayed \/ tree # "frozen")
    /\ UNCHANGED <<runner, rc, file, draining, traffic, tree, moved, mishaps>>

ChildCrashes(c) ==
    /\ ~Gone(c)
    /\ mishaps < MaxMishaps
    /\ mishaps' = mishaps + 1
    /\ Dies(c, "error")
    /\ UNCHANGED <<runner, draining, worktree>>

\* A process that wrote its summary exits, after SIGINT perhaps with a traceback.
ChildExits(c) ==
    /\ proc[c] \in {"writing", "finishing"}
    /\ proc' = [proc EXCEPT ![c] = "exited"]
    /\ \E code \in IF proc[c] = "writing" THEN {"ok"} ELSE {"ok", "error"} :
          rc' = [rc EXCEPT ![c] = code]
    /\ file' = [file EXCEPT ![c] = "complete"]
    /\ UNCHANGED <<runner, draining, traffic, worktree, mishaps>>

\* The simulator: readings reach the gateway, which queues them or drops them.
\* One unsent reading may be in the worker's hands, and not in the queue.
SensorReading ==
    /\ proc["simulator"] = "up" /\ proc["gateway"] = "up"
    /\ flow.accepted + flow.dropped < MaxReadings
    /\ \/ /\ flow.unsent <= QueueSize
          /\ flow' = [flow EXCEPT !.accepted = @ + 1, !.unsent = @ + 1]
       \/ /\ flow.unsent >= QueueSize
          /\ flow' = [flow EXCEPT !.dropped = @ + 1]
    /\ UNCHANGED <<runner, children, conn, worktree, mishaps>>

SimulatorEnds ==
    /\ proc["simulator"] = "up"
    /\ proc' = [proc EXCEPT !["simulator"] = "writing"]
    /\ UNCHANGED <<runner, rc, file, draining, traffic, worktree, mishaps>>

\* It ends with a traceback after SIGINT.
SimulatorUnwinds ==
    /\ proc["simulator"] = "stopping"
    /\ proc' = [proc EXCEPT !["simulator"] = "exited"]
    /\ rc' = [rc EXCEPT !["simulator"] = "error"]
    /\ UNCHANGED <<runner, file, draining, traffic, worktree, mishaps>>

\* The gateway's forwarder writes a record to the connection it has, or to a new
\* one while the collector listens.  On a dead connection it goes nowhere.
GatewayWrites ==
    /\ proc["gateway"] \in {"up", "stopping"}
    /\ flow.unsent > 0 /\ flow.pending = 0
    /\ conn # "none" \/ proc["collector"] = "up"
    /\ conn' = IF conn = "dead" THEN "dead" ELSE "open"
    /\ flow' = [flow EXCEPT !.pending = 1,
                            !.wire = IF conn = "dead" THEN @ ELSE @ + 1]
    /\ UNCHANGED <<runner, children, worktree, mishaps>>

\* drain() returns, whatever became of the record.
GatewayDrains ==
    /\ proc["gateway"] \in {"up", "stopping"}
    /\ flow.pending = 1
    /\ flow' = [flow EXCEPT !.pending = 0, !.unsent = @ - 1, !.sent = @ + 1]
    /\ UNCHANGED <<runner, children, conn, worktree, mishaps>>

\* The gateway notices the dead connection, which makes a difference only while
\* it has something to send; an unconfirmed record is sent again.
GatewayNotices ==
    /\ conn = "dead"
    /\ flow.unsent > 0
    /\ conn' = "none"
    /\ flow' = [flow EXCEPT !.pending = 0]
    /\ UNCHANGED <<runner, children, worktree, mishaps>>

\* Its shutdown: everything is sent, or shutdown_timeout has passed and the rest
\* is counted as abandoned, also a record that is written but whose drain() has
\* not returned.  Then the connection is closed.
GatewayStops ==
    /\ proc["gateway"] = "stopping"
    /\ \/ flow.unsent = 0 /\ UNCHANGED flow
       \/ /\ flow.unsent > 0 /\ draining = DrainWait
          /\ flow' = [flow EXCEPT !.abandoned = flow.unsent, !.unsent = 0,
                                  !.pending = 0]
    /\ proc' = [proc EXCEPT !["gateway"] = "writing"]
    /\ draining' = 0
    /\ conn' = "none"
    /\ UNCHANGED <<runner, rc, file, worktree, mishaps>>

CollectorHasLine ==
    /\ proc["collector"] \in {"up", "stopping"}
    /\ flow.wire > 0

\* The collector's handler counts a line and appends it to the output.  It reads
\* its connection to the end, also while stop() waits in wait_closed.
CollectorReads ==
    /\ CollectorHasLine
    /\ flow' = [flow EXCEPT !.wire = @ - 1, !.counted = @ + 1, !.got = @ + 1]
    /\ UNCHANGED <<runner, children, conn, worktree, mishaps>>

\* The append raises an OSError: the line is counted, the handler closes the
\* connection without reading on, and the process lives and will exit with 0.
CollectorAppendFails ==
    /\ CollectorHasLine
    /\ mishaps < MaxMishaps
    /\ mishaps' = mishaps + 1
    /\ flow' = [flow EXCEPT !.wire = 0, !.counted = @ + 1]
    /\ conn' = Cut(conn)
    /\ UNCHANGED <<runner, children, worktree>>

\* The mutant closes the client streams without waiting for the handlers.
CollectorStopsAtOnce ==
    /\ proc["collector"] = "stopping"
    /\ proc' = [proc EXCEPT !["collector"] = "writing"]
    /\ conn' = Cut(conn)
    /\ flow' = [flow EXCEPT !.wire = 0]
    /\ UNCHANGED <<runner, rc, file, draining, worktree, mishaps>>

\* wait_closed returns when no connection is left: the collector does not end
\* before the gateway, unless it is killed or has closed the connection itself.
CollectorStops ==
    /\ proc["collector"] = "stopping"
    /\ conn # "open"
    /\ flow.wire = 0
    /\ proc' = [proc EXCEPT !["collector"] = "writing"]
    /\ UNCHANGED <<runner, rc, file, draining, traffic, worktree, mishaps>>

ProcessStep ==
    \/ \E c \in Child : ChildReady(c) \/ ChildCrashes(c) \/ ChildExits(c)
    \/ SensorReading \/ SimulatorEnds \/ SimulatorUnwinds
    \/ GatewayWrites \/ GatewayDrains \/ GatewayNotices \/ GatewayStops
    \/ CollectorReads \/ CollectorAppendFails \/ CollectorStops

\* Somebody edits, commits or checks out, at a moment when something is going to
\* look at the worktree; at any other moment it is the same as a little later.
WorktreeChanges ==
    /\ \/ rpc \in {"idle", "checked", "returned"}
       \/ \E c \in Child : proc[c] = "booting"
    /\ mishaps < MaxMishaps
    /\ mishaps' = mishaps + 1
    /\ tree' \in {"frozen", "edited", "other"} \ {tree}
    /\ moved' = (moved \/ rpc # "idle")
    /\ UNCHANGED <<runner, children, traffic, strayed>>

-----------------------------------------------------------------------------

Over == rpc \in {"returned", "raised"}

\* A successful run is complete: every process has exited with 0, every summary
\* file is there, and every reading the gateway accepted was sent or is counted
\* as abandoned.  The collector's output has no more lines than were sent, apart
\* from the one record that was being written when the forwarder gave up, and it
\* has all that was sent unless a line was counted and could not be appended,
\* which no return code shows.  The runner only checks return codes; that they
\* say this much rests on the order of the stops and on the collector reading to
\* the end.
SuccessIsComplete ==
    status = "success" =>
       /\ \A c \in Child : rc[c] = "ok" /\ file[c] = "complete"
       /\ flow.sent + flow.abandoned = flow.accepted
       /\ \/ flow.got <= flow.sent
          \/ flow.got = flow.sent + 1 /\ flow.abandoned > 0
       /\ flow.counted = flow.got => flow.sent <= flow.got

\* When run_once is over no process is left and run_summary.json tells how the
\* run ended, unless a second Ctrl-C hit the finally clause or a killed process
\* left a truncated summary.
CleanupComplete ==
    Over /\ ~cut =>
       /\ \A c \in Child : Gone(c)
       /\ manifest # "none" /\ (\A c \in Child : file[c] # "truncated") =>
             summary # "none"
       /\ rpc = "returned" <=> summary = "success"

\* run_once always ends, whatever the processes do: every wait has a timeout,
\* and behind the last one is SIGKILL.  So at every moment a later one finds it
\* not yet begun or over.
RunEnds == []<>(rpc = "idle" \/ Over)
=============================================================================

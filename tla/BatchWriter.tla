----------------------------- MODULE BatchWriter -----------------------------
(***************************************************************************)
(* gateway/storage.py and gateway/events.py: evidence files behind bounded  *)
(* queues.  RawMessageStore and AsyncCsvWriter differ in how they are fed   *)
(* (the store makes its producer wait, the CSV writer drops and counts);    *)
(* they share the worker: it waits for an item, takes what else is queued   *)
(* up to the batch size, and appends the batch in a thread.  stop() puts a  *)
(* marker behind what is queued and waits for the worker.                   *)
(*                                                                         *)
(* Encoding, byte counts and the CSV header are left out.                   *)
(***************************************************************************)
EXTENDS Integers, Sequences, FiniteSets, FiniteSetsExt

CONSTANTS
    Writer,     \* the evidence files
    QueueSize,  \* queue_size of each file
    BatchSize   \* batch_size

ASSUME WriterAssumption ==
    /\ QueueSize \in [Writer -> Nat \ {0}]
    /\ BatchSize \in Nat \ {0}

VARIABLES
    running,   \* self._worker is not None
    queue,     \* items and STOP
    worker,    \* the worker task
    batch,     \* what it is writing
    file,      \* the output file
    accepted   \* history: everything that was queued, in order

writers == <<running, queue, worker, batch, file, accepted>>

STOP == 0

\* "last" is a write after which the worker returns (should_stop).
WorkerStates == {"none", "waiting", "writing", "last", "done", "died"}

WritersInit ==
    /\ running = [w \in Writer |-> FALSE]
    /\ queue = [w \in Writer |-> << >>]
    /\ worker = [w \in Writer |-> "none"]
    /\ batch = [w \in Writer |-> << >>]
    /\ file = [w \in Writer |-> << >>]
    /\ accepted = [w \in Writer |-> << >>]

-----------------------------------------------------------------------------
(* Producers                                                                *)

\* The mutant ignores the bound.
FreeUnbounded(w) == QueueSize[w]

Free(w) == QueueSize[w] - Len(queue[w])

\* What of items enters queue w by put_nowait, or by a put that finds room: a
\* writer that was not started or is being stopped refuses, a full queue drops.
Queued(w, items) ==
    IF running[w] THEN SubSeq(items, 1, Min({Len(items), Free(w)})) ELSE << >>

\* One step of a producer offers a sequence of items to each file.
Submit(offer) ==
    /\ queue' = [w \in Writer |-> queue[w] \o Queued(w, offer[w])]
    /\ accepted' = [w \in Writer |-> accepted[w] \o Queued(w, offer[w])]
    /\ UNCHANGED <<running, worker, batch, file>>

-----------------------------------------------------------------------------
(* start, the worker, stop                                                  *)

\* The output file is created, exclusively, and the worker started.
StartWriter(w) ==
    /\ running' = [running EXCEPT ![w] = TRUE]
    /\ worker' = [worker EXCEPT ![w] = "waiting"]
    /\ UNCHANGED <<queue, batch, file, accepted>>

\* How many items get_nowait yields before the batch is full, the queue empty
\* or the marker met.
BatchLength(q) ==
    Max({k \in 0 .. Min({BatchSize, Len(q)}) : \A j \in 1 .. k : q[j] # STOP})

\* The mutant forgets that it met the marker.
MeetsStopForgotten(q) == FALSE

\* The loop meets the marker before the batch is full.
MeetsStop(q) ==
    LET k == BatchLength(q) IN k < BatchSize /\ k < Len(q)

\* The worker takes a batch and starts writing it.
TakeBatch(w) ==
    LET q == queue[w]
        k == BatchLength(q)
        rest == IF k < BatchSize THEN k + 2 ELSE k + 1
    IN  /\ worker[w] = "waiting"
        /\ q # << >>
        /\ Head(q) # STOP
        /\ batch' = [batch EXCEPT ![w] = SubSeq(q, 1, k)]
        /\ queue' = [queue EXCEPT ![w] = SubSeq(q, rest, Len(q))]
        /\ worker' = [worker EXCEPT ![w] = IF MeetsStop(q) THEN "last" ELSE "writing"]
        /\ UNCHANGED <<running, file, accepted>>

\* The marker comes first: return.
TakeStop(w) ==
    /\ worker[w] = "waiting"
    /\ queue[w] # << >>
    /\ Head(queue[w]) = STOP
    /\ queue' = [queue EXCEPT ![w] = Tail(@)]
    /\ worker' = [worker EXCEPT ![w] = "done"]
    /\ UNCHANGED <<running, batch, file, accepted>>

Writing(w) == worker[w] \in {"writing", "last"}

\* The thread has appended the batch.
BatchWritten(w) ==
    /\ Writing(w)
    /\ file' = [file EXCEPT ![w] = @ \o batch[w]]
    /\ batch' = [batch EXCEPT ![w] = << >>]
    /\ worker' = [worker EXCEPT ![w] = IF @ = "last" THEN "done" ELSE "waiting"]
    /\ UNCHANGED <<running, queue, accepted>>

\* The mutant goes on after a failed write.
AfterWriteErrorContinues == "waiting"

\* Nothing catches the error: the task ends.
AfterWriteError == "died"

\* The disk fails after part of the batch.
WriteFails(w) ==
    /\ Writing(w)
    /\ \E k \in 0 .. Len(batch[w]) :
          file' = [file EXCEPT ![w] = @ \o SubSeq(batch[w], 1, k)]
    /\ batch' = [batch EXCEPT ![w] = << >>]
    /\ worker' = [worker EXCEPT ![w] = AfterWriteError]
    /\ UNCHANGED <<running, queue, accepted>>

\* stop() up to the put of the marker, which waits on a full queue.
StopWriter(w) ==
    /\ running' = [running EXCEPT ![w] = FALSE]
    /\ queue' = IF Free(w) > 0 THEN [queue EXCEPT ![w] = Append(@, STOP)] ELSE queue
    /\ UNCHANGED <<worker, batch, file, accepted>>

\* The put that had to wait.
PutStop(w) ==
    /\ Free(w) > 0
    /\ queue' = [queue EXCEPT ![w] = Append(@, STOP)]
    /\ UNCHANGED <<running, worker, batch, file, accepted>>
=============================================================================

--------------------------- MODULE ForwarderProofs ---------------------------
(***************************************************************************)
(* Proofs about UpstreamForwarder, for every queue size, window, lag and    *)
(* number of readings, drops, outages and failures.                         *)
(*                                                                         *)
(* Everything rests on one order: readings are numbered as they were        *)
(* accepted and pass, in this order, from the queue through the open window *)
(* and the record being sent to the sent ones.  So a place behind holds     *)
(* only smaller numbers (OrderInv), what is on the wire is the record being *)
(* sent or an older one (WireInv), and nothing is in two places.            *)
(***************************************************************************)
EXTENDS UpstreamForwarder, FiniteSetTheorems, SequenceTheorems, TLAPS

Before(A, B) == \A a \in A, b \in B : a < b

HasEnds(S) ==
    /\ \E m \in S : \A i \in S : m <= i
    /\ \E m \in S : \A i \in S : i <= m

\* The readings that are not DUPLICATEs.
IncludedIn(rs) == {i \in 1 .. Len(rs) : ~rs[i].duplicate}
Included == IncludedIn(readings)

\* The worker has a record in its hands.
Carrying == wpc \in Sending \cup {"died"}

\* What a record says of its readings, in either mode.
RawOK(r, rs) ==
    \E i \in 1 .. Len(rs) :
       r.readings = {i} /\ r.id = <<"raw", i, rs[i].mono>> /\ r.at = rs[i].at

\* The first reading of a window anchors the others, on the monotonic clock.
Anchored(S, m, rs) ==
    \A i \in S : /\ rs[m].mono - MaxLag <= rs[i].mono
                 /\ rs[i].mono < rs[m].mono + WindowTicks

\* A partial window ends when the wall clock wl is read, after its readings.
EndsNow(r, rs, wl) ==
    \E c \in 0 .. MaxClock : r.id[3] = wl[c] /\ \A i \in r.readings : rs[i].mono <= c

AggregateOK(r, rs, wl) ==
    /\ r.id[1] = "aggregate"
    /\ r.partial = FALSE => r.id[3] = r.id[2] + Window
    /\ r.partial = TRUE => EndsNow(r, rs, wl)
    /\ \A m \in r.readings :
          (\A i \in r.readings : m <= i) =>
             r.id[2] = rs[m].at /\ Anchored(r.readings, m, rs)

RecordOK(r, m, rs, wl) ==
    /\ r.readings \subseteq IncludedIn(rs)
    /\ HasEnds(r.readings)
    /\ m = "RAW" => RawOK(r, rs)
    /\ m = "AGGREGATED" => AggregateOK(r, rs, wl)

RecordInv(r) == RecordOK(r, mode, readings, wall)

\* When the wall clock wl was read for a reading received at mono.
SampledAt(at, mono, wl) == \E s \in 0 .. mono : mono - s <= MaxSkew /\ at = wl[s]

\* Receive times are past, later readings are older by the lag at most, and the
\* wall times were read shortly before the monotonic ones.
TimeInv ==
    /\ \A i \in Enqueued : readings[i].mono <= clock
    /\ \A i \in Enqueued : SampledAt(readings[i].at, readings[i].mono, wall)
    /\ \A i, j \in Enqueued : i < j => readings[i].mono - MaxLag <= readings[j].mono
    /\ mode = "RAW" => ExcludedReadings = {}

\* The readings in a queue: _STOP does not count.
ItemsOf(q) == {q[k] : k \in DOMAIN q} \ {STOP}

\* A queue in the order of acceptance with _STOP at its end.
Orderly(q, n) ==
    /\ \A k \in 1 .. Len(q) : q[k] \in 0 .. n
    /\ \A j, k \in 1 .. Len(q) : j < k => q[j] # STOP
    /\ \A j, k \in 1 .. Len(q) : j < k /\ q[k] # STOP => q[j] < q[k]

\* _STOP is not there before stop() has put it.
QueueInv ==
    /\ Orderly(queue, Len(readings))
    /\ spc \in {"idle", "putting"} => STOP \notin {queue[k] : k \in DOMAIN queue}

WindowInv ==
    /\ window \subseteq Included
    /\ mode = "RAW" => window = {}
    /\ window # {} =>
          /\ HasEnds(window)
          /\ \A m \in window : (\A i \in window : m <= i) =>
                \A i \in window : readings[i].mono < readings[m].mono + WindowTicks

\* The worker and stop().
ControlInv ==
    /\ ~Carrying => inflight = NoRecord
    /\ Carrying => RecordInv(inflight)
    /\ wpc = "done" \/ last =>
          queue = << >> /\ window = {} /\ spc \notin {"idle", "putting"}
    /\ last => wpc \notin {"get", "wait"}
    /\ spc \in {"closing", "stopped"} => wpc = "done"
    /\ conn = "closed" => spc = "stopped"
    /\ cancelled => wpc = "done" /\ stats.recordsAbandoned > 0
    /\ ~cancelled => abandoned = {} /\ stats.recordsAbandoned = 0

OrderInv ==
    /\ sent \subseteq Included
    /\ abandoned \subseteq Enqueued
    /\ Before(sent, abandoned)
    /\ Before(sent, inflight.readings)
    /\ Before(sent, window)
    /\ Before(sent, Queued)
    /\ Before(inflight.readings, window)
    /\ Before(inflight.readings, Queued)
    /\ Before(window, Queued)

\* Nothing disappears.
PlaceInv ==
    ~cancelled =>
       Enqueued = ExcludedReadings \cup Queued \cup window \cup inflight.readings
                  \cup sent

\* A record on its way to the collector: it is the record f being sent, or older
\* than all that is still to be sent, and counted as sent.
OnWay(r, m, rs, wl, f, c, s, w, q) ==
    /\ RecordOK(r, m, rs, wl)
    /\ r = f \/ Before(r.readings, f.readings)
    /\ c = TRUE \/ r = f \/ r.readings \subseteq s
    /\ Before(r.readings, w)
    /\ Before(r.readings, q)

WireInv ==
    /\ \A k \in 1 .. Len(Wire) :
          OnWay(Wire[k], mode, readings, wall, inflight, cancelled, sent, window, Queued)
    /\ \A j, k \in 1 .. Len(Wire) :
          j < k => Wire[j] = Wire[k] \/ Before(Wire[j].readings, Wire[k].readings)

\* As long as no connection has broken, the record being sent is on the wire
\* once it is written, as the last, and every sent one is there.
IntactInv ==
    outages = 0 =>
       /\ conn \in {"none", "open", "closed"}
       /\ conn = "none" => Len(Wire) = 0
       /\ wpc # "died"
       /\ wpc = "drain" => conn = "open" /\ Len(Wire) > 0 /\ Wire[Len(Wire)] = inflight
       /\ wpc \in {"send", "backoff"} => \A k \in 1 .. Len(Wire) : Wire[k] # inflight
       /\ \A i \in sent : \E k \in 1 .. Len(Wire) : i \in Wire[k].readings
       /\ \A j, k \in 1 .. Len(Wire) : j < k => Wire[j] # Wire[k]

IInv ==
    /\ TypeOK /\ TimeInv /\ QueueInv /\ WindowInv /\ ControlInv
    /\ OrderInv /\ PlaceInv /\ WireInv

-----------------------------------------------------------------------------
(* Facts about the operators                                                *)

\* A least element of a set is what the aggregator and the analysis take as its
\* first reading.
LEMMA MinIs ==
    ASSUME NEW S \in SUBSET Nat, NEW m \in S, \A i \in S : m <= i
    PROVE  Min(S) = m
<1>1. \A x \in S : (\A y \in S : x =< y) => x = m
  <2> TAKE x \in S
  <2> HAVE \A y \in S : x =< y
  <2>1. x \in Nat /\ m \in Nat /\ x <= m /\ m <= x
    OBVIOUS
  <2>2. QED  BY <2>1
<1>2. QED  BY <1>1 DEF Min

\* The same for a greatest element, the last reading of a record.
LEMMA MaxIs ==
    ASSUME NEW S \in SUBSET Nat, NEW m \in S, \A i \in S : i <= m
    PROVE  Max(S) = m
<1>1. \A x \in S : (\A y \in S : x >= y) => x = m
  <2> TAKE x \in S
  <2> HAVE \A y \in S : x >= y
  <2>1. x \in Nat /\ m \in Nat /\ x >= m /\ m >= x
    OBVIOUS
  <2>2. QED  BY <2>1
<1>2. QED  BY <1>1 DEF Max

\* queue.get() takes the oldest reading, and _STOP only when nothing is behind.
LEMMA QueueTaken ==
    ASSUME NEW q \in Seq(Nat), q # << >>, NEW n \in Nat, Orderly(q, n)
    PROVE  /\ Tail(q) \in Seq(Nat) /\ Len(Tail(q)) = Len(q) - 1
           /\ Head(q) \in 0 .. n
           /\ Orderly(Tail(q), n)
           /\ \A k \in 1 .. Len(Tail(q)) : Tail(q)[k] = q[k + 1]
           /\ Head(q) = STOP => Tail(q) = << >> /\ ItemsOf(q) = {}
           /\ Head(q) # STOP =>
                 /\ Head(q) \in 1 .. n
                 /\ Head(q) \notin ItemsOf(Tail(q))
                 /\ ItemsOf(q) = ItemsOf(Tail(q)) \cup {Head(q)}
                 /\ Before({Head(q)}, ItemsOf(Tail(q)))
<1> DEFINE t == Tail(q)
<1>1. /\ t \in Seq(Nat) /\ Len(t) = Len(q) - 1
      /\ Len(q) \in Nat \ {0} /\ Len(t) \in Nat
      /\ \A k \in 1 .. Len(t) : t[k] = q[k + 1]
      /\ Head(q) = q[1] /\ 1 \in 1 .. Len(q)
      /\ DOMAIN q = 1 .. Len(q) /\ DOMAIN t = 1 .. Len(t)
  BY HeadTailProperties, EmptySeq, LenProperties
<1> HIDE DEF t
<1>2. Orderly(t, n)
  <2>1. \A k \in 1 .. Len(t) : k + 1 \in 1 .. Len(q) /\ t[k] = q[k + 1]
    BY <1>1
  <2>2. \A k \in 1 .. Len(t) : t[k] \in 0 .. n
    BY <2>1 DEF Orderly
  <2>3. ASSUME NEW j \in 1 .. Len(t), NEW k \in 1 .. Len(t), j < k
        PROVE  t[j] # STOP /\ (t[k] # STOP => t[j] < t[k])
    <3>1. j + 1 < k + 1
      BY <2>3
    <3>2. QED  BY <2>1, <3>1 DEF Orderly
  <2>4. QED  BY <2>2, <2>3 DEF Orderly
<1>3. Head(q) \in 0 .. n
  BY <1>1 DEF Orderly
<1>4. ItemsOf(q) = ItemsOf(t) \cup ({Head(q)} \ {STOP})
  <2>1. \A x : (\E k \in 1 .. Len(t) : x = t[k]) => \E k \in 1 .. Len(q) : x = q[k]
    <3> TAKE x
    <3> HAVE \E k \in 1 .. Len(t) : x = t[k]
    <3>1. PICK k \in 1 .. Len(t) : x = t[k]  OBVIOUS
    <3>2. k + 1 \in 1 .. Len(q) /\ t[k] = q[k + 1]
      BY <1>1
    <3>3. QED  BY ONLY <3>1, <3>2
  <2>2. \A x : (\E k \in 1 .. Len(q) : x = q[k]) =>
                  x = q[1] \/ \E k \in 1 .. Len(t) : x = t[k]
    <3> TAKE x
    <3> HAVE \E k \in 1 .. Len(q) : x = q[k]
    <3>1. PICK k \in 1 .. Len(q) : x = q[k]  OBVIOUS
    <3>2. CASE k = 1
      BY <3>1, <3>2
    <3>3. CASE k # 1
      <4>1. k - 1 \in 1 .. Len(t)
        BY <1>1, <3>3
      <4>2. t[k - 1] = q[(k - 1) + 1]
        BY <1>1, <4>1
      <4>3. QED  BY <3>1, <4>1, <4>2
    <3>4. QED  BY <3>2, <3>3
  <2> DEFINE rq == {q[k] : k \in 1 .. Len(q)}
             rt == {t[k] : k \in 1 .. Len(t)}
  <2>3. rq = rt \cup {q[1]}
    <3>1. \A x : x \in rq <=> \E k \in 1 .. Len(q) : x = q[k]
      OBVIOUS
    <3>2. \A x : x \in rt <=> \E k \in 1 .. Len(t) : x = t[k]
      OBVIOUS
    <3> HIDE DEF rq, rt
    <3>3. q[1] \in rq
      BY <1>1, <3>1
    <3>4. QED  BY <2>1, <2>2, <3>1, <3>2, <3>3
  <2>4. ItemsOf(q) = rq \ {STOP}
    BY <1>1 DEF ItemsOf
  <2>5. ItemsOf(t) = rt \ {STOP}
    BY <1>1 DEF ItemsOf
  <2> HIDE DEF rq, rt
  <2>6. QED  BY <1>1, <2>3, <2>4, <2>5
<1>5. ASSUME Head(q) = STOP PROVE t = << >> /\ ItemsOf(q) = {}
  <2>1. Len(q) = 1
    BY <1>1, <1>5 DEF Orderly
  <2>2. t = << >>
    BY <1>1, <2>1, EmptySeq
  <2>3. ItemsOf(t) = {}
    BY <2>2, <1>1, <2>1 DEF ItemsOf
  <2>4. QED  BY <1>4, <1>5, <2>2, <2>3
<1>6. ASSUME Head(q) # STOP PROVE Before({Head(q)}, ItemsOf(t))
  <2> SUFFICES ASSUME NEW k \in 1 .. Len(t), t[k] # STOP PROVE Head(q) < t[k]
    BY <1>1 DEF Before, ItemsOf
  <2>1. k + 1 \in 1 .. Len(q) /\ t[k] = q[k + 1] /\ 1 < k + 1
    BY <1>1
  <2>2. QED  BY <1>1, <2>1 DEF Orderly
<1>7. ASSUME Head(q) # STOP PROVE Head(q) \in 1 .. n /\ Head(q) \notin ItemsOf(t)
  <2>1. Head(q) \in 1 .. n
    BY <1>3, <1>7 DEF STOP
  <2>2. QED  BY <1>6, <1>7, <2>1 DEF Before
<1>8. QED  BY <1>1, <1>2, <1>3, <1>4, <1>5, <1>6, <1>7 DEF t

\* queue.put_nowait adds at the end, a reading or _STOP.
LEMMA QueuePut ==
    ASSUME NEW q \in Seq(Nat), NEW n \in Nat, Orderly(q, n), STOP \notin {q[k] : k \in DOMAIN q},
           NEW i \in {STOP, n + 1}
    PROVE  /\ Append(q, i) \in Seq(Nat)
           /\ Len(Append(q, i)) = Len(q) + 1
           /\ i = STOP => Orderly(Append(q, i), n)
           /\ i # STOP => Orderly(Append(q, i), i)
           /\ ItemsOf(Append(q, i)) = ItemsOf(q) \cup ({i} \ {STOP})
           /\ \A k \in 1 .. Len(q) : Append(q, i)[k] = q[k]
           /\ Append(q, i)[Len(q) + 1] = i
<1> DEFINE a == Append(q, i)
<1>1. /\ i \in Nat /\ Len(q) \in Nat /\ a \in Seq(Nat) /\ Len(a) = Len(q) + 1
      /\ \A k \in 1 .. Len(q) : a[k] = q[k]
      /\ a[Len(q) + 1] = i
      /\ DOMAIN q = 1 .. Len(q) /\ DOMAIN a = 1 .. Len(q) + 1
  BY AppendProperties, LenProperties DEF STOP
<1> HIDE DEF a
<1>2. \A k \in 1 .. Len(a) : k \in 1 .. Len(q) \/ k = Len(q) + 1
  BY <1>1
<1>3. \A k \in 1 .. Len(q) : q[k] # STOP /\ q[k] \in 1 .. n
  <2>1. \A k \in 1 .. Len(q) : q[k] \in 0 .. n
    BY DEF Orderly
  <2>2. \A k \in 1 .. Len(q) : q[k] # STOP
    BY <1>1
  <2>3. QED  BY <2>1, <2>2 DEF STOP
<1> DEFINE m == IF i = STOP THEN n ELSE i
<1>4. Orderly(a, m)
  <2>1. \A k \in 1 .. Len(a) : a[k] \in 0 .. m
    <3> TAKE k \in 1 .. Len(a)
    <3>1. CASE k \in 1 .. Len(q)
      BY <1>1, <1>3, <3>1 DEF STOP
    <3>2. CASE k = Len(q) + 1
      BY <1>1, <3>2 DEF STOP
    <3>3. QED  BY <1>2, <3>1, <3>2
  <2>2. \A j, k \in 1 .. Len(a) : j < k => j \in 1 .. Len(q) /\ a[j] # STOP /\ a[j] = q[j]
    <3> TAKE j, k \in 1 .. Len(a)
    <3> HAVE j < k
    <3>1. j \in 1 .. Len(q)
      BY <1>1
    <3>2. a[j] = q[j] /\ q[j] # STOP
      BY <1>1, <1>3, <3>1
    <3>3. QED  BY ONLY <3>1, <3>2
  <2>3. \A j, k \in 1 .. Len(a) : j < k /\ a[k] # STOP => a[j] < a[k]
    <3> TAKE j, k \in 1 .. Len(a)
    <3> HAVE j < k /\ a[k] # STOP
    <3>1. j \in 1 .. Len(q) /\ a[j] = q[j] /\ q[j] \in 1 .. n
      BY <2>2, <1>3
    <3>2. CASE k \in 1 .. Len(q)
      BY <1>1, <3>1, <3>2 DEF Orderly
    <3>3. CASE k = Len(q) + 1
      BY <1>1, <3>1, <3>3 DEF STOP
    <3>4. QED  BY <1>2, <3>2, <3>3
  <2>4. QED  BY <2>1, <2>2, <2>3 DEF Orderly
<1>5. ItemsOf(a) = ItemsOf(q) \cup ({i} \ {STOP})
  <2> DEFINE ra == {a[k] : k \in 1 .. Len(q) + 1}
             rq == {q[k] : k \in 1 .. Len(q)}
  <2>1. \A k \in 1 .. Len(q) : k \in 1 .. Len(q) + 1
    BY <1>1
  <2>2. Len(q) + 1 \in 1 .. Len(q) + 1
    BY <1>1
  <2>3. ra = rq \cup {i}
    BY <1>1, <1>2, <2>1, <2>2
  <2>4. ItemsOf(q) = rq \ {STOP} /\ ItemsOf(a) = ra \ {STOP}
    BY <1>1 DEF ItemsOf
  <2> HIDE DEF ra, rq
  <2>5. QED  BY <2>3, <2>4
<1>6. QED  BY <1>1, <1>4, <1>5 DEF a

-----------------------------------------------------------------------------
(* The steps by what they do to the readings                                *)

Accepted ==
    \E duplicate \in Classified, mono \in ReceiveTimes :
       \E at \in PublishedTimes(mono) : TrySubmitAccepts(duplicate, mono, at)

\* No reading moves: only the network, the control or the clock.
Quiet ==
    /\ UNCHANGED <<mode, wall, readings, window, inflight, last, cancelled, confirmed, sent,
                   abandoned>>
    /\ Queued' = Queued
    /\ clock' >= clock
    /\ stats'.upstreamMessages = stats.upstreamMessages
    /\ stats'.recordsAbandoned = stats.recordsAbandoned
    /\ \/ wpc' = wpc
       \/ wpc = "get" /\ wpc' = "wait"
       \/ wpc \in Sending /\ wpc' \in Sending \cup {"died"}

LEMMA QueuedIsItems == Queued = ItemsOf(queue) /\ Queued' = ItemsOf(queue')
BY DEF Queued, ItemsOf

\* The put of _STOP leaves the queued readings alone.
LEMMA StopPutQuiet ==
    ASSUME TypeOK, QueueInv, spc \in {"idle", "putting"}, queue' = Enqueue(STOP)
    PROVE  Queued' = Queued
<1>1. queue \in Seq(Nat) /\ Len(readings) \in Nat /\ STOP \notin {queue[k] : k \in DOMAIN queue}
      /\ Orderly(queue, Len(readings))
  BY LenProperties DEF TypeOK, QueueInv
<1>2. ItemsOf(Append(queue, STOP)) = ItemsOf(queue) \cup ({STOP} \ {STOP})
  BY <1>1, QueuePut
<1>3. QED  BY <1>2, QueuedIsItems DEF Enqueue

\* Every step either accepts a reading, or moves readings on the worker's way,
\* or moves none.
LEMMA StepKinds ==
    ASSUME TypeOK, QueueInv, [Next]_vars
    PROVE  \/ Accepted
           \/ TakeRaw \/ TakeReading \/ WindowTimeout \/ TakeStop
           \/ Drained \/ StopTimesOut
           \/ Quiet
<1>0. /\ clock \in Nat
      /\ stats \in [upstreamMessages : Nat, connectionAttempts : Nat,
                    connectionFailures : Nat, sendFailures : Nat,
                    recordsAbandoned : Nat, queueFullDrops : Nat]
  BY ForwarderAssumption DEF TypeOK, UpstreamStats
<1>1. ASSUME UNCHANGED <<worker, readings, mode, clock, wall, stats, cancelled, history>> PROVE Quiet
  BY <1>0, <1>1 DEF Quiet, worker, history, Queued
<1>2. ASSUME TrySubmitDrops PROVE Quiet
  BY <1>0, <1>2 DEF TrySubmitDrops, Quiet, worker, history, Queued, input, stopper
<1>3. ASSUME WorkerWaits \/ BackoffEnds PROVE Quiet
  BY <1>0, <1>3 DEF WorkerWaits, BackoffEnds, Quiet, history, Queued, input, stopper, report, Sending
<1>4. ASSUME WriteReused PROVE Quiet
  BY <1>0, <1>4 DEF WriteReused, Quiet, history, Queued, input, stopper, report, Sending
<1>5. ASSUME ConnectAndWrite PROVE Quiet
  BY <1>0, <1>5 DEF ConnectAndWrite, Quiet, history, Queued, input, stopper, Sending
<1>6. ASSUME ConnectFails PROVE Quiet
  BY <1>0, <1>6 DEF ConnectFails, AfterFailure, Quiet, history, Queued, input, stopper, Sending
<1>7. ASSUME DrainFails PROVE Quiet
  BY <1>0, <1>7 DEF DrainFails, AfterFailure, Quiet, history, Queued, input, stopper, Sending
<1>8. ASSUME StopBegins PROVE Quiet
  <2>1. Queued' = Queued
    BY <1>8, StopPutQuiet DEF StopBegins, Queued
  <2>2. QED  BY <1>0, <1>8, <2>1 DEF StopBegins, Quiet, history, input, report
<1>9. ASSUME StopPuts PROVE Quiet
  <2>1. Queued' = Queued
    BY <1>9, StopPutQuiet DEF StopPuts
  <2>2. QED  BY <1>0, <1>9, <2>1 DEF StopPuts, Quiet, history, input, report
<1>10. ASSUME StopJoins \/ StopFindsDead \/ StopCloses PROVE Quiet
  BY <1>1, <1>10 DEF StopJoins, StopFindsDead, StopCloses, input, report
<1>11. ASSUME Environment PROVE Quiet
  BY <1>1, <1>11 DEF Environment, CollectorReads, CollectorAppendFails, ConnectionBreaks, BreakNoticed,
     CollectorStarts, CollectorStalls, CollectorResumes, input, report, stopper
<1>12. ASSUME Tick PROVE Quiet
  BY <1>0, <1>12 DEF Tick, Quiet, worker, history, report, stopper, Queued
<1>13. ASSUME Terminated \/ UNCHANGED vars PROVE Quiet
  BY <1>1, <1>13 DEF Terminated, vars, input, report, stopper
<1>14. QED
  BY <1>2, <1>3, <1>4, <1>5, <1>6, <1>7, <1>8, <1>9, <1>10, <1>11, <1>12, <1>13
     DEF Next, WorkerStep, StopStep, Accepted

-----------------------------------------------------------------------------
(* What is put into a record                                                *)

LEMMA ConstantFacts ==
    /\ QueueSize \in Nat /\ QueueSize > 0
    /\ Window \in Nat /\ Window > 0 /\ MaxLag \in Nat /\ MaxSkew \in Nat
    /\ TicksPerMs \in Nat /\ TicksPerMs > 0 /\ MaxClock \in Nat
    /\ mode \in Modes => mode = "RAW" \/ mode = "AGGREGATED"
<1>1. /\ QueueSize \in Nat /\ QueueSize > 0 /\ Window \in Nat /\ Window > 0
      /\ TicksPerMs \in Nat /\ TicksPerMs > 0
  BY ForwarderAssumption
<1>2. MaxLag \in Nat /\ MaxSkew \in Nat /\ MaxClock \in Nat
  BY ForwarderAssumption
<1>3. mode \in Modes => mode = "RAW" \/ mode = "AGGREGATED"
  BY ForwarderAssumption
<1>4. QED  BY <1>1, <1>2, <1>3

LEMMA WindowTicksPositive == WindowTicks \in Nat /\ WindowTicks > 0
<1>1. \A a, b \in Nat : a > 0 /\ b > 0 => a * b \in Nat /\ a * b > 0
  OBVIOUS
<1>2. QED  BY <1>1, ConstantFacts DEF WindowTicks

\* The wall clock publishes whole milliseconds.
LEMMA WallFacts ==
    ASSUME TypeOK
    PROVE  /\ clock \in Nat /\ clock \in 0 .. MaxClock
           /\ \A t \in 0 .. MaxClock : wall[t] \in Nat
           /\ wall[clock] \in Nat
<1>1. clock \in 0 .. MaxClock /\ wall \in Walls
  BY DEF TypeOK
<1>2. MaxWall \in Nat
  BY ForwarderAssumption
<1>3. wall \in [0 .. MaxClock -> 0 .. MaxWall]
  BY <1>1, ForwarderAssumption
<1>4. QED  BY <1>1, <1>2, <1>3, ConstantFacts

\* Readings are numbered, timed and classified.
LEMMA ReadingFacts ==
    ASSUME TypeOK
    PROVE  /\ Len(readings) \in Nat
           /\ \A i \in Enqueued : /\ i \in Nat /\ i > 0
                                  /\ readings[i].mono \in Nat
                                  /\ readings[i].at \in Nat
                                  /\ readings[i].duplicate \in BOOLEAN
<1>1. readings \in Seq([mono : Nat, at : Nat, duplicate : BOOLEAN])
  BY DEF TypeOK
<1>2. Len(readings) \in Nat
  BY <1>1, LenProperties
<1>3. \A i \in 1 .. Len(readings) :
         readings[i] \in [mono : Nat, at : Nat, duplicate : BOOLEAN]
  BY <1>1, ElementOfSeq
<1>4. QED  BY <1>2, <1>3 DEF Enqueued

\* The window has a first reading, and starts at its receive time.
LEMMA WindowFirst ==
    ASSUME TypeOK, WindowInv, window # {}
    PROVE  \E m \in window :
              /\ Min(window) = m /\ \A i \in window : m <= i
              /\ m \in Enqueued /\ readings[m].mono \in Nat
              /\ Start = readings[m].at /\ Deadline = readings[m].mono + WindowTicks
              /\ Start \in Nat /\ Deadline \in Nat /\ PlannedEnd \in Nat
<1>1. PICK m \in window : \A i \in window : m <= i
  BY DEF WindowInv, HasEnds
<1>2. Min(window) = m
  BY <1>1, MinIs DEF TypeOK
<1>3. m \in Enqueued
  BY DEF WindowInv, Included, IncludedIn, Enqueued
<1>4. readings[m].at \in Nat /\ readings[m].mono \in Nat
  BY <1>3, ReadingFacts
<1>5. Start = readings[m].at /\ Deadline = readings[m].mono + WindowTicks
  BY <1>2 DEF Start, Deadline
<1>6. PlannedEnd = Start + Window
  BY DEF PlannedEnd
<1>7. Start \in Nat /\ Deadline \in Nat /\ PlannedEnd \in Nat
  BY <1>4, <1>5, <1>6, ConstantFacts, WindowTicksPositive
<1>8. QED  BY <1>1, <1>2, <1>3, <1>4, <1>5, <1>7

\* The window's first reading anchors it.
LEMMA WindowAnchored ==
    ASSUME TypeOK, TimeInv, WindowInv, NEW m \in window, \A i \in window : m <= i
    PROVE  Anchored(window, m, readings)
<1>1. \A i \in window : i \in Enqueued /\ i \in Nat /\ readings[i].mono \in Nat
  BY ReadingFacts DEF WindowInv, Included, IncludedIn, Enqueued
<1>2. ASSUME NEW i \in window
      PROVE  /\ readings[m].mono - MaxLag <= readings[i].mono
             /\ readings[i].mono < readings[m].mono + WindowTicks
  <2>1. readings[i].mono < readings[m].mono + WindowTicks
    BY DEF WindowInv
  <2>2. CASE i = m
    BY <1>1, <2>1, <2>2, ConstantFacts
  <2>3. CASE i # m
    <3>1. m < i
      BY <1>1, <2>3
    <3>2. QED  BY <1>1, <2>1, <3>1 DEF TimeInv
  <2>4. QED  BY <2>2, <2>3
<1>3. QED  BY <1>2 DEF Anchored

\* A window that is flushed, full with its planned end or partial with the
\* present wall time, covers its readings.
LEMMA WindowFlushed ==
    ASSUME TypeOK, TimeInv, WindowInv, window # {}, mode = "AGGREGATED",
           NEW p \in BOOLEAN, NEW e \in Nat,
           p = FALSE => e = PlannedEnd,
           p = TRUE => e = wall[clock]
    PROVE  Summary(p, e) \in Record /\ RecordInv(Summary(p, e))
<1>1. PICK m \in window :
              /\ Min(window) = m /\ \A i \in window : m <= i
              /\ m \in Enqueued /\ readings[m].mono \in Nat
              /\ Start = readings[m].at /\ Deadline = readings[m].mono + WindowTicks
              /\ Start \in Nat /\ Deadline \in Nat /\ PlannedEnd \in Nat
  BY WindowFirst
<1>w. clock \in 0 .. MaxClock /\ wall[clock] \in Nat
  BY WallFacts
<1> DEFINE r == Summary(p, e)
<1>2. /\ r.readings = window /\ r.partial = p /\ r \in Record
      /\ r.id[1] = "aggregate" /\ r.id[2] = Start /\ r.id[3] = e
  BY <1>1, <1>w DEF Summary, Record, TypeOK
<1> HIDE DEF r
<1>3. \A i \in window : i \in Nat /\ i \in Enqueued
  BY ReadingFacts DEF WindowInv, Included, IncludedIn, Enqueued
<1>4. \A k \in window : (\A i \in window : k <= i) => k = m
  BY <1>1, <1>3
<1>5. Anchored(window, m, readings)
  BY <1>1, WindowAnchored
<1>6. r.partial = FALSE => r.id[3] = r.id[2] + Window
  BY <1>2 DEF PlannedEnd
<1>7. r.partial = TRUE => EndsNow(r, readings, wall)
  <2>1. \A i \in window : readings[i].mono <= clock
    BY <1>3 DEF TimeInv
  <2>2. QED  BY <1>2, <1>w, <2>1 DEF EndsNow
<1>8. \A k \in r.readings : (\A i \in r.readings : k <= i) =>
         r.id[2] = readings[k].at /\ Anchored(r.readings, k, readings)
  BY <1>1, <1>2, <1>4, <1>5
<1>9. AggregateOK(r, readings, wall)
  BY <1>2, <1>6, <1>7, <1>8 DEF AggregateOK
<1>10. RecordInv(r)
  BY <1>2, <1>9 DEF RecordInv, RecordOK, WindowInv, Included
<1>11. QED  BY <1>2, <1>10 DEF r

LEMMA FullWindow ==
    ASSUME TypeOK, TimeInv, WindowInv, window # {}, mode = "AGGREGATED"
    PROVE  Summary(FALSE, PlannedEnd) \in Record /\ RecordInv(Summary(FALSE, PlannedEnd))
<1>1. PlannedEnd \in Nat
  BY WindowFirst
<1>2. FALSE \in BOOLEAN /\ FALSE # TRUE
  OBVIOUS
<1>3. QED  BY <1>1, <1>2, WindowFlushed

LEMMA PartialWindow ==
    ASSUME TypeOK, TimeInv, WindowInv, window # {}, mode = "AGGREGATED"
    PROVE  Summary(TRUE, wall[clock]) \in Record /\ RecordInv(Summary(TRUE, wall[clock]))
<1>1. wall[clock] \in Nat
  BY WallFacts
<1>2. TRUE \in BOOLEAN /\ FALSE # TRUE
  OBVIOUS
<1>3. QED  BY <1>1, <1>2, WindowFlushed

\* A raw record stands for its reading.
LEMMA RawRecordFacts ==
    ASSUME TypeOK, TimeInv, mode = "RAW", NEW i \in Enqueued
    PROVE  /\ RawRecord(i) \in Record /\ RecordInv(RawRecord(i))
           /\ RawRecord(i).readings = {i}
<1>1. /\ i \in Nat /\ readings[i].mono \in Nat /\ readings[i].at \in Nat
      /\ wall[clock] \in Nat
  BY ReadingFacts, WallFacts
<1> DEFINE r == RawRecord(i)
<1>2. /\ r.id = <<"raw", i, readings[i].mono>> /\ r.at = readings[i].at
      /\ r.readings = {i} /\ r \in Record
  BY <1>1 DEF RawRecord, Record
<1> HIDE DEF r
<1>3. HasEnds({i})
  BY <1>1 DEF HasEnds
<1>4. RecordInv(r)
  BY <1>2, <1>3 DEF RecordInv, RecordOK, RawOK, TimeInv, IncludedIn, ExcludedReadings, Enqueued
<1>5. QED  BY <1>2, <1>4 DEF r

-----------------------------------------------------------------------------
(* Types                                                                    *)

\* There are finitely many readings in the queue.
LEMMA QueuedFinite ==
    ASSUME TypeOK, QueueInv
    PROVE  /\ Queued \subseteq Enqueued /\ IsFiniteSet(Queued)
           /\ Cardinality(Queued) \in Nat /\ Queued \subseteq Nat
<1>1. Len(readings) \in Nat /\ queue \in Seq(Nat) /\ DOMAIN queue = 1 .. Len(queue)
  BY LenProperties DEF TypeOK
<1>2. Queued \subseteq Enqueued
  BY <1>1 DEF Queued, QueueInv, Orderly, Enqueued, STOP
<1>3. IsFiniteSet(Enqueued)
  BY <1>1, FS_Interval DEF Enqueued
<1>4. IsFiniteSet(Queued)
  BY <1>2, <1>3, FS_Subset
<1>5. QED  BY <1>1, <1>2, <1>4, FS_CardinalityType DEF Enqueued

LEMMA NoRecordType == NoRecord \in Record /\ NoRecord.readings = {}
BY DEF NoRecord, Record

\* Counters stay counters.
LEMMA StatsFacts ==
    ASSUME NEW u \in UpstreamStats, NEW n \in Nat
    PROVE  /\ [u EXCEPT !.queueFullDrops = @ + 1] \in UpstreamStats
           /\ [u EXCEPT !.connectionAttempts = @ + 1] \in UpstreamStats
           /\ [u EXCEPT !.connectionAttempts = @ + 1, !.connectionFailures = @ + 1,
                        !.sendFailures = @ + 1] \in UpstreamStats
           /\ [u EXCEPT !.upstreamMessages = @ + 1] \in UpstreamStats
           /\ [u EXCEPT !.sendFailures = @ + 1] \in UpstreamStats
           /\ [u EXCEPT !.recordsAbandoned = @ + n] \in UpstreamStats
<1>1. /\ u.upstreamMessages + 1 \in Nat /\ u.connectionAttempts + 1 \in Nat
      /\ u.connectionFailures + 1 \in Nat /\ u.sendFailures + 1 \in Nat
      /\ u.recordsAbandoned + n \in Nat /\ u.queueFullDrops + 1 \in Nat
  BY DEF UpstreamStats
<1>2. /\ [u EXCEPT !.queueFullDrops = @ + 1] \in UpstreamStats
      /\ [u EXCEPT !.connectionAttempts = @ + 1] \in UpstreamStats
  BY <1>1 DEF UpstreamStats
<1>3. [u EXCEPT !.connectionAttempts = @ + 1, !.connectionFailures = @ + 1,
                !.sendFailures = @ + 1] \in UpstreamStats
  BY <1>1 DEF UpstreamStats
<1>4. /\ [u EXCEPT !.upstreamMessages = @ + 1] \in UpstreamStats
      /\ [u EXCEPT !.sendFailures = @ + 1] \in UpstreamStats
      /\ [u EXCEPT !.recordsAbandoned = @ + n] \in UpstreamStats
  BY <1>1 DEF UpstreamStats
<1>5. QED  BY <1>2, <1>3, <1>4

\* What the two clocks may have said when a reading was received.
LEMMA PublishedFacts ==
    ASSUME TypeOK, NEW t \in ReceiveTimes, NEW at \in PublishedTimes(t)
    PROVE  /\ t \in Nat /\ t <= clock /\ clock - MaxLag <= t
           /\ at \in Nat /\ SampledAt(at, t, wall)
<1>1. clock \in 0 .. MaxClock /\ t \in 0 .. clock /\ clock - t <= MaxLag
  BY WallFacts DEF ReceiveTimes
<1>2. PICK s \in 0 .. t : t - s <= MaxSkew /\ at = wall[s]
  BY DEF PublishedTimes
<1>3. s \in 0 .. MaxClock
  BY <1>1, <1>2, ConstantFacts
<1>4. at \in Nat
  BY <1>2, <1>3, WallFacts
<1>5. SampledAt(at, t, wall)
  BY <1>2 DEF SampledAt
<1>6. QED  BY <1>1, <1>4, <1>5, ConstantFacts

LEMMA TypeInit == Init => TypeOK
<1> SUFFICES ASSUME Init PROVE TypeOK
  OBVIOUS
<1>1. stats \in UpstreamStats
  BY DEF Init, UpstreamStats
<1>2. /\ queue \in Seq(Nat) /\ Len(queue) <= QueueSize
      /\ readings \in Seq([mono : Nat, at : Nat, duplicate : BOOLEAN])
      /\ channel \in Seq(Record) /\ received \in Seq(Record)
  BY ConstantFacts, EmptySeq DEF Init
<1>3. clock \in 0 .. MaxClock /\ wall \in Walls
  BY ConstantFacts DEF Init
<1>4. QED
  BY <1>1, <1>2, <1>3, NoRecordType DEF Init, TypeOK, WorkerStates, StopStates, ConnStates

\* A step of any kind leaves the state well-typed.
LEMMA TypeStep ==
    ASSUME TypeOK, TimeInv, QueueInv, WindowInv, [Next]_vars
    PROVE  TypeOK'
<1> USE DEF TypeOK, input, worker, stopper, report, link, output, collector, network, history
<1>1. NoRecord \in Record
  BY NoRecordType
<1>2. ASSUME NEW d \in Classified, NEW t \in ReceiveTimes,
             NEW at \in PublishedTimes(t), TrySubmitAccepts(d, t, at)
      PROVE  TypeOK'
  <2>1. [mono |-> t, at |-> at, duplicate |-> d] \in [mono : Nat, at : Nat, duplicate : BOOLEAN]
    <3>1. t \in Nat /\ at \in Nat
      BY PublishedFacts
    <3>2. QED  BY <3>1 DEF Classified
  <2>2. readings' \in Seq([mono : Nat, at : Nat, duplicate : BOOLEAN])
    BY <1>2, <2>1, AppendProperties DEF TrySubmitAccepts
  <2>3. Len(readings) + 1 \in Nat
    BY ReadingFacts
  <2>4. queue' \in Seq(Nat) /\ Len(queue') = Len(queue) + 1 /\ Len(queue) \in Nat
    BY <1>2, <2>3, AppendProperties, LenProperties DEF TrySubmitAccepts, Enqueue
  <2>5. Len(queue') <= QueueSize
    BY <1>2, <2>4, ConstantFacts DEF TrySubmitAccepts
  <2>6. QED  BY <1>2, <2>2, <2>4, <2>5 DEF TrySubmitAccepts
<1>3. ASSUME TrySubmitDrops PROVE TypeOK'
  BY <1>3, StatsFacts DEF TrySubmitDrops
<1>4. ASSUME queue # << >>, queue' = Tail(queue)
      PROVE  queue' \in Seq(Nat) /\ Len(queue') <= QueueSize /\ Head(queue) \in Nat
  <2>1. /\ queue' \in Seq(Nat) /\ Head(queue) \in Nat
        /\ Len(queue') = Len(queue) - 1 /\ Len(queue) \in Nat
    BY <1>4, HeadTailProperties, LenProperties
  <2>2. QED  BY <2>1, ConstantFacts
<1>5. ASSUME queue # << >>, Head(queue) # STOP PROVE Head(queue) \in Enqueued
  BY <1>5, QueueTaken, ReadingFacts DEF QueueInv, Enqueued
<1>6. ASSUME WorkerWaits \/ BackoffEnds PROVE TypeOK'
  BY <1>6 DEF WorkerWaits, BackoffEnds, WorkerStates
<1>7. ASSUME TakeRaw PROVE TypeOK'
  <2>1. inflight' \in Record
    BY <1>5, <1>7, RawRecordFacts DEF TakeRaw, MayTake
  <2>2. QED  BY <1>4, <1>7, <2>1 DEF TakeRaw, MayTake, WorkerStates
<1>8. ASSUME TakeReading PROVE TypeOK'
  <2>1. inflight' \in Record
    BY <1>8, FullWindow DEF TakeReading, CrossesBoundary
  <2>2. window' \in SUBSET Nat
    <3>1. Head(queue) \in Nat
      BY <1>4, <1>8 DEF TakeReading, MayTake
    <3>2. QED  BY <1>8, <3>1 DEF TakeReading
  <2>3. QED  BY <1>4, <1>8, <2>1, <2>2 DEF TakeReading, MayTake, WorkerStates
<1>9. ASSUME WindowTimeout PROVE TypeOK'
  <2>1. mode = "AGGREGATED"
    BY <1>9, ForwarderAssumption DEF WindowTimeout, WindowInv
  <2>2. inflight' \in Record
    BY <1>9, <2>1, FullWindow DEF WindowTimeout
  <2>3. QED  BY <1>9, <2>2 DEF WindowTimeout, WorkerStates
<1>10. ASSUME TakeStop PROVE TypeOK'
  <2>1. window # {} => mode = "AGGREGATED"
    BY ForwarderAssumption DEF WindowInv
  <2>2. inflight' \in Record
    BY <1>10, <2>1, PartialWindow DEF TakeStop, HasData
  <2>3. QED  BY <1>4, <1>10, <2>2 DEF TakeStop, MayTake, WorkerStates
<1>11. ASSUME WriteReused PROVE TypeOK'
  <2>1. channel' \in Seq(Record)
    BY <1>11, AppendProperties DEF WriteReused, Written
  <2>2. QED  BY <1>11, <2>1 DEF WriteReused, WorkerStates
<1>12. ASSUME ConnectAndWrite PROVE TypeOK'
  <2>1. channel' \in Seq(Record)
    BY <1>12 DEF ConnectAndWrite, Written
  <2>2. QED  BY <1>12, <2>1, StatsFacts DEF ConnectAndWrite, WorkerStates, AvailableOnConnect, ConnStates
<1>13. ASSUME ConnectFails PROVE TypeOK'
  BY <1>13, StatsFacts DEF ConnectFails, AfterFailure, WorkerStates, ConnStates
<1>14. ASSUME Drained PROVE TypeOK'
  <2>1. inflight.readings \in SUBSET Nat
    BY DEF Record
  <2>2. QED  BY <1>1, <1>14, <2>1, StatsFacts DEF Drained, WorkerStates
<1>15. ASSUME DrainFails PROVE TypeOK'
  BY <1>15, StatsFacts DEF DrainFails, AfterFailure, WorkerStates, ConnStates
<1>16. ASSUME RoomForStop, queue' = Enqueue(STOP)
       PROVE  queue' \in Seq(Nat) /\ Len(queue') <= QueueSize
  BY <1>16, AppendProperties, LenProperties, ForwarderAssumption DEF Enqueue, STOP, RoomForStop
<1>17. ASSUME StopBegins \/ StopPuts PROVE TypeOK'
  BY <1>16, <1>17 DEF StopBegins, StopPuts, StopStates
<1>18. ASSUME StopJoins \/ StopFindsDead PROVE TypeOK'
  BY <1>18 DEF StopJoins, StopFindsDead, StopStates
<1>19. ASSUME StopTimesOut PROVE TypeOK'
  <2>1. inflight.readings \in SUBSET Nat /\ Queued \subseteq Nat /\ Abandoned \in Nat
    <3> HIDE DEF TypeOK
    <3>1. Queued \subseteq Nat /\ Abandoned \in Nat
      BY QueuedFinite DEF Abandoned
    <3>2. QED  BY <3>1 DEF TypeOK, Record
  <2>2. queue' \in Seq(Nat) /\ Len(queue') <= QueueSize
    BY <1>19, ConstantFacts, EmptySeq DEF StopTimesOut
  <2>3. stats' \in UpstreamStats
    BY <1>19, <2>1, StatsFacts DEF StopTimesOut
  <2>4. QED  BY <1>1, <1>19, <2>1, <2>2, <2>3 DEF StopTimesOut, WorkerStates, StopStates
<1>20. ASSUME StopCloses PROVE TypeOK'
  BY <1>20 DEF StopCloses, StopStates, ConnStates, UnreadAfterClose
<1>21. ASSUME CollectorReads PROVE TypeOK'
  <2>1. channel' \in Seq(Record) /\ received' \in Seq(Record)
    BY <1>21, HeadTailProperties, AppendProperties DEF CollectorReads, CollectorHasLine
  <2>2. counted' \in Nat
    BY <1>21 DEF CollectorReads
  <2>3. QED  BY <1>21, <2>1, <2>2 DEF CollectorReads
<1>22. ASSUME ConnectionBreaks \/ CollectorAppendFails PROVE TypeOK'
  <2>1. channel' \in Seq(Record)
    BY <1>22, EmptySeq DEF ConnectionBreaks, CollectorAppendFails
  <2>2. outages' \in Nat /\ counted' \in Nat
    BY <1>22 DEF ConnectionBreaks, CollectorAppendFails
  <2>3. CASE ConnectionBreaks
    BY <2>1, <2>2, <2>3 DEF ConnectionBreaks, ConnStates
  <2>4. CASE CollectorAppendFails
    BY <2>1, <2>2, <2>4 DEF CollectorAppendFails, CollectorHasLine, ConnStates
  <2>5. QED  BY <1>22, <2>3, <2>4
<1>23. ASSUME BreakNoticed \/ CollectorStarts \/ CollectorStalls \/ CollectorResumes
       PROVE  TypeOK'
  <2>1. CASE BreakNoticed
    BY <2>1 DEF BreakNoticed, ConnStates
  <2>2. CASE CollectorStarts
    BY <2>2 DEF CollectorStarts
  <2>3. CASE CollectorStalls
    BY <2>3 DEF CollectorStalls
  <2>4. CASE CollectorResumes
    BY <2>4 DEF CollectorResumes
  <2>5. QED  BY <1>23, <2>1, <2>2, <2>3, <2>4
<1>24. ASSUME Tick PROVE TypeOK'
  <2>1. clock' \in 0 .. MaxClock
    BY <1>24, ConstantFacts DEF Tick
  <2>2. QED  BY <1>24, <2>1 DEF Tick
<1>25. ASSUME Terminated \/ UNCHANGED vars PROVE TypeOK'
  BY <1>25 DEF Terminated, vars
<1> HIDE DEF TypeOK
<1>26. QED
  BY <1>2, <1>3, <1>6, <1>7, <1>8, <1>9, <1>10, <1>11, <1>12, <1>13, <1>14, <1>15,
     <1>17, <1>18, <1>19, <1>20, <1>21, <1>22, <1>23, <1>24, <1>25
     DEF Next, WorkerStep, StopStep, Environment

-----------------------------------------------------------------------------
(* The readings accepted so far                                             *)

\* try_submit numbers the reading behind all others.
LEMMA AcceptFacts ==
    ASSUME TypeOK, NEW d \in Classified, NEW t \in ReceiveTimes,
             NEW at \in PublishedTimes(t), TrySubmitAccepts(d, t, at)
    PROVE  /\ Len(readings) \in Nat /\ Len(readings') = Len(readings) + 1
           /\ \A i \in 1 .. Len(readings) : readings'[i] = readings[i]
           /\ readings'[Len(readings) + 1] = [mono |-> t, at |-> at, duplicate |-> d]
           /\ Enqueued' = Enqueued \cup {Len(readings) + 1}
           /\ Len(readings) + 1 \notin Enqueued
           /\ t \in Nat /\ t <= clock /\ clock - MaxLag <= t /\ d \in BOOLEAN
           /\ at \in Nat /\ SampledAt(at, t, wall)
           /\ mode = "RAW" => ~d
           /\ ExcludedReadings' = ExcludedReadings \cup (IF d THEN {Len(readings) + 1} ELSE {})
           /\ Included \subseteq Included'
<1>1. d \in BOOLEAN /\ (mode = "RAW" => ~d)
  BY DEF Classified
<1>2. /\ t \in Nat /\ t <= clock /\ clock - MaxLag <= t
      /\ at \in Nat /\ SampledAt(at, t, wall)
  BY PublishedFacts
<1>3. /\ readings \in Seq([mono : Nat, at : Nat, duplicate : BOOLEAN])
      /\ readings' = Append(readings, [mono |-> t, at |-> at, duplicate |-> d])
      /\ [mono |-> t, at |-> at, duplicate |-> d] \in [mono : Nat, at : Nat, duplicate : BOOLEAN]
  BY <1>1, <1>2 DEF TypeOK, TrySubmitAccepts
<1>4. /\ Len(readings) \in Nat /\ Len(readings') = Len(readings) + 1
      /\ \A i \in 1 .. Len(readings) : readings'[i] = readings[i]
      /\ readings'[Len(readings) + 1] = [mono |-> t, at |-> at, duplicate |-> d]
  BY <1>3, AppendProperties, LenProperties
<1>5. Enqueued' = Enqueued \cup {Len(readings) + 1} /\ Len(readings) + 1 \notin Enqueued
  BY <1>4 DEF Enqueued
<1>6. ExcludedReadings' = ExcludedReadings \cup (IF d THEN {Len(readings) + 1} ELSE {})
  <2>1. \A i \in Enqueued : readings'[i] = readings[i]
    BY <1>4 DEF Enqueued
  <2>2. ExcludedReadings' = {i \in Enqueued' : readings'[i].duplicate}
    BY DEF ExcludedReadings
  <2>3. QED  BY <1>1, <1>4, <1>5, <2>1, <2>2 DEF ExcludedReadings
<1>7. Included \subseteq Included'
  <2>1. \A i \in 1 .. Len(readings) : i \in 1 .. Len(readings')
    BY <1>4
  <2>2. QED  BY <1>4, <2>1 DEF Included, IncludedIn
<1>8. QED  BY <1>1, <1>2, <1>4, <1>5, <1>6, <1>7

\* Whatever is known of a record stays true when more readings are accepted.
LEMMA RecordKept ==
    ASSUME NEW m, NEW rs, NEW ss, Len(rs) \in Nat, Len(ss) \in Nat, Len(rs) <= Len(ss),
           \A i \in 1 .. Len(rs) : ss[i] = rs[i],
           NEW wl, NEW r, RecordOK(r, m, rs, wl)
    PROVE  RecordOK(r, m, ss, wl)
<1>1. \A i \in 1 .. Len(rs) : i \in 1 .. Len(ss) /\ ss[i] = rs[i]
  OBVIOUS
<1>2. IncludedIn(rs) \subseteq IncludedIn(ss) /\ IncludedIn(rs) \subseteq 1 .. Len(rs)
  BY <1>1 DEF IncludedIn
<1>3. RawOK(r, rs) => RawOK(r, ss)
  BY <1>1 DEF RawOK
<1>4. \A i \in r.readings : ss[i] = rs[i]
  BY <1>1, <1>2 DEF RecordOK
<1>5. AggregateOK(r, rs, wl) => AggregateOK(r, ss, wl)
  BY <1>4 DEF AggregateOK, Anchored, EndsNow
<1>6. QED  BY <1>2, <1>3, <1>5 DEF RecordOK

\* Only try_submit adds a reading.
LEMMA OnlyAcceptAdds ==
    ASSUME TypeOK, QueueInv, [Next]_vars, ~Accepted
    PROVE  UNCHANGED <<readings, mode, wall>> /\ clock' >= clock
<1>0. clock \in Nat
  BY WallFacts
<1>1. ASSUME TakeRaw \/ TakeReading \/ WindowTimeout \/ TakeStop \/ Drained \/ StopTimesOut
      PROVE  UNCHANGED <<readings, mode, wall, clock>>
  BY <1>1 DEF TakeRaw, TakeReading, WindowTimeout, TakeStop, Drained, StopTimesOut, input
<1>2. ASSUME Quiet PROVE UNCHANGED <<readings, mode, wall>> /\ clock' >= clock
  BY <1>2 DEF Quiet
<1>3. QED  BY <1>0, <1>1, <1>2, StepKinds

\* No step forgets or changes an accepted reading, and time does not go back.
LEMMA Growth ==
    ASSUME TypeOK, QueueInv, [Next]_vars
    PROVE  /\ UNCHANGED <<mode, wall>> /\ clock' >= clock
           /\ Len(readings) \in Nat /\ Len(readings') \in Nat /\ Len(readings) <= Len(readings')
           /\ \A i \in 1 .. Len(readings) : readings'[i] = readings[i]
           /\ Included \subseteq Included' /\ Enqueued \subseteq Enqueued'
           /\ \A r : RecordOK(r, mode, readings, wall) => RecordOK(r, mode', readings', wall')
<1>0. Len(readings) \in Nat /\ clock \in Nat
  BY ReadingFacts, WallFacts
<1>1. ASSUME NEW d \in Classified, NEW t \in ReceiveTimes,
             NEW at \in PublishedTimes(t), TrySubmitAccepts(d, t, at)
      PROVE  /\ UNCHANGED <<mode, wall>> /\ clock' >= clock
             /\ Len(readings') \in Nat /\ Len(readings) <= Len(readings')
             /\ \A i \in 1 .. Len(readings) : readings'[i] = readings[i]
             /\ Included \subseteq Included'
  <2>1. mode' = mode /\ wall' = wall /\ clock' = clock
    BY <1>1 DEF TrySubmitAccepts
  <2>2. /\ Len(readings') = Len(readings) + 1 /\ Included \subseteq Included'
        /\ \A i \in 1 .. Len(readings) : readings'[i] = readings[i]
    BY <1>1, AcceptFacts
  <2>3. QED  BY <1>0, <2>1, <2>2
<1>2. ASSUME ~Accepted PROVE UNCHANGED <<readings, mode, wall>> /\ clock' >= clock
  BY <1>2, OnlyAcceptAdds
<1>3. /\ UNCHANGED <<mode, wall>> /\ clock' >= clock
      /\ Len(readings') \in Nat /\ Len(readings) <= Len(readings')
      /\ \A i \in 1 .. Len(readings) : readings'[i] = readings[i]
      /\ Included \subseteq Included'
  BY <1>0, <1>1, <1>2 DEF Accepted, Included
<1>4. Enqueued \subseteq Enqueued'
  BY <1>0, <1>3 DEF Enqueued
<1>5. QED  BY <1>0, <1>3, <1>4, RecordKept

LEMMA TimeStep ==
    ASSUME TypeOK, TypeOK', TimeInv, QueueInv, [Next]_vars
    PROVE  TimeInv'
<1>0. clock \in Nat /\ clock' \in Nat
  BY ConstantFacts DEF TypeOK
<1>1. ASSUME NEW d \in Classified, NEW t \in ReceiveTimes,
             NEW at \in PublishedTimes(t), TrySubmitAccepts(d, t, at)
      PROVE  TimeInv'
  <2> DEFINE n == Len(readings) + 1
  <2>0. clock' = clock /\ mode' = mode /\ wall' = wall /\ clock \in Nat
    BY <1>0, <1>1 DEF TrySubmitAccepts
  <2>1. /\ Enqueued' = Enqueued \cup {n} /\ n \notin Enqueued
        /\ \A i \in Enqueued : readings'[i] = readings[i] /\ i < n /\ readings[i].mono \in Nat
        /\ readings'[n].mono = t /\ readings'[n].at = at /\ n \in Nat
        /\ t \in Nat /\ t <= clock /\ clock - MaxLag <= t /\ SampledAt(at, t, wall)
        /\ mode = "RAW" => ExcludedReadings' = ExcludedReadings
    <3>1. /\ Enqueued' = Enqueued \cup {n} /\ n \notin Enqueued
          /\ \A i \in Enqueued : readings'[i] = readings[i]
          /\ readings'[n] = [mono |-> t, at |-> at, duplicate |-> d]
          /\ t \in Nat /\ t <= clock /\ clock - MaxLag <= t /\ SampledAt(at, t, wall)
      BY <1>1, AcceptFacts DEF Enqueued
    <3>2. mode = "RAW" => ExcludedReadings' = ExcludedReadings
      BY <1>1, AcceptFacts
    <3>3. n \in Nat /\ \A i \in Enqueued : i < n /\ readings[i].mono \in Nat
      BY ReadingFacts DEF Enqueued
    <3>4. QED  BY <3>1, <3>2, <3>3
  <2> HIDE DEF n
  <2>2. \A i \in Enqueued' : readings'[i].mono <= clock
    BY <2>1 DEF TimeInv
  <2>3. ASSUME NEW i \in Enqueued', NEW j \in Enqueued', i < j
        PROVE  readings'[i].mono - MaxLag <= readings'[j].mono
    <3>1. CASE j \in Enqueued
      <4>1. i \in Enqueued
        BY <2>1, <2>3, <3>1, ReadingFacts
      <4>2. QED  BY <2>1, <2>3, <3>1, <4>1 DEF TimeInv
    <3>2. CASE j = n
      <4>1. i \in Enqueued
        BY <2>1, <2>3, <3>2
      <4>2. readings'[i].mono <= clock /\ readings'[i].mono \in Nat
        BY <2>1, <2>2, <4>1
      <4>3. QED  BY <2>0, <2>1, <3>2, <4>2, ConstantFacts
    <3>3. QED  BY <2>1, <3>1, <3>2
  <2>4. \A i \in Enqueued' : SampledAt(readings'[i].at, readings'[i].mono, wall')
    BY <2>0, <2>1 DEF TimeInv
  <2>5. QED  BY <2>0, <2>1, <2>2, <2>3, <2>4 DEF TimeInv
<1>2. ASSUME ~Accepted PROVE TimeInv'
  <2>1. UNCHANGED <<readings, mode, wall>> /\ clock' >= clock
    BY <1>2, OnlyAcceptAdds
  <2>2. Enqueued' = Enqueued /\ ExcludedReadings' = ExcludedReadings
    BY <2>1 DEF Enqueued, ExcludedReadings
  <2>3. clock \in Nat /\ clock' \in Nat
    BY <1>0
  <2>4. \A i \in Enqueued : readings[i].mono <= clock'
    BY <2>1, <2>3, ReadingFacts DEF TimeInv
  <2>5. QED  BY <2>1, <2>2, <2>4 DEF TimeInv
<1>3. QED  BY <1>1, <1>2 DEF Accepted

-----------------------------------------------------------------------------
(* The queue                                                                *)

\* What queue.get() gives the worker.
LEMMA TakenFacts ==
    ASSUME TypeOK, QueueInv, queue # << >>, queue' = Tail(queue)
    PROVE  /\ Orderly(queue', Len(readings))
           /\ {queue'[k] : k \in DOMAIN queue'} \subseteq {queue[k] : k \in DOMAIN queue}
           /\ Head(queue) = STOP => queue' = << >> /\ Queued = {} /\ Queued' = {}
           /\ Head(queue) # STOP =>
                 /\ Head(queue) \in Enqueued
                 /\ Head(queue) \in Queued
                 /\ Head(queue) \notin Queued'
                 /\ Queued = Queued' \cup {Head(queue)}
                 /\ Before({Head(queue)}, Queued')
<1>1. queue \in Seq(Nat) /\ Len(readings) \in Nat /\ Orderly(queue, Len(readings))
  BY ReadingFacts DEF TypeOK, QueueInv
<1>2. /\ queue' \in Seq(Nat) /\ Len(queue') = Len(queue) - 1
      /\ Orderly(queue', Len(readings))
      /\ \A k \in 1 .. Len(queue') : queue'[k] = queue[k + 1]
      /\ Head(queue) = STOP => queue' = << >> /\ ItemsOf(queue) = {}
      /\ Head(queue) # STOP =>
            /\ Head(queue) \in 1 .. Len(readings)
            /\ Head(queue) \notin ItemsOf(queue')
            /\ ItemsOf(queue) = ItemsOf(queue') \cup {Head(queue)}
            /\ Before({Head(queue)}, ItemsOf(queue'))
  BY <1>1, QueueTaken
<1>3. {queue'[k] : k \in DOMAIN queue'} \subseteq {queue[k] : k \in DOMAIN queue}
  <2>1. DOMAIN queue = 1 .. Len(queue) /\ DOMAIN queue' = 1 .. Len(queue') /\ Len(queue) \in Nat
    BY <1>1, <1>2, LenProperties
  <2>2. \A k \in 1 .. Len(queue') : k + 1 \in 1 .. Len(queue)
    BY <1>2, <2>1
  <2>3. QED  BY <1>2, <2>1, <2>2
<1>4. Head(queue) = STOP => Queued' = {}
  <2> HAVE Head(queue) = STOP
  <2>1. queue' = << >> /\ Len(<< >>) = 0 /\ DOMAIN << >> = 1 .. Len(<< >>)
    BY <1>2, EmptySeq
  <2>2. QED  BY <2>1 DEF Queued
<1>5. QED  BY <1>2, <1>3, <1>4, QueuedIsItems DEF Enqueued

\* An accepted reading joins the end of the queue.
LEMMA JoinsQueue ==
    ASSUME TypeOK, QueueInv, NEW d \in Classified, NEW t \in ReceiveTimes,
           NEW at \in PublishedTimes(t), TrySubmitAccepts(d, t, at)
    PROVE  /\ Orderly(queue', Len(readings'))
           /\ STOP \notin {queue'[k] : k \in DOMAIN queue'}
           /\ Queued' = Queued \cup {Len(readings) + 1}
<1> DEFINE n == Len(readings)
<1>1. /\ queue \in Seq(Nat) /\ n \in Nat /\ Orderly(queue, n)
      /\ STOP \notin {queue[k] : k \in DOMAIN queue} /\ queue' = Append(queue, n + 1)
      /\ Len(readings') = n + 1
  BY ReadingFacts, AcceptFacts DEF TypeOK, QueueInv, TrySubmitAccepts, Enqueue
<1>2. n + 1 # STOP
  BY <1>1 DEF STOP
<1> HIDE DEF n
<1>3. /\ Len(queue') = Len(queue) + 1 /\ queue' \in Seq(Nat)
      /\ Orderly(queue', n + 1)
      /\ ItemsOf(queue') = ItemsOf(queue) \cup ({n + 1} \ {STOP})
      /\ \A k \in 1 .. Len(queue) : queue'[k] = queue[k]
      /\ queue'[Len(queue) + 1] = n + 1
  BY <1>1, <1>2, QueuePut
<1>4. STOP \notin {queue'[k] : k \in DOMAIN queue'}
  <2>1. DOMAIN queue = 1 .. Len(queue) /\ DOMAIN queue' = 1 .. Len(queue') /\ Len(queue) \in Nat
    BY <1>1, <1>3, LenProperties
  <2>2. \A k \in 1 .. Len(queue') : k \in 1 .. Len(queue) \/ k = Len(queue) + 1
    BY <1>3, <2>1
  <2>3. QED  BY <1>1, <1>2, <1>3, <2>1, <2>2
<1>5. QED  BY <1>1, <1>2, <1>3, <1>4, QueuedIsItems DEF n

LEMMA QueueInit == Init => QueueInv
<1> SUFFICES ASSUME Init PROVE QueueInv
  OBVIOUS
<1>1. queue = << >> /\ Len(queue) = 0 /\ DOMAIN queue = {}
  BY EmptySeq DEF Init
<1>2. QED  BY <1>1 DEF QueueInv, Orderly

LEMMA QueueStep ==
    ASSUME TypeOK, QueueInv, [Next]_vars
    PROVE  QueueInv'
<1>1. ASSUME UNCHANGED <<queue, readings>>,
             spc' \in {"idle", "putting"} => spc \in {"idle", "putting"}
      PROVE  QueueInv'
  BY <1>1 DEF QueueInv
<1>2. ASSUME NEW d \in Classified, NEW t \in ReceiveTimes,
             NEW at \in PublishedTimes(t), TrySubmitAccepts(d, t, at)
      PROVE  QueueInv'
  BY <1>2, JoinsQueue DEF QueueInv
<1>3. ASSUME TakeRaw \/ TakeReading \/ TakeStop PROVE QueueInv'
  <2>1. queue # << >> /\ queue' = Tail(queue) /\ UNCHANGED <<readings, spc>>
    BY <1>3 DEF TakeRaw, TakeReading, TakeStop, MayTake, input, stopper
  <2>2. QED  BY <2>1, TakenFacts DEF QueueInv
<1>4. ASSUME StopBegins \/ StopPuts PROVE QueueInv'
  <2>1. CASE UNCHANGED queue
    BY <1>1, <1>4, <2>1 DEF StopBegins, StopPuts, input
  <2>2. CASE queue' = Enqueue(STOP) /\ spc' = "joining"
    <3>1. /\ queue \in Seq(Nat) /\ Len(readings) \in Nat /\ Orderly(queue, Len(readings))
          /\ STOP \notin {queue[k] : k \in DOMAIN queue} /\ readings' = readings
      BY <1>4, ReadingFacts DEF TypeOK, QueueInv, StopBegins, StopPuts, input
    <3>2. Orderly(queue', Len(readings))
      BY <2>2, <3>1, QueuePut DEF Enqueue
    <3>3. QED  BY <2>2, <3>1, <3>2 DEF QueueInv
  <2>3. QED  BY <1>4, <2>1, <2>2 DEF StopBegins, StopPuts
<1>5. ASSUME StopTimesOut PROVE QueueInv'
  <2>1. queue' = << >> /\ Len(queue') = 0 /\ spc' = "closing"
    BY <1>5, EmptySeq DEF StopTimesOut
  <2>2. QED  BY <2>1 DEF QueueInv, Orderly
<1>6. ASSUME TrySubmitDrops \/ WorkerWaits \/ WindowTimeout \/ WriteReused \/ ConnectAndWrite
             \/ ConnectFails \/ Drained \/ DrainFails \/ BackoffEnds
      PROVE  QueueInv'
  BY <1>1, <1>6 DEF TrySubmitDrops, WorkerWaits, WindowTimeout, WriteReused, ConnectAndWrite,
     ConnectFails, Drained, DrainFails, BackoffEnds, input, worker, stopper
<1>7. ASSUME StopJoins \/ StopFindsDead \/ StopCloses PROVE QueueInv'
  BY <1>1, <1>7 DEF StopJoins, StopFindsDead, StopCloses, input, worker
<1>8. ASSUME Environment \/ Tick \/ Terminated \/ UNCHANGED vars PROVE QueueInv'
  BY <1>1, <1>8 DEF Environment, CollectorReads, CollectorAppendFails, ConnectionBreaks, BreakNoticed,
     CollectorStarts, CollectorStalls, CollectorResumes, Tick, Terminated, vars,
     input, worker, stopper
<1>9. QED
  BY <1>2, <1>3, <1>4, <1>5, <1>6, <1>7, <1>8 DEF Next, WorkerStep, StopStep

-----------------------------------------------------------------------------
(* The window                                                               *)

\* The reading the worker takes is newer than the window.
LEMMA TakenBehindWindow ==
    ASSUME TypeOK, QueueInv, OrderInv, MayTake, queue' = Tail(queue), Head(queue) # STOP
    PROVE  /\ Head(queue) \in Enqueued /\ Head(queue) \in Nat
           /\ \A i \in window : i < Head(queue)
           /\ Before(sent, {Head(queue)}) /\ Before(inflight.readings, {Head(queue)})
<1>1. Head(queue) \in Enqueued /\ Head(queue) \in Queued
  BY TakenFacts DEF MayTake
<1>2. QED  BY <1>1, ReadingFacts DEF OrderInv, Before

LEMMA WindowInit == Init => WindowInv
BY DEF Init, WindowInv

LEMMA WindowStep ==
    ASSUME TypeOK, TimeInv, QueueInv, WindowInv, OrderInv, [Next]_vars
    PROVE  WindowInv'
<1>0. /\ mode' = mode /\ Included \subseteq Included'
      /\ \A i \in Included : readings'[i] = readings[i]
  BY Growth DEF Included, IncludedIn
<1>1. ASSUME window' = {} PROVE WindowInv'
  BY <1>1 DEF WindowInv
<1>2. ASSUME window' = window PROVE WindowInv'
  <2>1. \A i \in window : readings'[i] = readings[i]
    BY <1>0 DEF WindowInv
  <2>2. window' # {} =>
          /\ HasEnds(window')
          /\ \A m \in window' : (\A i \in window' : m <= i) =>
                \A i \in window' : readings'[i].mono < readings'[m].mono + WindowTicks
    BY <1>2, <2>1 DEF WindowInv
  <2>3. QED  BY <1>0, <1>2, <2>2 DEF WindowInv
<1>3. ASSUME TakeReading PROVE WindowInv'
  <2> DEFINE i == Head(queue)
  <2>1. /\ readings' = readings /\ mode = "AGGREGATED" /\ MayTake /\ queue' = Tail(queue)
        /\ i # STOP /\ Included' = Included
    BY <1>3 DEF TakeReading, input, Included
  <2>2. /\ i \in Enqueued /\ i \in Nat /\ \A j \in window : j < i
        /\ readings[i].mono \in Nat
    BY <2>1, TakenBehindWindow, ReadingFacts
  <2>3. window \subseteq Nat /\ window \subseteq Included
    BY DEF WindowInv, TypeOK
  <2>4. ASSUME ~readings[i].duplicate, window' = {i} PROVE WindowInv'
    <3>1. HasEnds(window') /\ window' \subseteq Included
      BY <2>2, <2>4 DEF HasEnds, Included, IncludedIn, Enqueued
    <3>2. readings[i].mono < readings[i].mono + WindowTicks
      BY <2>2, WindowTicksPositive
    <3>3. QED  BY <1>0, <2>1, <2>4, <3>1, <3>2 DEF WindowInv
  <2>5. ASSUME ~readings[i].duplicate, ~CrossesBoundary(i), window' = window \cup {i},
               window # {}
        PROVE  WindowInv'
    <3>1. PICK m \in window :
              /\ \A k \in window : m <= k
              /\ readings[m].mono \in Nat /\ Deadline = readings[m].mono + WindowTicks
              /\ Deadline \in Nat
      BY <2>5, WindowFirst
    <3>2. i \in Included /\ m \in Nat /\ m < i
      BY <2>2, <2>3, <2>5 DEF Included, IncludedIn, Enqueued
    <3>3. \A k \in window' : m <= k /\ k <= i
      BY <2>2, <2>3, <2>5, <3>1, <3>2
    <3>4. HasEnds(window')
      BY <2>5, <3>3 DEF HasEnds
    <3>5. \A k \in window' : readings[k].mono < readings[m].mono + WindowTicks
      BY <2>2, <2>5, <3>1 DEF WindowInv, CrossesBoundary
    <3>6. \A k \in window' : (\A j \in window' : k <= j) => k = m
      BY <2>3, <2>5, <3>2, <3>3
    <3>7. QED  BY <1>0, <2>1, <2>3, <2>5, <3>2, <3>4, <3>5, <3>6 DEF WindowInv
  <2>6. CASE window = {}
    BY <1>2, <1>3, <2>4, <2>6 DEF TakeReading
  <2>7. CASE window # {}
    BY <1>2, <1>3, <2>4, <2>5, <2>7 DEF TakeReading
  <2>8. QED  BY <2>6, <2>7
<1>4. ASSUME ~TakeReading PROVE window' = window \/ window' = {}
  <2>1. Accepted => window' = window
    BY DEF Accepted, TrySubmitAccepts
  <2>2. TakeRaw \/ Drained \/ Quiet => window' = window
    BY DEF TakeRaw, Drained, Quiet
  <2>3. WindowTimeout \/ TakeStop \/ StopTimesOut => window' = window \/ window' = {}
    BY DEF WindowTimeout, TakeStop, StopTimesOut
  <2>4. QED  BY <1>4, <2>1, <2>2, <2>3, StepKinds
<1>5. QED  BY <1>1, <1>2, <1>3, <1>4
-----------------------------------------------------------------------------
(* The order of acceptance                                                  *)

LEMMA OrderInit == Init => OrderInv
<1> SUFFICES ASSUME Init PROVE OrderInv
  OBVIOUS
<1>1. queue = << >> /\ DOMAIN queue = {}
  BY EmptySeq DEF Init
<1>2. Queued = {}
  BY <1>1 DEF Queued
<1>3. QED  BY <1>2, NoRecordType DEF Init, OrderInv, Before

\* What moves stays in the order of acceptance.
LEMMA OrderStep ==
    ASSUME TypeOK, TimeInv, QueueInv, WindowInv, ControlInv, OrderInv, [Next]_vars
    PROVE  OrderInv'
<1>0. /\ Included \subseteq Included' /\ Enqueued \subseteq Enqueued'
      /\ Queued \subseteq Enqueued /\ window \subseteq Enqueued
      /\ Included \subseteq Enqueued
      /\ \A i \in Enqueued : i \in Nat
  BY Growth, QueuedFinite, ReadingFacts DEF Included, IncludedIn, Enqueued, WindowInv
<1>a. inflight.readings \subseteq Included
  BY NoRecordType DEF ControlInv, RecordInv, RecordOK, Included
<1>1. ASSUME NEW d \in Classified, NEW t \in ReceiveTimes,
             NEW at \in PublishedTimes(t), TrySubmitAccepts(d, t, at)
      PROVE  OrderInv'
  <2> DEFINE n == Len(readings) + 1
  <2>1. Queued' = Queued \cup {n} /\ \A i \in Enqueued : i < n
    BY <1>1, JoinsQueue, ReadingFacts DEF Enqueued
  <2>2. UNCHANGED <<window, inflight, sent, abandoned>>
    BY <1>1 DEF TrySubmitAccepts, history
  <2> HIDE DEF n
  <2>3. \A S : S \subseteq Enqueued /\ Before(S, Queued) => Before(S, Queued')
    BY <2>1 DEF Before
  <2>4. QED  BY <1>0, <1>a, <2>2, <2>3 DEF OrderInv
<1>2. ASSUME Quiet PROVE OrderInv'
  BY <1>0, <1>2 DEF Quiet, OrderInv
<1>3. ASSUME TakeRaw PROVE OrderInv'
  <2> DEFINE i == Head(queue)
  <2>1. /\ UNCHANGED <<window, sent, abandoned>> /\ MayTake /\ queue' = Tail(queue)
        /\ queue # << >> /\ i # STOP /\ window = {} /\ inflight' = RawRecord(i) /\ mode = "RAW"
    BY <1>3 DEF TakeRaw, MayTake, history, WindowInv
  <2>2. Queued' \subseteq Queued /\ Before({i}, Queued') /\ i \in Enqueued
    BY <2>1, TakenFacts
  <2>3. inflight'.readings = {i}
    BY <2>1, <2>2, RawRecordFacts
  <2>4. Before(sent, {i})
    BY <2>1, TakenBehindWindow
  <2> HIDE DEF i
  <2>5. QED  BY <1>0, <2>1, <2>2, <2>3, <2>4 DEF OrderInv, Before
<1>4. ASSUME TakeReading PROVE OrderInv'
  <2> DEFINE i == Head(queue)
  <2>1. /\ UNCHANGED <<sent, abandoned>> /\ MayTake /\ queue' = Tail(queue)
        /\ queue # << >> /\ i # STOP /\ wpc \in {"get", "wait"}
    BY <1>4 DEF TakeReading, MayTake, history
  <2>2. /\ Queued' \subseteq Queued /\ Before({i}, Queued') /\ i \in Enqueued
        /\ i \in Queued
    BY <2>1, TakenFacts
  <2>3. /\ \A j \in window : j < i
        /\ Before(sent, {i}) /\ Before(inflight.readings, {i})
    BY <2>1, TakenBehindWindow
  <2>4. inflight.readings = {}
    BY <2>1, NoRecordType DEF ControlInv, Carrying, Sending
  <2>5. \/ UNCHANGED <<window, inflight>>
        \/ window' = window \cup {i} /\ UNCHANGED inflight
        \/ inflight'.readings = window /\ window' = {i}
    BY <1>4 DEF TakeReading, Summary
  <2> HIDE DEF i
  <2>6. CASE UNCHANGED <<window, inflight>>
    BY <1>0, <2>1, <2>2, <2>6 DEF OrderInv, Before
  <2>7. CASE window' = window \cup {i} /\ UNCHANGED inflight
    BY <1>0, <2>1, <2>2, <2>3, <2>4, <2>7 DEF OrderInv, Before
  <2>8. CASE inflight'.readings = window /\ window' = {i}
    BY <1>0, <2>1, <2>2, <2>3, <2>8 DEF OrderInv, Before
  <2>9. QED  BY <2>5, <2>6, <2>7, <2>8
<1>5. ASSUME WindowTimeout PROVE OrderInv'
  <2>1. /\ UNCHANGED <<sent, abandoned, queue>> /\ inflight'.readings = window /\ window' = {}
    BY <1>5 DEF WindowTimeout, history, Summary
  <2>2. Queued' = Queued
    BY <2>1 DEF Queued
  <2>3. QED  BY <1>0, <2>1, <2>2 DEF OrderInv, Before
<1>6. ASSUME TakeStop PROVE OrderInv'
  <2>1. /\ UNCHANGED <<sent, abandoned>> /\ queue' = Tail(queue) /\ queue # << >>
        /\ Head(queue) = STOP
        /\ \/ UNCHANGED <<window, inflight>>
           \/ inflight'.readings = window /\ window' = {}
    BY <1>6 DEF TakeStop, MayTake, history, Summary
  <2>2. Queued' = {}
    BY <2>1, TakenFacts
  <2>3. QED  BY <1>0, <2>1, <2>2 DEF OrderInv, Before
<1>7. ASSUME Drained PROVE OrderInv'
  <2>1. /\ UNCHANGED <<queue, window, abandoned>> /\ sent' = sent \cup inflight.readings
        /\ inflight'.readings = {} /\ wpc = "drain"
    BY <1>7, NoRecordType DEF Drained
  <2>2. Queued' = Queued
    BY <2>1 DEF Queued
  <2>3. abandoned = {}
    BY <2>1 DEF ControlInv
  <2>4. QED  BY <1>0, <1>a, <2>1, <2>2, <2>3 DEF OrderInv, Before
<1>8. ASSUME StopTimesOut PROVE OrderInv'
  <2>1. /\ sent' = sent /\ abandoned' = Queued \cup inflight.readings
        /\ queue' = << >> /\ window' = {} /\ inflight'.readings = {}
    BY <1>8, NoRecordType DEF StopTimesOut
  <2>2. Queued' = {}
    BY <2>1, EmptySeq DEF Queued
  <2>3. QED  BY <1>0, <1>a, <2>1, <2>2 DEF OrderInv, Before
<1>9. QED
  BY <1>1, <1>2, <1>3, <1>4, <1>5, <1>6, <1>7, <1>8, StepKinds DEF Accepted

-----------------------------------------------------------------------------
(* Nothing disappears                                                       *)

LEMMA PlaceInit == Init => PlaceInv
<1> SUFFICES ASSUME Init PROVE PlaceInv
  OBVIOUS
<1>1. /\ queue = << >> /\ readings = << >> /\ DOMAIN << >> = {} /\ Len(<< >>) = 0
      /\ inflight.readings = {}
  BY EmptySeq, NoRecordType DEF Init
<1>2. Queued = {} /\ Enqueued = {} /\ ExcludedReadings = {}
  BY <1>1 DEF Queued, Enqueued, ExcludedReadings
<1>3. QED  BY <1>1, <1>2 DEF Init, PlaceInv

\* Every step of the worker moves readings from one place to the next.
LEMMA PlaceStep ==
    ASSUME TypeOK, TimeInv, QueueInv, WindowInv, ControlInv, OrderInv, PlaceInv, [Next]_vars
    PROVE  PlaceInv'
<1>0. ASSUME ~Accepted PROVE Enqueued' = Enqueued /\ ExcludedReadings' = ExcludedReadings
  BY <1>0, OnlyAcceptAdds DEF Enqueued, ExcludedReadings
<1>1. ASSUME NEW d \in Classified, NEW t \in ReceiveTimes,
             NEW at \in PublishedTimes(t), TrySubmitAccepts(d, t, at)
      PROVE  PlaceInv'
  <2> DEFINE n == Len(readings) + 1
  <2>1. /\ Queued' = Queued \cup {n} /\ Enqueued' = Enqueued \cup {n}
    BY <1>1, JoinsQueue, AcceptFacts
  <2>2. ExcludedReadings' = ExcludedReadings \cup (IF d THEN {n} ELSE {})
    BY <1>1, AcceptFacts
  <2>3. UNCHANGED <<window, inflight, sent, cancelled>>
    BY <1>1 DEF TrySubmitAccepts, history, stopper
  <2> HIDE DEF n
  <2>4. QED  BY <2>1, <2>2, <2>3 DEF PlaceInv
<1>2. ASSUME Quiet, ~Accepted PROVE PlaceInv'
  BY <1>0, <1>2 DEF Quiet, PlaceInv
<1>3. ASSUME TakeRaw, ~Accepted PROVE PlaceInv'
  <2> DEFINE i == Head(queue)
  <2>1. /\ UNCHANGED <<window, sent, cancelled>> /\ MayTake /\ queue' = Tail(queue)
        /\ queue # << >> /\ i # STOP /\ inflight' = RawRecord(i) /\ mode = "RAW"
        /\ wpc \in {"get", "wait"}
    BY <1>3 DEF TakeRaw, MayTake, history, stopper
  <2>2. Queued = Queued' \cup {i} /\ i \in Enqueued
    BY <2>1, TakenFacts
  <2>3. inflight'.readings = {i} /\ inflight.readings = {}
    BY <2>1, <2>2, RawRecordFacts, NoRecordType DEF ControlInv, Carrying, Sending
  <2> HIDE DEF i
  <2>4. QED  BY <1>0, <1>3, <2>1, <2>2, <2>3 DEF PlaceInv
<1>4. ASSUME TakeReading, ~Accepted PROVE PlaceInv'
  <2> DEFINE i == Head(queue)
  <2>1. /\ UNCHANGED <<sent, cancelled>> /\ MayTake /\ queue' = Tail(queue)
        /\ queue # << >> /\ i # STOP /\ wpc \in {"get", "wait"}
    BY <1>4 DEF TakeReading, MayTake, history, stopper
  <2>2. Queued = Queued' \cup {i} /\ i \in Enqueued
    BY <2>1, TakenFacts
  <2>3. inflight.readings = {}
    BY <2>1, NoRecordType DEF ControlInv, Carrying, Sending
  <2>4. \/ UNCHANGED <<window, inflight>> /\ i \in ExcludedReadings
        \/ window' = window \cup {i} /\ UNCHANGED inflight
        \/ inflight'.readings = window /\ window' = {i}
    BY <1>4, <2>2 DEF TakeReading, Summary, ExcludedReadings
  <2> HIDE DEF i
  <2>5. QED  BY <1>0, <1>4, <2>1, <2>2, <2>3, <2>4 DEF PlaceInv
<1>5. ASSUME WindowTimeout, ~Accepted PROVE PlaceInv'
  <2>1. /\ UNCHANGED <<sent, cancelled, queue>> /\ inflight'.readings = window /\ window' = {}
        /\ wpc \in {"get", "wait"}
    BY <1>5 DEF WindowTimeout, history, Summary, stopper
  <2>2. Queued' = Queued
    BY <2>1 DEF Queued
  <2>3. inflight.readings = {}
    BY <2>1, NoRecordType DEF ControlInv, Carrying, Sending
  <2>4. QED  BY <1>0, <1>5, <2>1, <2>2, <2>3 DEF PlaceInv
<1>6. ASSUME TakeStop, ~Accepted PROVE PlaceInv'
  <2>1. /\ UNCHANGED <<sent, cancelled>> /\ queue' = Tail(queue) /\ queue # << >>
        /\ Head(queue) = STOP /\ wpc \in {"get", "wait"}
        /\ \/ UNCHANGED <<window, inflight>>
           \/ inflight'.readings = window /\ window' = {}
    BY <1>6 DEF TakeStop, MayTake, history, Summary, stopper
  <2>2. Queued' = {} /\ Queued = {}
    BY <2>1, TakenFacts
  <2>3. inflight.readings = {}
    BY <2>1, NoRecordType DEF ControlInv, Carrying, Sending
  <2>4. QED  BY <1>0, <1>6, <2>1, <2>2, <2>3 DEF PlaceInv
<1>7. ASSUME Drained, ~Accepted PROVE PlaceInv'
  <2>1. /\ UNCHANGED <<queue, window, cancelled>> /\ sent' = sent \cup inflight.readings
        /\ inflight'.readings = {}
    BY <1>7, NoRecordType DEF Drained, stopper
  <2>2. Queued' = Queued
    BY <2>1 DEF Queued
  <2>3. QED  BY <1>0, <1>7, <2>1, <2>2 DEF PlaceInv
<1>8. ASSUME StopTimesOut PROVE PlaceInv'
  BY <1>8 DEF StopTimesOut, PlaceInv
<1>9. QED
  BY <1>1, <1>2, <1>3, <1>4, <1>5, <1>6, <1>7, <1>8, StepKinds DEF Accepted
-----------------------------------------------------------------------------
(* The worker and stop()                                                    *)

LEMMA ControlInit == Init => ControlInv
BY DEF Init, ControlInv, Carrying, Sending

LEMMA ControlStep ==
    ASSUME TypeOK, TimeInv, QueueInv, WindowInv, ControlInv, [Next]_vars
    PROVE  ControlInv'
<1>0. /\ \A r : RecordInv(r) => RecordOK(r, mode', readings', wall')
      /\ window # {} => mode = "AGGREGATED"
      /\ stats \in UpstreamStats /\ stats.recordsAbandoned \in Nat
  BY Growth, ConstantFacts DEF RecordInv, WindowInv, TypeOK, UpstreamStats
<1>1. ASSUME UNCHANGED <<inflight, last, wpc, queue, window, cancelled, abandoned>>,
             stats'.recordsAbandoned = stats.recordsAbandoned,
             spc' = spc, conn' = "closed" => conn = "closed"
      PROVE  ControlInv'
  BY <1>0, <1>1 DEF ControlInv, Carrying, RecordInv
<1>2. ASSUME NEW d \in Classified, NEW t \in ReceiveTimes,
             NEW at \in PublishedTimes(t), TrySubmitAccepts(d, t, at)
      PROVE  ControlInv'
  <2>1. /\ UNCHANGED <<inflight, last, wpc, spc, window, cancelled, abandoned, stats, conn>>
        /\ spc = "idle"
    BY <1>2 DEF TrySubmitAccepts, stopper, history, report, network, link
  <2>2. QED  BY <1>0, <2>1 DEF ControlInv, Carrying, RecordInv
<1>3. ASSUME TrySubmitDrops PROVE ControlInv'
  BY <1>0, <1>1, <1>3 DEF TrySubmitDrops, stopper, history, network, link, worker, UpstreamStats
<1>4. ASSUME WorkerWaits PROVE ControlInv'
  <2>1. /\ UNCHANGED <<inflight, last, spc, window, queue, cancelled, abandoned, stats, conn>>
        /\ wpc = "get" /\ wpc' = "wait"
    BY <1>4 DEF WorkerWaits, stopper, history, report, network, link
  <2>2. QED  BY <2>1 DEF ControlInv, Carrying, Sending
<1>5. ASSUME TakeRaw PROVE ControlInv'
  <2>1. /\ UNCHANGED <<last, spc, window, cancelled, abandoned, stats, conn>>
        /\ wpc \in {"get", "wait"} /\ wpc' = "send" /\ inflight' = RawRecord(Head(queue))
        /\ queue # << >> /\ queue' = Tail(queue) /\ Head(queue) # STOP /\ mode = "RAW"
    BY <1>5 DEF TakeRaw, MayTake, stopper, history, report, network, link
  <2>2. RecordInv(inflight')
    BY <2>1, TakenFacts, RawRecordFacts
  <2>3. QED  BY <1>0, <2>1, <2>2 DEF ControlInv, Carrying, Sending, RecordInv
<1>6. ASSUME TakeReading PROVE ControlInv'
  <2>1. /\ UNCHANGED <<last, spc, cancelled, abandoned, stats, conn>>
        /\ wpc \in {"get", "wait"}
        /\ \/ wpc' = "get" /\ UNCHANGED inflight
           \/ wpc' = "send" /\ inflight' = Summary(FALSE, PlannedEnd) /\ window # {}
    BY <1>6 DEF TakeReading, MayTake, CrossesBoundary, stopper, history, report, network, link
  <2>2. CASE wpc' = "get" /\ UNCHANGED inflight
    BY <2>1, <2>2 DEF ControlInv, Carrying, Sending
  <2>3. CASE wpc' = "send" /\ inflight' = Summary(FALSE, PlannedEnd) /\ window # {}
    <3>1. RecordInv(inflight')
      BY <1>0, <2>3, FullWindow
    <3>2. QED  BY <1>0, <2>1, <2>3, <3>1 DEF ControlInv, Carrying, Sending, RecordInv
  <2>4. QED  BY <2>1, <2>2, <2>3
<1>7. ASSUME WindowTimeout PROVE ControlInv'
  <2>1. /\ UNCHANGED <<last, spc, queue, cancelled, abandoned, stats, conn>>
        /\ wpc \in {"get", "wait"} /\ wpc' = "send" /\ window' = {}
        /\ inflight' = Summary(FALSE, PlannedEnd) /\ window # {}
    BY <1>7 DEF WindowTimeout, stopper, history, report, network, link
  <2>2. RecordInv(inflight')
    BY <1>0, <2>1, FullWindow
  <2>3. QED  BY <1>0, <2>1, <2>2 DEF ControlInv, Carrying, Sending, RecordInv
<1>8. ASSUME TakeStop PROVE ControlInv'
  <2>1. /\ UNCHANGED <<spc, cancelled, abandoned, stats, conn>>
        /\ wpc \in {"get", "wait"} /\ queue # << >> /\ queue' = Tail(queue)
        /\ Head(queue) = STOP
    BY <1>8 DEF TakeStop, MayTake, stopper, history, report, network, link
  <2>2. \/ window = {} /\ wpc' = "done" /\ UNCHANGED <<window, inflight, last>>
        \/ /\ window # {} /\ inflight' = Summary(TRUE, wall[clock]) /\ window' = {}
           /\ last' = TRUE /\ wpc' = "send"
    BY <1>8 DEF TakeStop, HasData
  <2>3. queue' = << >>
    BY <2>1, TakenFacts
  <2>4. spc \notin {"idle", "putting"}
    <3>1. 1 \in DOMAIN queue /\ queue[1] = STOP
      BY <2>1, LenProperties, EmptySeq DEF TypeOK
    <3>2. QED  BY <3>1 DEF QueueInv
  <2>5. window # {} => RecordInv(Summary(TRUE, wall[clock]))
    BY <1>0, PartialWindow
  <2>6. CASE window = {} /\ wpc' = "done" /\ UNCHANGED <<window, inflight, last>>
    BY <2>1, <2>3, <2>4, <2>6 DEF ControlInv, Carrying, Sending
  <2>7. CASE window # {} /\ inflight' = Summary(TRUE, wall[clock]) /\ window' = {}
             /\ last' = TRUE /\ wpc' = "send"
    <3>1. RecordOK(inflight', mode', readings', wall')
      BY <1>0, <2>5, <2>7
    <3>2. QED  BY <2>1, <2>3, <2>4, <2>7, <3>1 DEF ControlInv, Carrying, Sending, RecordInv
  <2>8. QED  BY <2>2, <2>6, <2>7
<1>9. ASSUME WriteReused \/ ConnectAndWrite \/ ConnectFails \/ DrainFails \/ BackoffEnds
      PROVE  ControlInv'
  <2>1. /\ UNCHANGED <<inflight, last, spc, window, queue, cancelled, abandoned>>
        /\ wpc \in Sending /\ wpc' \in Sending \cup {"died"}
        /\ conn' = "closed" => conn = "closed"
    BY <1>9 DEF WriteReused, ConnectAndWrite, ConnectFails, DrainFails, BackoffEnds,
       AfterFailure, Sending, stopper, history, network, link
  <2>2. WriteReused \/ BackoffEnds => stats' = stats
    BY DEF WriteReused, BackoffEnds, report
  <2>3. ConnectAndWrite \/ ConnectFails \/ DrainFails =>
           stats'.recordsAbandoned = stats.recordsAbandoned
    BY <1>0 DEF ConnectAndWrite, ConnectFails, DrainFails, UpstreamStats
  <2>4. QED  BY <1>0, <1>9, <2>1, <2>2, <2>3 DEF ControlInv, Carrying, Sending, RecordInv
<1>10. ASSUME Drained PROVE ControlInv'
  <2>1. /\ UNCHANGED <<last, spc, window, queue, cancelled, abandoned, conn>>
        /\ wpc = "drain" /\ wpc' = (IF last THEN "done" ELSE "get") /\ inflight' = NoRecord
        /\ stats'.recordsAbandoned = stats.recordsAbandoned
    BY <1>0, <1>10 DEF Drained, stopper, network, link, UpstreamStats
  <2>2. QED  BY <2>1 DEF ControlInv, Carrying, Sending, TypeOK
<1>11. ASSUME StopBegins \/ StopPuts PROVE ControlInv'
  <2>1. /\ UNCHANGED <<inflight, last, wpc, window, cancelled, abandoned, stats, conn>>
        /\ spc \in {"idle", "putting"} /\ spc' \in {"putting", "joining"}
    BY <1>11 DEF StopBegins, StopPuts, history, report, network, link
  <2>2. QED  BY <1>0, <2>1 DEF ControlInv, Carrying, RecordInv
<1>12. ASSUME StopJoins \/ StopFindsDead \/ StopCloses PROVE ControlInv'
  <2>1. /\ UNCHANGED <<inflight, last, wpc, queue, window, cancelled, abandoned, stats>>
        /\ spc \in {"putting", "joining", "closing"}
        /\ spc' \in {"closing", "stopped", "raised"}
        /\ spc' \in {"closing", "stopped"} => wpc = "done" \/ spc = "closing"
        /\ conn' = "closed" => conn = "closed" \/ spc' = "stopped"
    BY <1>12 DEF StopJoins, StopFindsDead, StopCloses, history, report, network, link, worker
  <2>2. QED  BY <1>0, <2>1 DEF ControlInv, Carrying, RecordInv
<1>13. ASSUME StopTimesOut PROVE ControlInv'
  <2>1. Abandoned \in Nat /\ Abandoned > 0
    BY QueuedFinite DEF Abandoned
  <2>2. stats'.recordsAbandoned = stats.recordsAbandoned + Abandoned
    BY <1>0, <1>13 DEF StopTimesOut, UpstreamStats
  <2>3. stats'.recordsAbandoned > 0
    BY <1>0, <2>1, <2>2
  <2>4. /\ UNCHANGED <<last, conn>> /\ queue' = << >> /\ window' = {} /\ inflight' = NoRecord
        /\ wpc' = "done" /\ spc' = "closing" /\ cancelled' = TRUE
        /\ wpc \in Sending /\ spc \in {"putting", "joining"}
    BY <1>13 DEF StopTimesOut, network, link
  <2>5. QED  BY <2>3, <2>4 DEF ControlInv, Carrying, Sending
<1>14. ASSUME Environment \/ Tick \/ Terminated \/ UNCHANGED vars PROVE ControlInv'
  <2>1. /\ UNCHANGED <<inflight, last, wpc, queue, window, cancelled, abandoned, stats, spc>>
        /\ conn' = "closed" => conn = "closed"
    BY <1>14 DEF Environment, CollectorReads, CollectorAppendFails, ConnectionBreaks, BreakNoticed,
       CollectorStarts, CollectorStalls, CollectorResumes, Tick, Terminated, vars,
       worker, stopper, history, report, network, link
  <2>2. QED  BY <1>1, <2>1
<1>15. QED
  BY <1>2, <1>3, <1>4, <1>5, <1>6, <1>7, <1>8, <1>9, <1>10, <1>11, <1>12, <1>13, <1>14
     DEF Next, WorkerStep, StopStep

-----------------------------------------------------------------------------
(* The wire                                                                 *)

\* Every step keeps an initial part of the wire and adds at most the record
\* being sent.
WireStepped(n) ==
    /\ \A k \in 1 .. n : Wire'[k] = Wire[k]
    /\ \/ Len(Wire') = n
       \/ /\ Len(Wire') = n + 1 /\ Wire'[n + 1] = inflight
          /\ wpc = "send" /\ wpc' = "drain" /\ Quiet

\* Two parts that follow each other.
LEMMA Spliced ==
    ASSUME NEW S, NEW a \in Seq(S), NEW b \in Seq(S)
    PROVE  /\ a \o b \in Seq(S) /\ Len(a) \in Nat /\ Len(b) \in Nat
           /\ Len(a \o b) = Len(a) + Len(b)
           /\ \A k \in 1 .. Len(a) : (a \o b)[k] = a[k]
           /\ \A k \in 1 .. Len(b) : (a \o b)[Len(a) + k] = b[k]
<1>1. /\ a \o b \in Seq(S) /\ Len(a) \in Nat /\ Len(b) \in Nat
      /\ Len(a \o b) = Len(a) + Len(b)
      /\ \A i \in 1 .. Len(a) + Len(b) :
            (a \o b)[i] = IF i <= Len(a) THEN a[i] ELSE b[i - Len(a)]
  BY ConcatProperties, LenProperties
<1>2. \A k \in 1 .. Len(a) : k \in 1 .. Len(a) + Len(b) /\ k <= Len(a)
  BY <1>1
<1>3. ASSUME NEW k \in 1 .. Len(b) PROVE (a \o b)[Len(a) + k] = b[k]
  <2>1. /\ Len(a) + k \in 1 .. Len(a) + Len(b) /\ ~(Len(a) + k <= Len(a))
        /\ (Len(a) + k) - Len(a) = k
    BY <1>1
  <2>2. QED  BY <1>1, <2>1
<1>4. QED  BY <1>1, <1>2, <1>3

LEMMA WireFacts ==
    ASSUME TypeOK
    PROVE  /\ Wire \in Seq(Record) /\ Len(received) \in Nat /\ Len(channel) \in Nat
           /\ Len(Wire) = Len(received) + Len(channel) /\ Len(Wire) \in Nat
           /\ DOMAIN Wire = 1 .. Len(Wire)
           /\ \A k \in 1 .. Len(received) : Wire[k] = received[k]
           /\ \A k \in 1 .. Len(channel) : Wire[Len(received) + k] = channel[k]
BY Spliced, LenProperties DEF TypeOK, Wire

LEMMA WireRecords ==
    ASSUME TypeOK
    PROVE  /\ DOMAIN Wire = 1 .. Len(Wire)
           /\ \A k \in 1 .. Len(Wire) : Wire[k] \in Record /\ Wire[k].readings \in SUBSET Nat
<1>1. Wire \in Seq(Record) /\ DOMAIN Wire = 1 .. Len(Wire)
  BY WireFacts
<1>2. \A k \in 1 .. Len(Wire) : Wire[k] \in Record
  BY <1>1, ElementOfSeq
<1>3. \A r \in Record : r.readings \in SUBSET Nat
  BY DEF Record
<1>4. QED  BY <1>1, <1>2, <1>3

\* Reading the next line moves it from the channel to the file.
LEMMA ReadKeepsWire ==
    ASSUME TypeOK, CollectorReads
    PROVE  Wire' = Wire
<1> DEFINE h == << Head(channel) >>
<1>1. /\ received \in Seq(Record) /\ channel \in Seq(Record) /\ channel # << >>
      /\ received' = Append(received, Head(channel)) /\ channel' = Tail(channel)
  BY DEF TypeOK, CollectorReads, CollectorHasLine
<1>2. /\ Head(channel) \in Record /\ Tail(channel) \in Seq(Record)
      /\ Len(Tail(channel)) = Len(channel) - 1 /\ Len(channel) \in Nat \ {0}
      /\ \A i \in 1 .. Len(Tail(channel)) : Tail(channel)[i] = channel[i + 1]
      /\ Head(channel) = channel[1]
  BY <1>1, HeadTailProperties, EmptySeq
<1>3. h \in Seq(Record) /\ Len(h) = 1 /\ h[1] = Head(channel)
  BY <1>2
<1>4. received' = received \o h
  BY <1>1, <1>2, AppendIsConcat
<1> HIDE DEF h
<1>5. channel = h \o Tail(channel)
  <2> DEFINE c == h \o Tail(channel)
  <2>1. /\ c \in Seq(Record) /\ Len(c) = Len(channel) /\ 1 \in 1 .. 1 /\ c[1] = channel[1]
        /\ \A k \in 1 .. Len(Tail(channel)) : c[1 + k] = Tail(channel)[k]
    <3>1. h \in Seq(Record) /\ Tail(channel) \in Seq(Record)
      BY <1>2, <1>3
    <3>2. /\ c \in Seq(Record) /\ Len(c) = Len(h) + Len(Tail(channel))
          /\ \A k \in 1 .. Len(h) : c[k] = h[k]
          /\ \A k \in 1 .. Len(Tail(channel)) : c[Len(h) + k] = Tail(channel)[k]
      BY ONLY <3>1, Spliced
    <3> HIDE DEF c
    <3>3. 1 \in 1 .. 1 /\ c[1] = channel[1]
      BY <1>2, <1>3, <3>2
    <3>4. Len(c) = Len(channel)
      BY <1>2, <1>3, <3>2
    <3>5. QED  BY <1>3, <3>2, <3>3, <3>4
  <2> HIDE DEF c
  <2>2. ASSUME NEW i \in 1 .. Len(channel) PROVE channel[i] = c[i]
    <3>1. CASE i = 1
      BY <2>1, <3>1
    <3>2. CASE i # 1
      <4>1. i - 1 \in 1 .. Len(Tail(channel)) /\ 1 + (i - 1) = i /\ (i - 1) + 1 = i
        BY <1>2, <3>2
      <4>2. QED  BY <1>2, <2>1, <4>1
    <3>3. QED  BY <3>1, <3>2
  <2>3. channel = c
    BY <1>1, <2>1, <2>2, SeqEqual
  <2>4. QED  BY <2>3 DEF c
<1>6. (received \o h) \o Tail(channel) = received \o (h \o Tail(channel))
  <2>1. received \in Seq(Record) /\ h \in Seq(Record) /\ Tail(channel) \in Seq(Record)
    BY <1>1, <1>2, <1>3
  <2>2. \A x, y, z \in Seq(Record) : (x \o y) \o z = x \o (y \o z)
    BY ConcatAssociative
  <2>3. QED  BY ONLY <2>1, <2>2, Zenon
<1>7. QED  BY <1>1, <1>4, <1>5, <1>6 DEF Wire

\* A record written to an open connection is the last on the wire.
LEMMA WriteAppends ==
    ASSUME TypeOK, received' = received, channel' = Append(channel, inflight)
    PROVE  Wire' = Append(Wire, inflight)
<1>1. /\ received \in Seq(Record) /\ channel \in Seq(Record) /\ inflight \in Record
      /\ << inflight >> \in Seq(Record)
  BY DEF TypeOK
<1>2. Append(channel, inflight) = channel \o << inflight >>
  BY <1>1, AppendIsConcat
<1>3. received \o (channel \o << inflight >>) = (received \o channel) \o << inflight >>
  BY <1>1, ConcatAssociative
<1>4. received \o channel \in Seq(Record)
  BY <1>1, ConcatProperties
<1>5. (received \o channel) \o << inflight >> = Append(received \o channel, inflight)
  BY <1>1, <1>4, AppendIsConcat
<1>6. QED  BY <1>2, <1>3, <1>5 DEF Wire

LEMMA WireKinds ==
    ASSUME TypeOK, TypeOK', QueueInv, [Next]_vars
    PROVE  \E n \in 0 .. Len(Wire) : WireStepped(n)
<1>0. /\ Len(Wire) \in Nat /\ Len(received) \in Nat /\ Len(channel) \in Nat
      /\ Len(Wire) = Len(received) + Len(channel)
      /\ \A k \in 1 .. Len(received) : Wire[k] = received[k]
  BY WireFacts
<1>1. ASSUME Wire' = Wire PROVE \E n \in 0 .. Len(Wire) : WireStepped(n)
  <2>1. WireStepped(Len(Wire))
    BY <1>1 DEF WireStepped
  <2>2. QED  BY <1>0, <2>1
<1>2. ASSUME UNCHANGED <<received, channel>> PROVE Wire' = Wire
  BY <1>2 DEF Wire
<1>3. ASSUME WriteReused PROVE \E n \in 0 .. Len(Wire) : WireStepped(n)
  <2>1. CASE conn = "open"
    <3>1. /\ received' = received /\ channel' = Append(channel, inflight)
          /\ wpc = "send" /\ wpc' = "drain"
      BY <1>3, <2>1 DEF WriteReused, Written
    <3>2. Wire' = Append(Wire, inflight)
      BY <3>1, WriteAppends
    <3>3. Quiet
      <4>1. clock \in Nat
        BY WallFacts
      <4>2. QED  BY <1>3, <4>1 DEF WriteReused, Quiet, history, Queued, input, stopper,
                    report, Sending
    <3>4. /\ Len(Wire') = Len(Wire) + 1 /\ Wire'[Len(Wire) + 1] = inflight
          /\ \A k \in 1 .. Len(Wire) : Wire'[k] = Wire[k]
      BY <3>2, WireFacts, AppendProperties DEF TypeOK
    <3>5. WireStepped(Len(Wire))
      BY <3>1, <3>3, <3>4 DEF WireStepped
    <3>6. QED  BY <1>0, <3>5
  <2>2. CASE conn # "open"
    BY <1>1, <1>2, <1>3, <2>2 DEF WriteReused
  <2>3. QED  BY <2>1, <2>2
<1>4. ASSUME ConnectAndWrite PROVE \E n \in 0 .. Len(Wire) : WireStepped(n)
  <2>1. /\ received' = received /\ channel' = << inflight >>
        /\ wpc = "send" /\ wpc' = "drain"
    BY <1>4 DEF ConnectAndWrite, Written
  <2>2. Quiet
    <3>1. clock \in Nat /\ stats \in UpstreamStats
      BY WallFacts DEF TypeOK
    <3>2. QED  BY <1>4, <3>1 DEF ConnectAndWrite, Quiet, history, Queued, input, stopper,
                  Sending, UpstreamStats
  <2>3. /\ received \in Seq(Record) /\ << inflight >> \in Seq(Record)
        /\ Len(<< inflight >>) = 1 /\ << inflight >>[1] = inflight /\ 1 \in 1 .. 1
    BY DEF TypeOK
  <2>4. /\ Len(Wire') = Len(received) + 1 /\ Wire'[Len(received) + 1] = inflight
        /\ \A k \in 1 .. Len(received) : Wire'[k] = received[k]
    BY <2>1, <2>3, Spliced DEF Wire
  <2>5. WireStepped(Len(received))
    BY <1>0, <2>1, <2>2, <2>4 DEF WireStepped
  <2>6. QED  BY <1>0, <2>5
<1>5. ASSUME ConnectionBreaks \/ CollectorAppendFails
      PROVE  \E n \in 0 .. Len(Wire) : WireStepped(n)
  <2>1. received' = received /\ channel' = << >> /\ received \in Seq(Record)
    BY <1>5 DEF ConnectionBreaks, CollectorAppendFails, TypeOK
  <2>2. Wire' = received
    BY <2>1, ConcatEmptySeq DEF Wire
  <2>3. WireStepped(Len(received))
    BY <1>0, <2>2 DEF WireStepped
  <2>4. QED  BY <1>0, <2>3
<1>6. ASSUME Accepted \/ TrySubmitDrops \/ WorkerWaits \/ TakeRaw \/ TakeReading \/ WindowTimeout
             \/ TakeStop \/ ConnectFails \/ Drained \/ DrainFails \/ BackoffEnds
      PROVE  UNCHANGED <<received, channel>>
  BY <1>6 DEF Accepted, TrySubmitAccepts, TrySubmitDrops, WorkerWaits, TakeRaw, TakeReading,
     WindowTimeout, TakeStop, ConnectFails, Drained, DrainFails, BackoffEnds, network, link
<1>7. ASSUME StopBegins \/ StopStep PROVE UNCHANGED <<received, channel>>
  BY <1>7 DEF StopBegins, StopStep, StopPuts, StopJoins, StopTimesOut, StopFindsDead,
     StopCloses, UnreadAfterClose, network, link
<1>8. ASSUME BreakNoticed \/ CollectorStarts \/ CollectorStalls \/ CollectorResumes
             \/ Tick \/ Terminated \/ UNCHANGED vars
      PROVE  UNCHANGED <<received, channel>>
  BY <1>8 DEF BreakNoticed, CollectorStarts, CollectorStalls, CollectorResumes, Tick,
     Terminated, vars, network, link
<1>9. QED
  BY <1>1, <1>2, <1>3, <1>4, <1>5, <1>6, <1>7, <1>8, ReadKeepsWire
     DEF Next, WorkerStep, Environment, Accepted

\* A record that is on its way stays on its way, whatever moves.
LEMMA WayKept ==
    ASSUME TypeOK, TimeInv, QueueInv, WindowInv, ControlInv, OrderInv, [Next]_vars,
           NEW r, OnWay(r, mode, readings, wall, inflight, cancelled, sent, window, Queued)
    PROVE  OnWay(r, mode', readings', wall', inflight', cancelled', sent', window', Queued')
<1>0. RecordOK(r, mode', readings', wall')
  BY Growth DEF OnWay
<1>a. r.readings \subseteq Enqueued /\ r.readings # {}
  BY DEF OnWay, RecordOK, IncludedIn, Enqueued, HasEnds
<1>1. ASSUME NEW d \in Classified, NEW t \in ReceiveTimes,
             NEW at \in PublishedTimes(t), TrySubmitAccepts(d, t, at)
      PROVE  Before(r.readings, Queued') /\ UNCHANGED <<inflight, window, sent, cancelled>>
  <2> DEFINE n == Len(readings) + 1
  <2>1. Queued' = Queued \cup {n} /\ \A i \in Enqueued : i < n
    BY <1>1, JoinsQueue, ReadingFacts DEF Enqueued
  <2>2. UNCHANGED <<inflight, window, sent, cancelled>>
    BY <1>1 DEF TrySubmitAccepts, history, stopper
  <2> HIDE DEF n
  <2>3. QED  BY <1>a, <2>1, <2>2 DEF OnWay, Before
<1>2. ASSUME wpc \in {"get", "wait"} PROVE r # inflight /\ (cancelled = TRUE \/ r.readings \subseteq sent)
  BY <1>2, <1>a, NoRecordType DEF OnWay, ControlInv, Carrying, Sending
<1>3. ASSUME TakeRaw
      PROVE  OnWay(r, mode', readings', wall', inflight', cancelled', sent', window', Queued')
  <2> DEFINE i == Head(queue)
  <2>1. /\ UNCHANGED <<window, sent, cancelled>> /\ MayTake /\ queue' = Tail(queue)
        /\ queue # << >> /\ i # STOP /\ inflight' = RawRecord(i) /\ mode = "RAW"
        /\ wpc \in {"get", "wait"}
    BY <1>3 DEF TakeRaw, MayTake, history, stopper
  <2>2. Queued = Queued' \cup {i} /\ i \in Enqueued
    BY <2>1, TakenFacts
  <2>3. inflight'.readings = {i}
    BY <2>1, <2>2, RawRecordFacts
  <2> HIDE DEF i
  <2>4. QED  BY <1>0, <1>2, <2>1, <2>2, <2>3 DEF OnWay, Before
<1>4. ASSUME TakeReading
      PROVE  OnWay(r, mode', readings', wall', inflight', cancelled', sent', window', Queued')
  <2> DEFINE i == Head(queue)
  <2>1. /\ UNCHANGED <<sent, cancelled>> /\ MayTake /\ queue' = Tail(queue)
        /\ queue # << >> /\ i # STOP /\ wpc \in {"get", "wait"}
    BY <1>4 DEF TakeReading, MayTake, history, stopper
  <2>2. Queued = Queued' \cup {i} /\ i \in Enqueued
    BY <2>1, TakenFacts
  <2>3. \/ UNCHANGED <<window, inflight>>
        \/ window' = window \cup {i} /\ UNCHANGED inflight
        \/ inflight'.readings = window /\ window' = {i}
    BY <1>4, <2>2 DEF TakeReading, Summary
  <2> HIDE DEF i
  <2>4. QED  BY <1>0, <1>2, <2>1, <2>2, <2>3 DEF OnWay, Before
<1>5. ASSUME WindowTimeout
      PROVE  OnWay(r, mode', readings', wall', inflight', cancelled', sent', window', Queued')
  <2>1. /\ UNCHANGED <<sent, cancelled, queue>> /\ inflight'.readings = window /\ window' = {}
        /\ wpc \in {"get", "wait"}
    BY <1>5 DEF WindowTimeout, history, Summary, stopper
  <2>2. Queued' = Queued
    BY <2>1 DEF Queued
  <2>3. QED  BY <1>0, <1>2, <2>1, <2>2 DEF OnWay, Before
<1>6. ASSUME TakeStop
      PROVE  OnWay(r, mode', readings', wall', inflight', cancelled', sent', window', Queued')
  <2>1. /\ UNCHANGED <<sent, cancelled>> /\ queue' = Tail(queue) /\ queue # << >>
        /\ Head(queue) = STOP /\ wpc \in {"get", "wait"}
        /\ \/ UNCHANGED <<window, inflight>>
           \/ inflight'.readings = window /\ window' = {}
    BY <1>6 DEF TakeStop, MayTake, history, Summary, stopper
  <2>2. Queued' = {}
    BY <2>1, TakenFacts
  <2>3. QED  BY <1>0, <1>2, <2>1, <2>2 DEF OnWay, Before
<1>7. ASSUME Drained
      PROVE  OnWay(r, mode', readings', wall', inflight', cancelled', sent', window', Queued')
  <2>1. /\ UNCHANGED <<queue, window, cancelled>> /\ sent' = sent \cup inflight.readings
        /\ inflight'.readings = {}
    BY <1>7, NoRecordType DEF Drained, stopper
  <2>2. Queued' = Queued
    BY <2>1 DEF Queued
  <2>3. QED  BY <1>0, <2>1, <2>2 DEF OnWay, Before
<1>8. ASSUME StopTimesOut
      PROVE  OnWay(r, mode', readings', wall', inflight', cancelled', sent', window', Queued')
  <2>1. /\ queue' = << >> /\ window' = {} /\ inflight'.readings = {} /\ cancelled' = TRUE
    BY <1>8, NoRecordType DEF StopTimesOut
  <2>2. Queued' = {}
    BY <2>1, EmptySeq DEF Queued
  <2>3. QED  BY <1>0, <2>1, <2>2 DEF OnWay, Before
<1>9. ASSUME Quiet
      PROVE  OnWay(r, mode', readings', wall', inflight', cancelled', sent', window', Queued')
  BY <1>0, <1>9 DEF Quiet, OnWay
<1>10. ASSUME Accepted
       PROVE  OnWay(r, mode', readings', wall', inflight', cancelled', sent', window', Queued')
  <2>1. Before(r.readings, Queued') /\ UNCHANGED <<inflight, window, sent, cancelled>>
    BY <1>1, <1>10 DEF Accepted
  <2>2. QED  BY <1>0, <2>1 DEF OnWay
<1>11. QED
  BY <1>3, <1>4, <1>5, <1>6, <1>7, <1>8, <1>9, <1>10, StepKinds

LEMMA WireInit == Init => WireInv
<1> SUFFICES ASSUME Init PROVE WireInv
  OBVIOUS
<1>1. received = << >> /\ channel = << >> /\ << >> \in Seq(Record) /\ Len(<< >>) = 0
  BY EmptySeq DEF Init
<1>2. Len(Wire) = 0
  BY <1>1, Spliced DEF Wire
<1>3. QED  BY <1>2 DEF WireInv

LEMMA WireStep ==
    ASSUME TypeOK, TypeOK', TimeInv, QueueInv, WindowInv, ControlInv, OrderInv, WireInv, [Next]_vars
    PROVE  WireInv'
<1> DEFINE Way(r) == OnWay(r, mode', readings', wall', inflight', cancelled', sent', window', Queued')
<1>1. PICK n \in 0 .. Len(Wire) : WireStepped(n)
  BY WireKinds
<1>2. /\ Len(Wire) \in Nat /\ n \in Nat /\ \A k \in 1 .. n : k \in 1 .. Len(Wire)
  BY WireFacts
<1>3. \A k \in 1 .. n : Wire'[k] = Wire[k] /\ Way(Wire[k])
  BY <1>1, <1>2, WayKept DEF WireInv, WireStepped
<1>4. \A j, k \in 1 .. n :
         j < k => Wire'[j] = Wire'[k] \/ Before(Wire'[j].readings, Wire'[k].readings)
  BY <1>2, <1>3 DEF WireInv
<1>5. CASE Len(Wire') = n
  BY <1>3, <1>4, <1>5 DEF WireInv
<1>6. CASE Len(Wire') = n + 1 /\ Wire'[n + 1] = inflight /\ wpc = "send" /\ Quiet
  <2>1. Way(inflight)
    <3>1. RecordOK(inflight, mode', readings', wall')
      BY <1>6, Growth DEF ControlInv, Carrying, Sending, RecordInv
    <3>2. Before(inflight.readings, window) /\ Before(inflight.readings, Queued)
      BY DEF OrderInv
    <3>3. inflight' = inflight /\ window' = window /\ Queued' = Queued
      BY <1>6 DEF Quiet
    <3>4. QED  BY <3>1, <3>2, <3>3 DEF OnWay
  <2>2. \A k \in 1 .. n : Wire'[k] = inflight \/ Before(Wire'[k].readings, inflight.readings)
    BY <1>2, <1>3 DEF WireInv, OnWay
  <2>3. \A k \in 1 .. n + 1 : k \in 1 .. n \/ k = n + 1
    BY <1>2
  <2>4. \A k \in 1 .. n + 1 : Way(Wire'[k])
    BY <1>3, <1>6, <2>1, <2>3
  <2>5. ASSUME NEW j \in 1 .. n + 1, NEW k \in 1 .. n + 1, j < k
        PROVE  Wire'[j] = Wire'[k] \/ Before(Wire'[j].readings, Wire'[k].readings)
    <3>1. j \in 1 .. n
      BY <1>2, <2>5
    <3>2. CASE k \in 1 .. n
      BY <1>4, <2>5, <3>1, <3>2
    <3>3. CASE k = n + 1
      BY <1>6, <2>2, <3>1, <3>3
    <3>4. QED  BY <2>3, <3>2, <3>3
  <2>6. QED  BY <1>6, <2>4, <2>5 DEF WireInv
<1>7. QED  BY <1>1, <1>5, <1>6 DEF WireStepped

-----------------------------------------------------------------------------
(* The invariant and what follows from it                                   *)

LEMMA IInvInit == Init => IInv
<1> SUFFICES ASSUME Init PROVE IInv
  OBVIOUS
<1>1. Enqueued = {}
  BY EmptySeq DEF Init, Enqueued
<1>2. TimeInv
  BY <1>1 DEF TimeInv, ExcludedReadings
<1>3. QED
  BY <1>2, TypeInit, QueueInit, WindowInit, ControlInit, OrderInit, PlaceInit, WireInit DEF IInv

LEMMA IInvStep == ASSUME IInv, [Next]_vars PROVE IInv'
<1> USE DEF IInv
<1>1. TypeOK'
  BY TypeStep
<1>2. QED
  BY <1>1, TimeStep, QueueStep, WindowStep, ControlStep, OrderStep, PlaceStep, WireStep

\* The forwarder always is in a state its invariant describes: readings pass in
\* the order of acceptance, nothing disappears, and the wire holds only the
\* record being sent and older ones.
THEOREM ForwarderInvariant == Spec => []IInv
<1>1. IInv /\ UNCHANGED vars => IInv'
  BY IInvStep
<1>2. IInv /\ [Next]_vars => IInv'
  BY IInvStep
<1>3. QED  BY IInvInit, <1>2, PTL DEF Spec

\* The forwarder's state stays well-typed and its queue within queue_size.
THEOREM ForwarderTypes == Spec => []TypeOK
<1>1. IInv => TypeOK
  BY DEF IInv
<1>2. QED  BY <1>1, ForwarderInvariant, PTL

\* At rest nothing is queued, in the window or in the worker's hands.
LEMMA DoneIsEmpty ==
    ASSUME IInv, wpc = "done"
    PROVE  Queued = {} /\ window = {} /\ inflight.readings = {}
<1>1. queue = << >> /\ window = {} /\ inflight = NoRecord
  BY DEF IInv, ControlInv, Carrying, Sending
<1>2. Queued = {}
  BY <1>1, EmptySeq DEF Queued
<1>3. QED  BY <1>1, <1>2, NoRecordType

\* A reading is in one place at a time and none disappears while stop() has not
\* cancelled the worker (try_submit, the worker's loops, _send_record, stop).
THEOREM Conservation == Spec => []ReadingsConserved
<1>1. ASSUME IInv PROVE ReadingsConserved
  <2>1. abandoned = {} \/ wpc = "done"
    BY <1>1 DEF IInv, ControlInv, TypeOK
  <2>2. /\ Queued \subseteq Nat /\ window \subseteq Nat /\ inflight.readings \subseteq Nat
        /\ sent \subseteq Nat /\ abandoned \subseteq Nat
    BY <1>1, QueuedFinite DEF IInv, TypeOK, Record
  <2>3. \A A, B : A \subseteq Nat /\ B \subseteq Nat /\ Before(A, B) => A \cap B = {}
    BY DEF Before
  <2>4. /\ sent \cap abandoned = {} /\ sent \cap inflight.readings = {}
        /\ sent \cap window = {} /\ sent \cap Queued = {}
        /\ inflight.readings \cap window = {} /\ inflight.readings \cap Queued = {}
        /\ window \cap Queued = {}
    BY <1>1, <2>2, <2>3 DEF IInv, OrderInv
  <2>5. /\ abandoned \cap Queued = {} /\ abandoned \cap window = {}
        /\ abandoned \cap inflight.readings = {}
    BY <1>1, <2>1, DoneIsEmpty
  <2> DEFINE place == <<Queued, window, inflight.readings, sent, abandoned>>
  <2>6. /\ DOMAIN place = 1 .. 5
        /\ place[1] = Queued /\ place[2] = window /\ place[3] = inflight.readings
        /\ place[4] = sent /\ place[5] = abandoned
    OBVIOUS
  <2>7. \A k \in 1 .. 5 : k = 1 \/ k = 2 \/ k = 3 \/ k = 4 \/ k = 5
    OBVIOUS
  <2> HIDE DEF place
  <2>8. \A j, k \in DOMAIN place : j # k => place[j] \cap place[k] = {}
    BY <2>4, <2>5, <2>6, <2>7
  <2>9. UNION {place[k] : k \in DOMAIN place}
           = Queued \cup window \cup inflight.readings \cup sent \cup abandoned
    BY <2>6, <2>7
  <2>10. ~cancelled => Enqueued = ExcludedReadings \cup UNION {place[k] : k \in DOMAIN place}
    BY <1>1, <2>9 DEF IInv, PlaceInv, ControlInv
  <2>11. QED  BY <2>8, <2>10 DEF ReadingsConserved, place
<1>2. QED  BY <1>1, ForwarderInvariant, PTL

\* A stop() that was not cut short has sent everything that was accepted.
THEOREM GracefulStop == Spec => []GracefulStopSendsAll
<1>1. ASSUME IInv, spc = "stopped", ~cancelled
      PROVE  sent = Enqueued \ ExcludedReadings
  <2>1. wpc = "done"
    BY <1>1 DEF IInv, ControlInv
  <2>2. Enqueued = ExcludedReadings \cup sent
    BY <1>1, <2>1, DoneIsEmpty DEF IInv, PlaceInv
  <2>3. sent \cap ExcludedReadings = {}
    BY <1>1 DEF IInv, OrderInv, Included, IncludedIn, ExcludedReadings
  <2>4. QED  BY <2>2, <2>3
<1>2. IInv => GracefulStopSendsAll
  BY <1>1 DEF GracefulStopSendsAll
<1>3. QED  BY <1>2, ForwarderInvariant, PTL

\* The collector sees readings in the order they were accepted, through
\* failures, retries and windows.
THEOREM WireInOrder == Spec => []OrderPreserved
<1>1. ASSUME IInv PROVE OrderPreserved
  <2>0. DOMAIN Wire = 1 .. Len(Wire) /\ \A k \in 1 .. Len(Wire) : Wire[k].readings \in SUBSET Nat
    BY <1>1, WireRecords DEF IInv
  <2>1. SUFFICES ASSUME NEW j \in 1 .. Len(Wire), NEW k \in 1 .. Len(Wire), j < k,
                        Wire[j] # Wire[k]
                 PROVE  Max(Wire[j].readings) < Min(Wire[k].readings)
    BY <2>0 DEF OrderPreserved
  <2>2. Before(Wire[j].readings, Wire[k].readings)
    BY <1>1, <2>1 DEF IInv, WireInv
  <2>3. HasEnds(Wire[j].readings) /\ HasEnds(Wire[k].readings)
    BY <1>1 DEF IInv, WireInv, OnWay, RecordOK
  <2>4. PICK a \in Wire[j].readings : \A i \in Wire[j].readings : i <= a
    BY <2>3 DEF HasEnds
  <2>5. PICK b \in Wire[k].readings : \A i \in Wire[k].readings : b <= i
    BY <2>3 DEF HasEnds
  <2>6. Max(Wire[j].readings) = a
    BY <2>0, <2>4, MaxIs
  <2>7. Min(Wire[k].readings) = b
    BY <2>0, <2>5, MinIs
  <2>8. QED  BY <2>2, <2>6, <2>7 DEF Before
<1>2. QED  BY <1>1, ForwarderInvariant, PTL

\* A steady wall clock advances no more than the monotonic one and the rounding.
LEMMA SteadyAdvance ==
    ASSUME TypeOK, Steady, NEW s \in 0 .. MaxClock, NEW t \in 0 .. MaxClock,
           NEW n \in Nat, t - s <= n
    PROVE  Within(wall[t] - wall[s], n)
<1>0. /\ wall[s] \in Nat /\ wall[t] \in Nat /\ TicksPerMs \in Nat /\ TicksPerMs > 0
      /\ s \in Nat /\ t \in Nat
  BY WallFacts, ConstantFacts
<1>1. CASE s <= t
  <2>1. Within(wall[t] - wall[s], t - s)
    BY <1>1 DEF Steady
  <2> DEFINE x == TicksPerMs * ((wall[t] - wall[s]) - 1)
  <2>2. x \in Int /\ x < t - s
    BY <1>0, <2>1 DEF Within
  <2> HIDE DEF x
  <2>3. x < n
    BY <1>0, <2>2
  <2>4. QED  BY <2>3 DEF Within, x
<1>2. CASE t < s
  <2>1. wall[t] <= wall[s]
    BY <1>0, <1>2 DEF Steady
  <2>2. \A a \in Nat, b \in Int : a > 0 /\ b < 0 => a * b < 0 /\ a * b \in Int
    OBVIOUS
  <2>3. (wall[t] - wall[s]) - 1 \in Int /\ (wall[t] - wall[s]) - 1 < 0
    BY <1>0, <2>1
  <2> DEFINE x == TicksPerMs * ((wall[t] - wall[s]) - 1)
  <2>4. x \in Int /\ x < 0
    BY <1>0, <2>2, <2>3
  <2> HIDE DEF x
  <2>5. x < n
    BY <2>4
  <2>6. QED  BY <2>5 DEF Within, x
<1>3. QED  BY <1>0, <1>1, <1>2

\* How far a window's published bounds are from the published times of its
\* readings, its first reading m among them.
LEMMA SteadyWindow ==
    ASSUME TypeOK, TimeInv, Steady, NEW S \in SUBSET Enqueued,
           NEW m \in S, NEW i \in S, Anchored(S, m, readings)
    PROVE  /\ Within(readings[m].at - readings[i].at, MaxLag + MaxSkew)
           /\ Within(readings[i].at - (readings[m].at + Window), MaxSkew)
<1>1. /\ readings[m].mono \in 0 .. MaxClock /\ readings[i].mono \in 0 .. MaxClock
      /\ readings[m].at \in Nat /\ readings[i].at \in Nat
  <2>1. /\ readings[m].mono \in Nat /\ readings[i].mono \in Nat
        /\ readings[m].at \in Nat /\ readings[i].at \in Nat
        /\ clock \in 0 .. MaxClock
    BY ReadingFacts, WallFacts
  <2>2. readings[m].mono <= clock /\ readings[i].mono <= clock
    BY DEF TimeInv
  <2>3. QED  BY <2>1, <2>2, ConstantFacts
<1>2. /\ readings[m].mono - MaxLag <= readings[i].mono
      /\ readings[i].mono < readings[m].mono + WindowTicks
  BY DEF Anchored
<1>3. PICK s \in 0 .. readings[m].mono :
         readings[m].mono - s <= MaxSkew /\ readings[m].at = wall[s]
  BY DEF TimeInv, SampledAt
<1>4. PICK t \in 0 .. readings[i].mono :
         readings[i].mono - t <= MaxSkew /\ readings[i].at = wall[t]
  BY DEF TimeInv, SampledAt
<1>5. s \in 0 .. MaxClock /\ t \in 0 .. MaxClock
  BY <1>1, <1>3, <1>4, ConstantFacts
<1>6. Within(readings[m].at - readings[i].at, MaxLag + MaxSkew)
  <2>1. MaxLag + MaxSkew \in Nat /\ s - t <= MaxLag + MaxSkew
    BY <1>1, <1>2, <1>3, <1>4, ConstantFacts
  <2>2. Within(wall[s] - wall[t], MaxLag + MaxSkew)
    BY <1>5, <2>1, SteadyAdvance
  <2>3. QED  BY <1>3, <1>4, <2>2
<1>7. Within(readings[i].at - (readings[m].at + Window), MaxSkew)
  <2>1. WindowTicks + MaxSkew \in Nat /\ t - s <= WindowTicks + MaxSkew
    BY <1>1, <1>2, <1>3, <1>4, ConstantFacts, WindowTicksPositive
  <2>2. Within(wall[t] - wall[s], WindowTicks + MaxSkew)
    BY <1>5, <2>1, SteadyAdvance
  <2>3. \A a, w \in Nat, d \in Int : a * ((d - w) - 1) = a * (d - 1) - w * a
    OBVIOUS
  <2>4. /\ readings[i].at - (readings[m].at + Window) = (wall[t] - wall[s]) - Window
        /\ wall[t] - wall[s] \in Int
    BY <1>1, <1>3, <1>4, ConstantFacts
  <2> DEFINE x == TicksPerMs * ((wall[t] - wall[s]) - 1)
  <2>5. TicksPerMs * (((wall[t] - wall[s]) - Window) - 1) = x - WindowTicks
    BY <2>3, <2>4, ConstantFacts DEF WindowTicks
  <2>6. x < WindowTicks + MaxSkew /\ x \in Int
    BY <2>2, <2>4, ConstantFacts DEF Within
  <2> HIDE DEF x
  <2>7. x - WindowTicks < MaxSkew
    BY <2>6, ConstantFacts, WindowTicksPositive
  <2>8. QED  BY <2>4, <2>5, <2>7 DEF Within
<1>8. QED  BY <1>6, <1>7

\* Every aggregate's bounds fit its readings, however late the worker comes and
\* whatever the retries (WindowAggregator.add, flush and _aggregation_timeout):
\* on the monotonic clock always and exactly, on the published one up to the
\* rounding and the skew, unless the wall clock is set.
THEOREM WindowsCover == Spec => []WindowCoversReadings
<1>1. ASSUME IInv PROVE WindowCoversReadings
  <2>0. DOMAIN Wire = 1 .. Len(Wire) /\ \A k \in 1 .. Len(Wire) : Wire[k] \in Record
    BY <1>1, WireRecords DEF IInv
  <2>1. SUFFICES ASSUME NEW k \in 1 .. Len(Wire), Wire[k].id[1] = "aggregate"
        PROVE  LET r == Wire[k]
                   first == readings[Min(r.readings)]
               IN  /\ r.id[2] = first.at
                   /\ ~r.partial => r.id[3] = r.id[2] + Window
                   /\ \A i \in r.readings :
                         /\ first.mono - MaxLag <= readings[i].mono
                         /\ readings[i].mono < first.mono + WindowTicks
                         /\ Steady =>
                               /\ Within(r.id[2] - readings[i].at, MaxLag + MaxSkew)
                               /\ IF r.partial THEN readings[i].at <= r.id[3]
                                  ELSE Within(readings[i].at - r.id[3], MaxSkew)
    BY <2>0 DEF WindowCoversReadings
  <2>2. PICK r : r = Wire[k]
    OBVIOUS
  <2>3. RecordOK(r, mode, readings, wall)
    BY <1>1, <2>2 DEF IInv, WireInv, OnWay
  <2>4. mode # "RAW"
    BY <2>1, <2>2, <2>3 DEF RecordOK, RawOK
  <2>5. AggregateOK(r, readings, wall)
    BY <1>1, <2>3, <2>4, ConstantFacts DEF IInv, TypeOK, RecordOK
  <2>6. /\ r.readings \in SUBSET Nat /\ r.partial \in BOOLEAN /\ r.readings \subseteq Enqueued
    BY <2>0, <2>2, <2>3 DEF Record, RecordOK, IncludedIn, Enqueued
  <2>7. PICK m \in r.readings : \A i \in r.readings : m <= i
    BY <2>3 DEF RecordOK, HasEnds
  <2>8. Min(r.readings) = m
    BY <2>6, <2>7, MinIs
  <2>9. r.id[2] = readings[m].at /\ Anchored(r.readings, m, readings)
    BY <2>5, <2>7 DEF AggregateOK
  <2>10. ~r.partial => r.id[3] = r.id[2] + Window
    BY <2>5, <2>6 DEF AggregateOK
  <2>11. \A i \in r.readings : /\ readings[m].mono - MaxLag <= readings[i].mono
                              /\ readings[i].mono < readings[m].mono + WindowTicks
    BY <2>9 DEF Anchored
  <2>12. ASSUME Steady, NEW i \in r.readings
         PROVE  /\ Within(r.id[2] - readings[i].at, MaxLag + MaxSkew)
                /\ IF r.partial THEN readings[i].at <= r.id[3]
                   ELSE Within(readings[i].at - r.id[3], MaxSkew)
    <3>1. /\ Within(readings[m].at - readings[i].at, MaxLag + MaxSkew)
          /\ Within(readings[i].at - (readings[m].at + Window), MaxSkew)
      BY <1>1, <2>6, <2>9, <2>12, SteadyWindow DEF IInv
    <3>2. ASSUME r.partial = TRUE PROVE readings[i].at <= r.id[3]
      <4>1. PICK c \in 0 .. MaxClock : r.id[3] = wall[c] /\ readings[i].mono <= c
        BY <2>5, <3>2 DEF AggregateOK, EndsNow
      <4>2. PICK t \in 0 .. readings[i].mono : readings[i].at = wall[t]
        BY <1>1, <2>6 DEF IInv, TimeInv, SampledAt
      <4>3. readings[i].mono \in Nat
        BY <1>1, <2>6, ReadingFacts DEF IInv
      <4>4. t \in 0 .. MaxClock /\ t <= c
        BY <4>1, <4>2, <4>3, ConstantFacts
      <4>5. QED  BY <2>12, <4>1, <4>2, <4>4 DEF Steady
    <3>3. CASE r.partial = TRUE
      BY <2>9, <3>1, <3>2, <3>3
    <3>4. CASE r.partial = FALSE
      <4>1. r.id[3] = readings[m].at + Window
        BY <2>9, <2>10, <3>4
      <4>2. QED  BY <2>9, <3>1, <3>4, <4>1
    <3>5. QED  BY <2>6, <3>3, <3>4
  <2>13. QED  BY <2>2, <2>8, <2>9, <2>10, <2>11, <2>12
<1>2. QED  BY <1>1, ForwarderInvariant, PTL

\* In RAW mode a record_id belongs to one record.
LEMMA SameIdSameRecord ==
    ASSUME IInv, mode = "RAW",
           NEW j \in 1 .. Len(Wire), NEW k \in 1 .. Len(Wire), Wire[j].id = Wire[k].id
    PROVE  Wire[j] = Wire[k]
<1>1. RawOK(Wire[j], readings) /\ RawOK(Wire[k], readings)
  BY DEF IInv, WireInv, OnWay, RecordOK
<1>2. PICK a \in 1 .. Len(readings) :
         Wire[j].readings = {a} /\ Wire[j].id = <<"raw", a, readings[a].mono>>
  BY <1>1 DEF RawOK
<1>3. PICK b \in 1 .. Len(readings) :
         Wire[k].readings = {b} /\ Wire[k].id = <<"raw", b, readings[b].mono>>
  BY <1>1 DEF RawOK
<1>4. a = b /\ a \in Nat
  <2>1. <<"raw", a, readings[a].mono>> = <<"raw", b, readings[b].mono>>
    BY <1>2, <1>3
  <2>2. QED  BY <2>1
<1>5. ~Before({a}, {a})
  BY <1>4 DEF Before
<1>6. Len(Wire) \in Nat
  BY WireFacts DEF IInv
<1>7. j < k \/ k < j \/ j = k
  BY <1>6
<1>8. QED  BY <1>2, <1>3, <1>4, <1>5, <1>7 DEF IInv, WireInv

\* In RAW mode two records with one record_id are the same record, so that
\* the analysis may drop one of them.
THEOREM RawIdsUnique == Spec => []RetransmissionsIdentical
<1>1. IInv => RetransmissionsIdentical
  BY SameIdSameRecord, WireFacts DEF RetransmissionsIdentical, RecordIdsUnique, IInv
<1>2. QED  BY <1>1, ForwarderInvariant, PTL

-----------------------------------------------------------------------------
(* RAW mode's counters                                                      *)

\* In RAW mode the record being sent stands for one reading.
LEMMA CarriesOne ==
    ASSUME IInv, mode = "RAW", wpc \in Sending
    PROVE  Cardinality(inflight.readings) = 1
<1>1. RawOK(inflight, readings)
  BY DEF IInv, ControlInv, Carrying, RecordInv, RecordOK
<1>2. PICK i : inflight.readings = {i}
  BY <1>1 DEF RawOK
<1>3. QED  BY <1>2, FS_Singleton

LEMMA AccountingStep ==
    ASSUME IInv, RawAccounting, [Next]_vars
    PROVE  RawAccounting'
<1> SUFFICES ASSUME mode' = "RAW"
             PROVE  Len(readings') = Cardinality(Queued') + Cardinality(inflight'.readings)
                                     + stats'.upstreamMessages + stats'.recordsAbandoned
  BY DEF RawAccounting
<1>0. /\ mode = "RAW" /\ window = {}
      /\ IsFiniteSet(Queued) /\ Cardinality(Queued) \in Nat
      /\ stats \in UpstreamStats
      /\ stats.upstreamMessages \in Nat /\ stats.recordsAbandoned \in Nat
      /\ Len(readings) \in Nat
      /\ Len(readings) = Cardinality(Queued) + Cardinality(inflight.readings)
                         + stats.upstreamMessages + stats.recordsAbandoned
      /\ Cardinality({}) = 0
  BY Growth, QueuedFinite, ReadingFacts, FS_EmptySet
     DEF IInv, WindowInv, TypeOK, UpstreamStats, RawAccounting
<1>a. wpc \in {"get", "wait"} => inflight.readings = {}
  BY NoRecordType DEF IInv, ControlInv, Carrying, Sending
<1>1. ASSUME NEW d \in Classified, NEW t \in ReceiveTimes,
             NEW at \in PublishedTimes(t), TrySubmitAccepts(d, t, at)
      PROVE  Len(readings') = Cardinality(Queued') + Cardinality(inflight'.readings)
                              + stats'.upstreamMessages + stats'.recordsAbandoned
  <2> DEFINE n == Len(readings) + 1
  <2>1. Queued' = Queued \cup {n} /\ Len(readings') = n
    BY <1>1, JoinsQueue, AcceptFacts DEF IInv
  <2>2. n \notin Queued
    BY <1>0, QueuedFinite DEF IInv, Enqueued
  <2>3. Cardinality(Queued') = Cardinality(Queued) + 1
    BY <1>0, <2>1, <2>2, FS_AddElement
  <2>4. UNCHANGED <<inflight, stats>>
    BY <1>1 DEF TrySubmitAccepts, report
  <2>5. Cardinality(inflight.readings) \in Nat
    <3>1. CASE inflight.readings = {}
      BY <1>0, <3>1
    <3>2. CASE inflight.readings # {}
      <4>1. RawOK(inflight, readings)
        BY <1>0, <3>2, NoRecordType DEF IInv, ControlInv, RecordInv, RecordOK
      <4>2. PICK i : inflight.readings = {i}
        BY <4>1 DEF RawOK
      <4>3. Cardinality({i}) = 1
        BY FS_Singleton
      <4>4. QED  BY <4>2, <4>3
    <3>3. QED  BY <3>1, <3>2
  <2>6. QED  BY <1>0, <2>1, <2>3, <2>4, <2>5
<1>2. ASSUME Quiet, ~Accepted
      PROVE  Len(readings') = Cardinality(Queued') + Cardinality(inflight'.readings)
                              + stats'.upstreamMessages + stats'.recordsAbandoned
  BY <1>0, <1>2 DEF Quiet
<1>3. ASSUME TakeRaw
      PROVE  Len(readings') = Cardinality(Queued') + Cardinality(inflight'.readings)
                              + stats'.upstreamMessages + stats'.recordsAbandoned
  <2> DEFINE i == Head(queue)
  <2>1. /\ UNCHANGED <<readings, stats>> /\ MayTake /\ queue' = Tail(queue)
        /\ queue # << >> /\ i # STOP /\ inflight' = RawRecord(i)
        /\ wpc \in {"get", "wait"}
    BY <1>3 DEF TakeRaw, MayTake, input, report
  <2>2. Queued = Queued' \cup {i} /\ i \notin Queued' /\ i \in Queued /\ i \in Enqueued
    BY <2>1, TakenFacts DEF IInv
  <2>3. inflight'.readings = {i} /\ inflight.readings = {}
    BY <1>0, <1>a, <2>1, <2>2, RawRecordFacts DEF IInv
  <2> HIDE DEF i
  <2>4. Queued' = Queued \ {i}
    BY <2>2
  <2>5. Cardinality(Queued') = Cardinality(Queued) - 1
    <3>1. IsFiniteSet(Queued)
      BY <1>0
    <3>2. Cardinality(Queued \ {i})
             = IF i \in Queued THEN Cardinality(Queued) - 1 ELSE Cardinality(Queued)
      BY ONLY <3>1, FS_RemoveElement
    <3>3. QED  BY <2>2, <2>4, <3>2
  <2>6. Cardinality(inflight'.readings) = 1
    <3>1. Cardinality({i}) = 1
      BY FS_Singleton
    <3>2. QED  BY <2>3, <3>1
  <2>7. QED  BY <1>0, <2>1, <2>3, <2>5, <2>6
<1>4. ~TakeReading /\ ~WindowTimeout
  BY <1>0 DEF TakeReading, WindowTimeout
<1>5. ASSUME TakeStop
      PROVE  Len(readings') = Cardinality(Queued') + Cardinality(inflight'.readings)
                              + stats'.upstreamMessages + stats'.recordsAbandoned
  <2>1. /\ UNCHANGED <<readings, stats, inflight>> /\ queue # << >> /\ queue' = Tail(queue)
        /\ Head(queue) = STOP
    BY <1>0, <1>5 DEF TakeStop, MayTake, HasData, input, report
  <2>2. Queued' = Queued
    BY <2>1, TakenFacts DEF IInv
  <2>3. QED  BY <1>0, <2>1, <2>2
<1>6. ASSUME Drained
      PROVE  Len(readings') = Cardinality(Queued') + Cardinality(inflight'.readings)
                              + stats'.upstreamMessages + stats'.recordsAbandoned
  <2>1. /\ UNCHANGED <<readings, queue>> /\ wpc = "drain" /\ inflight'.readings = {}
        /\ stats' = [stats EXCEPT !.upstreamMessages = @ + 1]
    BY <1>6, NoRecordType DEF Drained, input
  <2>2. /\ stats'.upstreamMessages = stats.upstreamMessages + 1
        /\ stats'.recordsAbandoned = stats.recordsAbandoned
    BY <1>0, <2>1 DEF UpstreamStats
  <2>3. Cardinality(inflight.readings) = 1
    BY <1>0, <2>1, CarriesOne DEF Sending
  <2>4. Queued' = Queued
    BY <2>1 DEF Queued
  <2>5. QED  BY <1>0, <2>1, <2>2, <2>3, <2>4
<1>7. ASSUME StopTimesOut
      PROVE  Len(readings') = Cardinality(Queued') + Cardinality(inflight'.readings)
                              + stats'.upstreamMessages + stats'.recordsAbandoned
  <2>1. /\ readings' = readings /\ wpc \in Sending /\ queue' = << >> /\ inflight'.readings = {}
        /\ stats' = [stats EXCEPT !.recordsAbandoned = @ + Abandoned]
    BY <1>7, NoRecordType DEF StopTimesOut, input
  <2>2. /\ stats'.recordsAbandoned = stats.recordsAbandoned + Cardinality(Queued) + 1
        /\ stats'.upstreamMessages = stats.upstreamMessages
    BY <1>0, <2>1 DEF UpstreamStats, Abandoned
  <2>3. Cardinality(inflight.readings) = 1
    BY <1>0, <2>1, CarriesOne
  <2>4. Queued' = {}
    BY <2>1, EmptySeq DEF Queued
  <2>5. QED  BY <1>0, <2>1, <2>2, <2>3, <2>4
<1>8. QED
  BY <1>1, <1>2, <1>3, <1>4, <1>5, <1>6, <1>7, StepKinds DEF IInv, Accepted

\* In RAW mode the counters add up at every moment: each accepted reading is
\* queued, being sent, an upstream message or abandoned.
THEOREM RawCounters == Spec => []RawAccounting
<1>1. Init => RawAccounting
  <2> SUFFICES ASSUME Init PROVE RawAccounting
    OBVIOUS
  <2>1. /\ queue = << >> /\ readings = << >> /\ Len(<< >>) = 0 /\ DOMAIN << >> = {}
        /\ inflight.readings = {}
    BY EmptySeq, NoRecordType DEF Init
  <2>2. Queued = {}
    BY <2>1 DEF Queued
  <2>3. QED  BY <2>1, <2>2, FS_EmptySet DEF Init, RawAccounting
<1>2. IInv /\ RawAccounting /\ [Next]_vars => RawAccounting'
  BY AccountingStep
<1>3. QED  BY <1>1, <1>2, ForwarderInvariant, PTL DEF Spec

-----------------------------------------------------------------------------
(* The connection                                                           *)

\* While the forwarder says that the collector is unavailable it has no
\* connection that it believes to be usable.
THEOREM DownMeansNoConnection == Spec => []UnavailableMeansNoConnection
<1>1. Init => UnavailableMeansNoConnection
  BY DEF Init, UnavailableMeansNoConnection
<1>2. ASSUME UnavailableMeansNoConnection, [Next]_vars
      PROVE  UnavailableMeansNoConnection'
  <2> USE DEF UnavailableMeansNoConnection, report, network, link
  <2>1. CASE Accepted \/ TrySubmitDrops
    BY <1>2, <2>1 DEF Accepted, TrySubmitAccepts, TrySubmitDrops
  <2>2. CASE WorkerStep
    BY <1>2, <2>2 DEF WorkerStep, WorkerWaits, TakeRaw, TakeReading, WindowTimeout, TakeStop,
       WriteReused, ConnectAndWrite, ConnectFails, Drained, DrainFails, BackoffEnds,
       AvailableOnConnect
  <2>3. CASE StopBegins \/ StopStep
    BY <1>2, <2>3 DEF StopBegins, StopStep, StopPuts, StopJoins, StopTimesOut, StopFindsDead,
       StopCloses
  <2>4. CASE Environment
    BY <1>2, <2>4 DEF Environment, CollectorReads, CollectorAppendFails, ConnectionBreaks, BreakNoticed,
       CollectorStarts, CollectorStalls, CollectorResumes
  <2>5. CASE Tick \/ Terminated \/ UNCHANGED vars
    BY <1>2, <2>5 DEF Tick, Terminated, vars
  <2>6. QED  BY <1>2, <2>1, <2>2, <2>3, <2>4, <2>5 DEF Next, Accepted
<1>3. QED  BY <1>1, <1>2, PTL DEF Spec

LEMMA IntactInit == Init => IntactInv
<1> SUFFICES ASSUME Init PROVE IntactInv
  OBVIOUS
<1>1. received = << >> /\ channel = << >> /\ << >> \in Seq(Record) /\ Len(<< >>) = 0
  BY EmptySeq DEF Init
<1>2. Len(Wire) = 0
  BY <1>1, Spliced DEF Wire
<1>3. QED  BY <1>2 DEF Init, IntactInv

\* A record on the wire is not the one the worker makes next.
LEMMA NewOnWire ==
    ASSUME IInv, NEW r, NEW i \in r.readings,
           r.readings \subseteq Queued \/ r.readings \subseteq window,
           NEW k \in 1 .. Len(Wire)
    PROVE  Wire[k] # r
<1>1. Before(Wire[k].readings, Queued) /\ Before(Wire[k].readings, window)
  BY DEF IInv, WireInv, OnWay
<1>2. i \in Nat
  BY QueuedFinite DEF IInv, TypeOK
<1>3. QED  BY <1>1, <1>2 DEF Before

\* Without a broken connection every written record stays on the wire.
LEMMA IntactStep ==
    ASSUME IInv, IInv', IntactInv, [Next]_vars
    PROVE  IntactInv'
<1> SUFFICES ASSUME outages' = 0 PROVE IntactInv'
  BY DEF IntactInv
<1> DEFINE Covered(s, w) == \A i \in s : \E k \in 1 .. Len(w) : i \in w[k].readings
           Distinct(w) == \A j, k \in 1 .. Len(w) : j < k => w[j] # w[k]
<1>0. /\ Len(Wire) \in Nat /\ TypeOK /\ ControlInv /\ outages \in Nat
  BY WireFacts DEF IInv, TypeOK
<1>a. ~ConnectionBreaks /\ ~CollectorAppendFails
  BY <1>0 DEF ConnectionBreaks, CollectorAppendFails
<1>1. ASSUME UNCHANGED <<Wire, inflight, wpc, sent, conn, outages>> PROVE IntactInv'
  BY <1>1 DEF IntactInv
<1>2. ASSUME UNCHANGED <<Wire, sent, conn, outages>>, wpc' \in {"get", "wait", "done"}
      PROVE  IntactInv'
  BY <1>2 DEF IntactInv
<1>3. ASSUME UNCHANGED <<Wire, sent, conn, outages>>, wpc' = "send",
             NEW i \in inflight'.readings,
             inflight'.readings \subseteq Queued \/ inflight'.readings \subseteq window
      PROVE  IntactInv'
  <2>1. \A k \in 1 .. Len(Wire) : Wire[k] # inflight'
    BY <1>3, NewOnWire
  <2>2. QED  BY <1>3, <2>1 DEF IntactInv
<1>b. UNCHANGED <<received, channel>> => UNCHANGED Wire
  BY DEF Wire
<1>4. ASSUME Accepted \/ TrySubmitDrops PROVE IntactInv'
  BY <1>1, <1>4, <1>b DEF Accepted, TrySubmitAccepts, TrySubmitDrops, network, link, collector,
     history, worker
<1>5. ASSUME WorkerWaits PROVE IntactInv'
  BY <1>2, <1>5, <1>b DEF WorkerWaits, network, link, collector, history
<1>6. ASSUME TakeRaw PROVE IntactInv'
  <2> DEFINE i == Head(queue)
  <2>1. /\ UNCHANGED <<received, channel, sent, conn, outages>> /\ wpc' = "send"
        /\ queue' = Tail(queue) /\ queue # << >> /\ i # STOP /\ inflight' = RawRecord(i)
        /\ mode = "RAW"
    BY <1>6 DEF TakeRaw, MayTake, network, link, collector, history
  <2>2. i \in Queued /\ inflight'.readings = {i}
    BY <2>1, TakenFacts, RawRecordFacts DEF IInv
  <2>3. QED  BY <1>3, <1>b, <2>1, <2>2
<1>7. ASSUME TakeReading PROVE IntactInv'
  <2>1. /\ UNCHANGED <<received, channel, sent, conn, outages>>
        /\ \/ wpc' = "get"
           \/ wpc' = "send" /\ inflight'.readings = window /\ window # {}
    BY <1>7 DEF TakeReading, CrossesBoundary, Summary, network, link, collector, history
  <2>2. QED  BY <1>2, <1>3, <1>b, <2>1
<1>8. ASSUME WindowTimeout PROVE IntactInv'
  <2>1. /\ UNCHANGED <<received, channel, sent, conn, outages>>
        /\ wpc' = "send" /\ inflight'.readings = window /\ window # {}
    BY <1>8 DEF WindowTimeout, Summary, network, link, collector, history
  <2>2. QED  BY <1>3, <1>b, <2>1
<1>9. ASSUME TakeStop PROVE IntactInv'
  <2>1. /\ UNCHANGED <<received, channel, sent, conn, outages>>
        /\ \/ wpc' = "done"
           \/ wpc' = "send" /\ inflight'.readings = window /\ window # {}
    BY <1>9 DEF TakeStop, HasData, Summary, network, link, collector, history
  <2>2. QED  BY <1>2, <1>3, <1>b, <2>1
<1>10. ASSUME WriteReused PROVE IntactInv'
  <2>1. /\ UNCHANGED <<conn, sent, inflight, received, outages>> /\ wpc = "send" /\ wpc' = "drain"
        /\ conn \in {"open", "dead"}
        /\ channel' = IF conn = "open" THEN Append(channel, inflight) ELSE channel
    BY <1>10 DEF WriteReused, Written, collector, history
  <2>2. conn = "open"
    BY <2>1 DEF IntactInv
  <2>3. Wire' = Append(Wire, inflight)
    BY <1>0, <2>1, <2>2, WriteAppends
  <2>4. /\ Len(Wire') = Len(Wire) + 1 /\ Wire'[Len(Wire) + 1] = inflight
        /\ \A k \in 1 .. Len(Wire) : Wire'[k] = Wire[k]
    BY <1>0, <2>3, WireFacts, AppendProperties DEF TypeOK
  <2>5. \A k \in 1 .. Len(Wire') : k \in 1 .. Len(Wire) \/ k = Len(Wire) + 1
    BY <1>0, <2>4
  <2>6. \A k \in 1 .. Len(Wire) : k \in 1 .. Len(Wire') /\ Wire[k] # inflight
    BY <1>0, <2>1, <2>4 DEF IntactInv
  <2>7. Covered(sent, Wire')
    BY <2>1, <2>4, <2>6 DEF IntactInv
  <2>8. ASSUME NEW j \in 1 .. Len(Wire'), NEW k \in 1 .. Len(Wire'), j < k
        PROVE  Wire'[j] # Wire'[k]
    <3>1. j \in 1 .. Len(Wire)
      BY <1>0, <2>4, <2>8
    <3>2. CASE k \in 1 .. Len(Wire)
      BY <2>1, <2>4, <2>8, <3>1, <3>2 DEF IntactInv
    <3>3. CASE k = Len(Wire) + 1
      BY <2>4, <2>6, <3>1, <3>3
    <3>4. QED  BY <2>5, <3>2, <3>3
  <2>9. QED  BY <1>0, <2>1, <2>2, <2>4, <2>7, <2>8 DEF IntactInv
<1>11. ASSUME ConnectAndWrite PROVE IntactInv'
  <2>1. /\ UNCHANGED <<sent, inflight, received, outages>> /\ wpc = "send" /\ wpc' = "drain"
        /\ conn \notin {"open", "dead"} /\ conn' = "open" /\ channel' = << inflight >>
    BY <1>11 DEF ConnectAndWrite, Written, collector, history
  <2>2. conn = "none"
    BY <1>0, <2>1 DEF IntactInv, ControlInv
  <2>3. Len(Wire) = 0 /\ Len(received) = 0
    BY <1>0, <2>1, <2>2, WireFacts DEF IntactInv
  <2>4. /\ received \in Seq(Record) /\ << inflight >> \in Seq(Record)
        /\ Len(<< inflight >>) = 1 /\ << inflight >>[1] = inflight /\ 1 \in 1 .. 1
    BY <1>0 DEF TypeOK
  <2>5. Len(Wire') = 1 /\ Wire'[1] = inflight
    <3>1. Len(Wire') = Len(received) + 1 /\ Wire'[Len(received) + 1] = inflight
      BY <2>1, <2>4, Spliced DEF Wire
    <3>2. QED  BY <2>3, <3>1
  <2>6. sent = {}
    BY <2>1, <2>3 DEF IntactInv
  <2>7. QED  BY <2>1, <2>5, <2>6 DEF IntactInv
<1>12. ASSUME ConnectFails PROVE IntactInv'
  <2>1. /\ UNCHANGED <<received, channel, sent, inflight, outages>> /\ wpc = "send"
        /\ conn \notin {"open", "dead"} /\ conn' = "none" /\ wpc' = AfterFailure
    BY <1>12 DEF ConnectFails, collector, history
  <2>2. conn = "none"
    BY <1>0, <2>1 DEF IntactInv, ControlInv
  <2>3. wpc' = "backoff"
    BY <2>1, <2>2 DEF AfterFailure
  <2>4. QED  BY <1>b, <2>1, <2>2, <2>3 DEF IntactInv
<1>13. ASSUME Drained PROVE IntactInv'
  <2>1. /\ UNCHANGED <<received, channel, conn, outages>> /\ wpc = "drain"
        /\ sent' = sent \cup inflight.readings /\ wpc' \in {"get", "done"}
    BY <1>13 DEF Drained, network, link, collector
  <2>2. Len(Wire) \in 1 .. Len(Wire) /\ Wire[Len(Wire)] = inflight
    BY <1>0, <2>1 DEF IntactInv
  <2>3. Covered(sent', Wire)
    BY <2>1, <2>2 DEF IntactInv
  <2>4. QED  BY <1>b, <2>1, <2>3 DEF IntactInv
<1>14. ~DrainFails /\ ~BreakNoticed
  <2>1. DrainFails \/ BreakNoticed => outages' = outages
    BY DEF DrainFails, BreakNoticed, collector
  <2>2. QED  BY <2>1 DEF DrainFails, BreakNoticed, Broken, IntactInv
<1>15. ASSUME BackoffEnds PROVE IntactInv'
  <2>1. UNCHANGED <<received, channel, sent, conn, outages, inflight>> /\ wpc = "backoff" /\ wpc' = "send"
    BY <1>15 DEF BackoffEnds, network, link, collector, history
  <2>2. QED  BY <1>b, <2>1 DEF IntactInv
<1>16. ASSUME StopBegins \/ StopPuts \/ StopJoins \/ StopFindsDead PROVE IntactInv'
  BY <1>1, <1>16, <1>b DEF StopBegins, StopPuts, StopJoins, StopFindsDead, network, link,
     collector, history, worker
<1>17. ASSUME StopTimesOut PROVE IntactInv'
  BY <1>2, <1>17, <1>b DEF StopTimesOut, network, link, collector
<1>18. ASSUME StopCloses PROVE IntactInv'
  <2>1. /\ UNCHANGED <<received, channel, sent, outages, inflight, wpc>> /\ spc = "closing"
        /\ conn' = IF conn = "open" THEN "closed" ELSE "none"
    BY <1>18 DEF StopCloses, UnreadAfterClose, collector, history, worker
  <2>2. wpc = "done" /\ conn # "closed"
    BY <1>0, <2>1 DEF ControlInv
  <2>3. QED  BY <1>b, <2>1, <2>2 DEF IntactInv
<1>19. ASSUME CollectorReads PROVE IntactInv'
  BY <1>0, <1>1, <1>19, ReadKeepsWire DEF CollectorReads, collector, history, worker
<1>20. ASSUME CollectorStarts \/ CollectorStalls \/ CollectorResumes \/ Tick \/ Terminated
              \/ UNCHANGED vars
       PROVE  IntactInv'
  BY <1>1, <1>20, <1>b DEF CollectorStarts, CollectorStalls, CollectorResumes, Tick, Terminated,
     vars, network, link, collector, history, worker
<1>21. QED
  BY <1>a, <1>4, <1>5, <1>6, <1>7, <1>8, <1>9, <1>10, <1>11, <1>12, <1>13, <1>14, <1>15,
     <1>16, <1>17, <1>18, <1>19, <1>20
     DEF Next, WorkerStep, StopStep, Environment, Accepted

\* While no connection breaks every record counted as an upstream message is on
\* the wire exactly once, across windows, backpressure and stop().
THEOREM ExactlyOnce == Spec => []ExactlyOnceWithoutOutage
<1>1. IInv /\ IntactInv /\ [Next]_vars => IntactInv'
  BY IInvStep, IntactStep
<1>2. ASSUME IInv, IntactInv PROVE ExactlyOnceWithoutOutage
  <2> SUFFICES ASSUME outages = 0
               PROVE  /\ sent \subseteq InWire
                      /\ \A j, k \in DOMAIN Wire : j # k => Wire[j] # Wire[k]
    BY DEF ExactlyOnceWithoutOutage
  <2>1. DOMAIN Wire = 1 .. Len(Wire) /\ Len(Wire) \in Nat
    BY <1>2, WireFacts DEF IInv
  <2>2. sent \subseteq InWire
    BY <1>2, <2>1 DEF IntactInv, InWire
  <2>3. \A j, k \in 1 .. Len(Wire) : j # k => j < k \/ k < j
    BY <2>1
  <2>4. QED  BY <1>2, <2>1, <2>2, <2>3 DEF IntactInv
<1>3. QED  BY <1>1, <1>2, IntactInit, ForwarderInvariant, PTL DEF Spec
=============================================================================

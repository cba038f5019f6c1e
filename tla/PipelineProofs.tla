--------------------------- MODULE PipelineProofs ---------------------------
(***************************************************************************)
(* Proofs about GatewayPipeline, for any number of connections, messages    *)
(* and failing writes, and for all queue and batch sizes.                   *)
(*                                                                         *)
(* Each evidence file obeys WriterOK, whatever the rest of the process      *)
(* does: as long as its worker lives, what was accepted is the file, the    *)
(* batch being written and the queue, one after the other, and the marker   *)
(* of stop() is behind everything.  StageInv says which components run at   *)
(* each stage of _run_from_cli, MessageInv where every message is.          *)
(***************************************************************************)
EXTENDS GatewayPipeline, SequenceTheorems, TLAPS

Row == Nat \ {STOP}

\* f is an initial part of a.
Holds(a, f) == Len(f) <= Len(a) /\ f = SubSeq(a, 1, Len(f))

\* The items of a queue: the marker, when it is there, is not one.
Marked(q) == q # << >> /\ q[Len(q)] = STOP
Items(q) == IF Marked(q) THEN SubSeq(q, 1, Len(q) - 1) ELSE q

\* Nobody has put the marker yet, or met it.
Unmarked(q, wk) == q \in Seq(Row) /\ wk \in {"waiting", "writing", "died"}

\* One evidence file: whether it is running, its queue, worker and batch, the
\* file itself, and what was accepted for it.
WriterOK(r, q, wk, b, f, a) ==
    /\ Items(q) \in Seq(Row)
    /\ r => Unmarked(q, wk)
    /\ wk \in {"none", "last", "done"} => q = << >>
    /\ wk \notin {"writing", "last"} => b = << >>
    /\ Holds(a, f)
    /\ wk \in {"waiting", "writing", "last", "done"} => a = (f \o b) \o Items(q)

WriterInv(w) ==
    WriterOK(running[w], queue[w], worker[w], batch[w], file[w], accepted[w])

\* The writer of stage s of the shutdown has not been told to stop.
NotStopped(s) == stage < s \/ (stage = s /\ step = "call")

StageInv ==
    /\ cli = "starting" =>
          /\ stage <= 6 /\ step = "call"
          /\ stage > 1 => running["gateway_events"]
          /\ stage > 2 => running["health_events"]
          /\ stage > 4 => running["store"]
          /\ forwarder = "running" => stage > 5
          /\ \A c \in Conn : handler[c] = "unused"
          /\ \A w \in Writer : /\ queue[w] = << >> /\ batch[w] = << >>
                               /\ file[w] = << >> /\ accepted[w] = << >>
                               /\ worker[w] \in {"none", "waiting"}
    /\ cli = "serving" => step = "call" /\ \A w \in Writer : running[w]
    /\ cli = "stopping" =>
          /\ NotStopped(3) => running["store"]
          /\ NotStopped(5) => running["gateway_events"]
          /\ NotStopped(6) => running["health_events"]
          /\ stage > 1 => \A c \in Conn : ~Live(c)
          /\ stage > 2 => forwarder # "running"
          /\ stage > 3 => worker["store"] = "done"
          /\ stage > 5 => worker["gateway_events"] = "done"
          /\ stage > 6 => worker["health_events"] = "done"
          /\ \A w \in Writer :
                StopOrder[stage] = w /\ step = "put" =>
                   ~running[w] /\ Unmarked(queue[w], worker[w])
    /\ cli = "exited" =>
          /\ \A w \in Writer : worker[w] = "done"
          /\ \A c \in Conn : ~Live(c)

Waiting(c) == handler[c] = "submitting"
Evidence == accepted["store"]

\* Every message was accepted by the store, or waits for room in one handler.
MessageInv ==
    /\ ToSet(Evidence) \subseteq 1 .. received
    /\ \A c \in Conn : Waiting(c) => hand[c] \in 1 .. received /\ hand[c] \notin ToSet(Evidence)
    /\ \A c, d \in Conn : Waiting(c) /\ Waiting(d) /\ c # d => hand[c] # hand[d]
    /\ cli # "killed" =>
          \A m \in 1 .. received : m \in ToSet(Evidence) \/ \E c \in Conn : Waiting(c) /\ hand[c] = m

IInv ==
    /\ TypeOK
    /\ \A w \in Writer : WriterInv(w)
    /\ StageInv
    /\ ProducersHaveSinks
    /\ MessageInv
    /\ ForwardFollowsEvidence

-----------------------------------------------------------------------------
(* Sequences and queues                                                     *)

LEMMA RowFacts == STOP \notin Row /\ Row \subseteq Nat /\ Nat = Row \cup {STOP}
BY DEF Row, STOP

LEMMA MaxIs ==
    ASSUME NEW S \in SUBSET Nat, NEW m \in S, \A i \in S : i <= m
    PROVE  Max(S) = m
<1>1. \A x \in S : (\A y \in S : x >= y) => x = m
  <2> TAKE x \in S
  <2> HAVE \A y \in S : x >= y
  <2>1. x \in Nat /\ m \in Nat /\ x >= m /\ m >= x
    OBVIOUS
  <2>2. QED  BY <2>1
<1>2. QED  BY <1>1 DEF Max

LEMMA MinOfTwo ==
    ASSUME NEW m \in Int, NEW n \in Int
    PROVE  Min({m, n}) = IF m <= n THEN m ELSE n
<1>1. PICK x \in {m, n} : x = (IF m <= n THEN m ELSE n) /\ x <= m /\ x <= n
  OBVIOUS
<1>2. \A y \in {m, n} : (\A z \in {m, n} : y <= z) => y = x
  <2> TAKE y \in {m, n}
  <2> HAVE \A z \in {m, n} : y <= z
  <2>1. y <= x /\ x <= y /\ x \in Int /\ y \in Int
    BY <1>1
  <2>2. QED  BY <2>1
<1>3. \A z \in {m, n} : x <= z
  BY <1>1
<1>4. QED  BY <1>1, <1>2, <1>3 DEF Min

\* The first n elements, and the rest.
LEMMA Cut ==
    ASSUME NEW S, NEW s \in Seq(S), NEW n \in 0 .. Len(s)
    PROVE  /\ SubSeq(s, 1, n) \in Seq(S) /\ Len(SubSeq(s, 1, n)) = n
           /\ SubSeq(s, n + 1, Len(s)) \in Seq(S) /\ Len(SubSeq(s, n + 1, Len(s))) = Len(s) - n
           /\ s = SubSeq(s, 1, n) \o SubSeq(s, n + 1, Len(s))
<1>0. Len(s) \in Nat /\ n \in Nat /\ n <= Len(s)
  BY LenProperties
<1>1. \A i \in 1 .. Len(s) : s[i] \in S
  BY ElementOfSeq
<1>2. SubSeq(s, 1, n) \in Seq(S) /\ Len(SubSeq(s, 1, n)) = n
  <2>1. \A i \in 1 .. n : s[i] \in S
    BY <1>0, <1>1
  <2>2. /\ SubSeq(s, 1, n) \in Seq(S)
        /\ Len(SubSeq(s, 1, n)) = IF 1 <= n THEN n - 1 + 1 ELSE 0
    BY <1>0, <2>1, SubSeqProperties
  <2>3. QED  BY <1>0, <2>2
<1>3. SubSeq(s, n + 1, Len(s)) \in Seq(S) /\ Len(SubSeq(s, n + 1, Len(s))) = Len(s) - n
  <2>1. \A i \in n + 1 .. Len(s) : s[i] \in S
    BY <1>0, <1>1
  <2>2. /\ SubSeq(s, n + 1, Len(s)) \in Seq(S)
        /\ Len(SubSeq(s, n + 1, Len(s))) = IF n + 1 <= Len(s) THEN Len(s) - (n + 1) + 1 ELSE 0
    BY <1>0, <2>1, SubSeqProperties
  <2>3. QED  BY <1>0, <2>2
<1>4. s = SubSeq(s, 1, n) \o SubSeq(s, n + 1, Len(s))
  <2>1. SubSeq(s, 1, n) \o SubSeq(s, n + 1, Len(s)) = SubSeq(s, 1, Len(s))
    <3>1. 1 \in 1 .. Len(s) + 1 /\ n \in 1 - 1 .. Len(s) /\ Len(s) \in n .. Len(s)
      BY <1>0
    <3>2. QED  BY <3>1, ConcatAdjacentSubSeq
  <2>2. QED  BY <2>1, SubSeqFull
<1>5. QED  BY <1>2, <1>3, <1>4

LEMMA NoneLeft == ASSUME NEW s, NEW m \in Nat, NEW n \in Nat, n < m PROVE SubSeq(s, m, n) = << >>
<1>1. m \in Int /\ n \in Int
  OBVIOUS
<1>2. QED  BY ONLY <1>1, n < m, SubSeqEmpty

\* What comes first in a concatenation is an initial part of it.
LEMMA FirstPart ==
    ASSUME NEW S, NEW s \in Seq(S), NEW t \in Seq(S)
    PROVE  Len(s) <= Len(s \o t) /\ SubSeq(s \o t, 1, Len(s)) = s
<1>0. Len(s) \in Nat /\ Len(t) \in Nat /\ Len(s \o t) = Len(s) + Len(t)
  BY ConcatProperties, LenProperties
<1>1. CASE s = << >>
  <2>1. Len(s) = 0
    BY <1>1, EmptySeq
  <2>2. SubSeq(s \o t, 1, 0) = << >>
    BY SubSeqEmpty
  <2>3. QED  BY <1>0, <1>1, <2>1, <2>2
<1>2. CASE s # << >>
  <2>1. 1 \in 1 .. Len(s) /\ Len(s) \in 1 .. Len(s)
    BY <1>0, <1>2, EmptySeq
  <2>2. SubSeq(s \o t, 1, Len(s)) = SubSeq(s, 1, Len(s))
    BY <2>1, SubSeqOfConcat1
  <2>3. QED  BY <1>0, <2>2, SubSeqFull
<1>3. QED  BY <1>1, <1>2

LEMMA UnmarkedItems ==
    ASSUME NEW q \in Seq(Row)
    PROVE  Items(q) = q /\ q \in Seq(Nat)
<1>1. q # << >> => Len(q) \in 1 .. Len(q)
  BY EmptySeq
<1>2. q # << >> => q[Len(q)] \in Row
  BY <1>1, ElementOfSeq
<1>3. q \in Seq(Nat)
  BY RowFacts, SeqMonotonic
<1>4. QED  BY <1>2, <1>3, RowFacts DEF Items, Marked

LEMMA MarkedItems ==
    ASSUME NEW q \in Seq(Row)
    PROVE  /\ Items(Append(q, STOP)) = q /\ Append(q, STOP) \in Seq(Nat)
           /\ Marked(Append(q, STOP))
<1>1. /\ q \in Seq(Nat) /\ STOP \in Nat /\ << STOP >> \in Seq(Nat)
  BY UnmarkedItems, RowFacts
<1>2. /\ Append(q, STOP) \in Seq(Nat) /\ Append(q, STOP) # << >>
      /\ Len(Append(q, STOP)) = Len(q) + 1 /\ Append(q, STOP)[Len(q) + 1] = STOP
  BY <1>1, AppendProperties
<1>3. Append(q, STOP) = q \o << STOP >>
  BY <1>1, AppendIsConcat
<1>4. Len(q) \in Nat /\ (Len(q) + 1) - 1 = Len(q)
  BY LenProperties
<1>5. SubSeq(Append(q, STOP), 1, Len(q)) = q
  BY <1>1, <1>3, FirstPart
<1>6. QED  BY <1>2, <1>4, <1>5 DEF Items, Marked

\* A queue is its items, or its items and the marker.
LEMMA QueueShape ==
    ASSUME NEW q \in Seq(Nat), Items(q) \in Seq(Row)
    PROVE  IF Marked(q) THEN q = Append(Items(q), STOP) ELSE q = Items(q)
<1>1. CASE Marked(q)
  <2>1. Len(q) \in Nat /\ Len(q) > 0
    BY <1>1, EmptySeq DEF Marked
  <2>2. Len(q) \in 1 .. Len(q) /\ q[Len(q)] = STOP
    BY <1>1, <2>1 DEF Marked
  <2>3. SubSeq(q, 1, Len(q)) = SubSeq(q, 1, Len(q) - 1) \o << q[Len(q)] >>
    <3>1. PICK n : n = Len(q)
      OBVIOUS
    <3>2. n \in 1 .. Len(q) /\ 1 \in 1 .. Len(q)
      BY <2>1, <3>1
    <3>3. SubSeq(q, 1, n) = SubSeq(q, 1, n - 1) \o << q[n] >>
      BY ONLY q \in Seq(Nat), <3>2, SubSeqRecursiveSecond
    <3>4. QED  BY ONLY <3>1, <3>3, Zenon
  <2>4. q = SubSeq(q, 1, Len(q) - 1) \o << STOP >>
    BY <2>2, <2>3, SubSeqFull
  <2>5. Items(q) = SubSeq(q, 1, Len(q) - 1) /\ Items(q) \in Seq(Nat) /\ STOP \in Nat
    BY <1>1, UnmarkedItems, RowFacts DEF Items
  <2>6. Append(Items(q), STOP) = Items(q) \o << STOP >>
    BY <2>5, AppendIsConcat
  <2>7. QED  BY <1>1, <2>4, <2>5, <2>6
<1>2. CASE ~Marked(q)
  BY <1>2 DEF Items
<1>3. QED  BY <1>1, <1>2

-----------------------------------------------------------------------------
(* The operations of one evidence file                                      *)

\* get_nowait yields a full batch, or all the items there are.
LEMMA BatchIs ==
    ASSUME NEW q \in Seq(Nat), Items(q) \in Seq(Row)
    PROVE  /\ BatchLength(q) = IF BatchSize <= Len(Items(q)) THEN BatchSize ELSE Len(Items(q))
           /\ BatchLength(q) \in 0 .. Len(Items(q)) /\ BatchLength(q) <= BatchSize
           /\ BatchSize \in Nat
<1> DEFINE i == Items(q)
           k == IF BatchSize <= Len(i) THEN BatchSize ELSE Len(i)
           S == {n \in 0 .. Min({BatchSize, Len(q)}) : \A j \in 1 .. n : q[j] # STOP}
<1>0. Len(i) \in Nat /\ Len(q) \in Nat /\ BatchSize \in Nat /\ k \in Nat
  BY LenProperties, WriterAssumption
<1>1. /\ Len(q) = Len(i) \/ (Marked(q) /\ Len(q) = Len(i) + 1 /\ q[Len(i) + 1] = STOP)
      /\ \A j \in 1 .. Len(i) : q[j] = i[j]
  <2>1. i \in Seq(Nat) /\ STOP \in Nat
    BY UnmarkedItems, RowFacts
  <2>2. CASE Marked(q)
    <3>1. q = Append(i, STOP)
      BY <2>2, QueueShape
    <3>2. /\ Len(Append(i, STOP)) = Len(i) + 1 /\ Append(i, STOP)[Len(i) + 1] = STOP
          /\ \A j \in 1 .. Len(i) : Append(i, STOP)[j] = i[j]
      BY ONLY <2>1, AppendProperties
    <3>3. QED  BY <2>2, <3>1, <3>2
  <2>3. CASE ~Marked(q)
    BY <2>3, QueueShape
  <2>4. QED  BY <2>2, <2>3
<1>2. \A j \in 1 .. Len(i) : q[j] # STOP
  <2>1. \A j \in 1 .. Len(i) : i[j] \in Row
    BY ElementOfSeq
  <2>2. QED  BY <1>1, <2>1, RowFacts
<1>3. Min({BatchSize, Len(q)}) = IF BatchSize <= Len(q) THEN BatchSize ELSE Len(q)
  BY <1>0, MinOfTwo
<1>4. k \in S
  <2>1. k \in 0 .. Min({BatchSize, Len(q)})
    BY <1>0, <1>1, <1>3
  <2>2. \A j \in 1 .. k : j \in 1 .. Len(i)
    BY <1>0
  <2>3. QED  BY <1>2, <2>1, <2>2
<1>5. \A n \in S : n <= k
  <2> TAKE n \in S
  <2>1. n \in Nat /\ n <= BatchSize /\ n <= Len(q) /\ \A j \in 1 .. n : q[j] # STOP
    BY <1>0, <1>3
  <2>2. n <= Len(i)
    <3>1. n = Len(i) + 1 => Len(i) + 1 \in 1 .. n
      BY <1>0
    <3>2. QED  BY <1>0, <1>1, <2>1, <3>1
  <2>3. QED  BY <1>0, <2>1, <2>2
<1>6. S \in SUBSET Nat
  BY <1>0, <1>3
<1>7. Max(S) = k
  BY ONLY <1>4, <1>5, <1>6, MaxIs
<1>8. BatchLength(q) = k
  BY <1>7 DEF BatchLength
<1>9. QED  BY <1>0, <1>8

\* What TakeBatch takes, and what it leaves.
Taken(q) == SubSeq(q, 1, BatchLength(q))
Left(q) ==
    SubSeq(q, IF BatchLength(q) < BatchSize THEN BatchLength(q) + 2 ELSE BatchLength(q) + 1,
           Len(q))

\* The worker takes the first items of its queue, and the marker behind them.
LEMMA BatchTaken ==
    ASSUME NEW q \in Seq(Nat), Items(q) \in Seq(Row)
    PROVE  /\ Taken(q) \in Seq(Row) /\ Len(Taken(q)) <= BatchSize
           /\ Left(q) \in Seq(Nat) /\ Len(Left(q)) <= Len(q)
           /\ Items(Left(q)) \in Seq(Row) /\ Items(q) = Taken(q) \o Items(Left(q))
           /\ MeetsStop(q) => Left(q) = << >> /\ Marked(q)
           /\ q \in Seq(Row) => Left(q) \in Seq(Row) /\ ~Marked(q)
<1> PICK i \in Seq(Row) : i = Items(q)
  OBVIOUS
<1> PICK k : k = BatchLength(q)
  OBVIOUS
<1> PICK b : b = Taken(q) /\ b = SubSeq(q, 1, k)
  BY DEF Taken
<1> PICK t : /\ t = Left(q)
             /\ t = SubSeq(q, IF k < BatchSize THEN k + 2 ELSE k + 1, Len(q))
  BY DEF Left
<1>0. /\ Len(i) \in Nat /\ Len(q) \in Nat /\ BatchSize \in Nat /\ k \in Nat
      /\ k = (IF BatchSize <= Len(i) THEN BatchSize ELSE Len(i)) /\ k \in 0 .. Len(i)
  BY LenProperties, BatchIs
<1>1. << >> \in Seq(Row) /\ << >> \in Seq(Nat) /\ Items(<< >>) = << >> /\ Len(<< >>) = 0
  BY EmptySeq, UnmarkedItems
<1>2. i \in Seq(Nat) /\ STOP \in Nat /\ << STOP >> \in Seq(Nat)
  BY UnmarkedItems, RowFacts
<1>3. q \in Seq(Row) => ~Marked(q)
  <2>1. q \in Seq(Row) /\ q # << >> => Len(q) \in 1 .. Len(q)
    BY EmptySeq
  <2>2. q \in Seq(Row) /\ q # << >> => q[Len(q)] \in Row
    BY <2>1, ElementOfSeq
  <2>3. QED  BY <2>2, RowFacts DEF Marked
<1>4. IF Marked(q) THEN q = i \o << STOP >> /\ Len(q) = Len(i) + 1 ELSE q = i
  <2>1. Append(i, STOP) = i \o << STOP >> /\ Len(Append(i, STOP)) = Len(i) + 1
    BY <1>2, AppendIsConcat, AppendProperties
  <2>2. QED  BY <2>1, QueueShape
<1>5. b = SubSeq(i, 1, k) /\ b \in Seq(Row) /\ Len(b) = k
  <2>1. SubSeq(i, 1, k) \in Seq(Row) /\ Len(SubSeq(i, 1, k)) = k
    BY <1>0, Cut
  <2>2. CASE k = 0
    <3>1. SubSeq(q, 1, 0) = << >> /\ SubSeq(i, 1, 0) = << >>
      BY SubSeqEmpty
    <3>2. QED  BY <2>1, <2>2, <3>1
  <2>3. CASE k # 0 /\ Marked(q)
    <3>1. 1 \in 1 .. Len(i) /\ k \in 1 .. Len(i)
      BY <1>0, <2>3
    <3>2. SubSeq(i \o << STOP >>, 1, k) = SubSeq(i, 1, k)
      BY <1>2, <3>1, SubSeqOfConcat1
    <3>3. QED  BY <1>4, <2>1, <2>3, <3>2
  <2>4. CASE ~Marked(q)
    BY <1>4, <2>1, <2>4
  <2>5. QED  BY <2>2, <2>3, <2>4
<1>6. Len(b) <= BatchSize
  BY ONLY <1>0, <1>5
<1>7. ASSUME k < BatchSize
      PROVE  /\ b \in Seq(Row) /\ Len(b) <= BatchSize /\ t \in Seq(Nat) /\ Len(t) <= Len(q)
             /\ Items(t) \in Seq(Row) /\ i = b \o Items(t)
             /\ MeetsStop(q) => t = << >> /\ Marked(q)
             /\ q \in Seq(Row) => t \in Seq(Row) /\ ~Marked(q)
  <2>1. k = Len(i) /\ t = SubSeq(q, k + 2, Len(q)) /\ Len(q) < k + 2
    BY <1>0, <1>4, <1>7
  <2>2. t = << >>
    <3>1. k + 2 \in Nat /\ Len(q) \in Nat
      BY <1>0
    <3>2. SubSeq(q, k + 2, Len(q)) = << >>
      BY <2>1, <3>1, NoneLeft
    <3>3. QED  BY <2>1, <3>2
  <2>3. b = i
    BY <1>5, <2>1, SubSeqFull
  <2>4. i = b \o Items(t)
    BY <1>1, <2>2, <2>3, ConcatEmptySeq
  <2>5. MeetsStop(q) => Marked(q)
    BY <1>0, <1>4, <2>1 DEF MeetsStop
  <2>6. Len(t) <= Len(q)
    BY ONLY <1>0, <1>1, <2>2
  <2>7. QED  BY ONLY <1>1, <1>3, <1>5, <1>6, <2>2, <2>4, <2>5, <2>6
<1>8. ASSUME ~(k < BatchSize)
      PROVE  /\ b \in Seq(Row) /\ Len(b) <= BatchSize /\ t \in Seq(Nat) /\ Len(t) <= Len(q)
             /\ Items(t) \in Seq(Row) /\ i = b \o Items(t)
             /\ MeetsStop(q) => t = << >> /\ Marked(q)
             /\ q \in Seq(Row) => t \in Seq(Row) /\ ~Marked(q)
  <2>1. k = BatchSize /\ t = SubSeq(q, k + 1, Len(q)) /\ ~MeetsStop(q)
    BY <1>0, <1>8 DEF MeetsStop
  <2>u. PICK u : u = SubSeq(i, k + 1, Len(i))
    OBVIOUS
  <2>2. u \in Seq(Row) /\ Len(u) = Len(i) - k /\ i = b \o u
    <3>1. /\ SubSeq(i, k + 1, Len(i)) \in Seq(Row)
          /\ Len(SubSeq(i, k + 1, Len(i))) = Len(i) - k
          /\ i = SubSeq(i, 1, k) \o SubSeq(i, k + 1, Len(i))
      BY ONLY <1>0, i \in Seq(Row), Cut
    <3>2. QED  BY ONLY <1>5, <2>u, <3>1
  <2>3. ASSUME ~Marked(q)
        PROVE  /\ b \in Seq(Row) /\ Len(b) <= BatchSize /\ t \in Seq(Nat) /\ Len(t) <= Len(q)
               /\ Items(t) \in Seq(Row) /\ i = b \o Items(t)
               /\ MeetsStop(q) => t = << >> /\ Marked(q)
               /\ q \in Seq(Row) => t \in Seq(Row) /\ ~Marked(q)
    <3>1. t = u /\ Len(q) = Len(i)
      BY <1>4, <2>1, <2>3, <2>u
    <3>2. Len(t) <= Len(q)
      BY ONLY <1>0, <2>2, <3>1
    <3>3. Items(u) = u /\ u \in Seq(Nat)
      BY <2>2, UnmarkedItems
    <3>4. QED  BY ONLY <1>3, <1>5, <1>6, <2>1, <2>2, <2>3, <3>1, <3>2, <3>3
  <2>4. ASSUME Marked(q)
        PROVE  /\ b \in Seq(Row) /\ Len(b) <= BatchSize /\ t \in Seq(Nat) /\ Len(t) <= Len(q)
               /\ Items(t) \in Seq(Row) /\ i = b \o Items(t)
               /\ MeetsStop(q) => t = << >> /\ Marked(q)
               /\ q \in Seq(Row) => t \in Seq(Row) /\ ~Marked(q)
    <3>1. Len(q) = Len(i) + 1 /\ q = i \o << STOP >>
      BY <1>4, <2>4
    <3>2. Len(q) \in k + 1 .. Len(q)
      BY <1>0, <3>1
    <3>3. /\ Append(u, STOP) \in Seq(Nat) /\ Len(Append(u, STOP)) = Len(u) + 1
          /\ Items(Append(u, STOP)) = u
      BY <1>2, <2>2, UnmarkedItems, MarkedItems, AppendProperties
    <3>4. t = Append(u, STOP)
      <4>1. q[Len(q)] = STOP /\ q \in Seq(Nat) /\ Len(q) - 1 = Len(i)
        BY <1>0, <2>4, <3>1 DEF Marked
      <4>2. k + 1 \in 1 .. Len(q)
        BY <1>0, <3>1
      <4>3. t = SubSeq(q, k + 1, Len(i)) \o << STOP >>
        BY <2>1, <3>2, <4>1, <4>2, SubSeqRecursiveSecond
      <4>4. SubSeq(q, k + 1, Len(i)) = u
        <5>1. CASE k = Len(i)
          <6>1. k + 1 \in Nat /\ Len(i) \in Nat /\ Len(i) < k + 1
            BY <1>0, <5>1
          <6>2. SubSeq(q, k + 1, Len(i)) = << >> /\ SubSeq(i, k + 1, Len(i)) = << >>
            BY <6>1, NoneLeft
          <6>3. QED  BY <2>u, <6>2
        <5>2. CASE k # Len(i)
          <6>1. k + 1 \in 1 .. Len(i) /\ Len(i) \in 1 .. Len(i)
            BY <1>0, <5>2
          <6>2. SubSeq(i \o << STOP >>, k + 1, Len(i)) = u
            BY <1>2, <2>u, <6>1, SubSeqOfConcat1
          <6>3. QED  BY <3>1, <6>2
        <5>3. QED  BY <5>1, <5>2
      <4>5. u \in Seq(Nat) /\ Append(u, STOP) = u \o << STOP >>
        BY <1>2, <2>2, UnmarkedItems, AppendIsConcat
      <4>6. QED  BY <4>3, <4>4, <4>5
    <3>5. Len(t) <= Len(q)
      <4>1. Len(t) = (Len(i) - k) + 1
        BY <2>2, <3>3, <3>4
      <4>2. Len(q) = Len(i) + 1
        BY <3>1
      <4>3. k \in Nat /\ Len(i) \in Nat
        BY <1>0
      <4>4. (Len(i) - k) + 1 <= Len(i) + 1
        BY ONLY <4>3
      <4>5. QED  BY ONLY <4>1, <4>2, <4>4
    <3>6. QED  BY ONLY <1>3, <1>5, <1>6, <2>1, <2>2, <2>4, <3>3, <3>4, <3>5
  <2>5. QED  BY ONLY <2>3, <2>4
<1>9. /\ b \in Seq(Row) /\ Len(b) <= BatchSize /\ t \in Seq(Nat) /\ Len(t) <= Len(q)
      /\ Items(t) \in Seq(Row) /\ i = b \o Items(t)
      /\ MeetsStop(q) => t = << >> /\ Marked(q)
      /\ q \in Seq(Row) => t \in Seq(Row) /\ ~Marked(q)
  BY ONLY <1>7, <1>8
<1>10. QED  BY ONLY <1>9, i = Items(q), b = Taken(q), t = Left(q)

Grouped(s, t, u) == (s \o t) \o u = s \o (t \o u)

LEMMA Joins ==
    \A s, t, u \in Seq(Row) : s \o t \in Seq(Row) /\ Grouped(s, t, u)
<1> SUFFICES ASSUME NEW s \in Seq(Row), NEW t \in Seq(Row), NEW u \in Seq(Row)
             PROVE  s \o t \in Seq(Row) /\ Grouped(s, t, u)
  OBVIOUS
<1>1. s \o t \in Seq(Row)
  BY ConcatProperties
<1>2. (s \o t) \o u = s \o (t \o u)
  BY ConcatAssociative
<1>3. QED  BY <1>1, <1>2 DEF Grouped

LEMMA Nothing ==
    /\ << >> \in Seq(Row) /\ Items(<< >>) = << >> /\ Len(<< >>) = 0
    /\ \A s \in Seq(Row) : s \o << >> = s /\ << >> \o s = s
BY EmptySeq, UnmarkedItems, ConcatEmptySeq

\* What is in front stays an initial part of a longer sequence.
LEMMA HoldsFirst ==
    ASSUME NEW f \in Seq(Row), NEW rest \in Seq(Row)
    PROVE  Holds(f \o rest, f)
BY FirstPart DEF Holds

LEMMA HoldsMore ==
    ASSUME NEW f \in Seq(Row), NEW a \in Seq(Row), NEW new \in Seq(Row), Holds(a, f)
    PROVE  Holds(a \o new, f)
<1>1. Len(f) \in 0 .. Len(a) /\ f = SubSeq(a, 1, Len(f))
  BY LenProperties DEF Holds
<1>2. PICK rest \in Seq(Row) : a = f \o rest
  <2>1. /\ SubSeq(a, Len(f) + 1, Len(a)) \in Seq(Row)
        /\ a = SubSeq(a, 1, Len(f)) \o SubSeq(a, Len(f) + 1, Len(a))
    BY ONLY <1>1, a \in Seq(Row), Cut
  <2>2. QED  BY ONLY <1>1, <2>1
<1>3. a \o new = f \o (rest \o new) /\ rest \o new \in Seq(Row)
  <2>1. Grouped(f, rest, new) /\ rest \o new \in Seq(Row)
    BY Joins
  <2>2. QED  BY ONLY <1>2, <2>1 DEF Grouped
<1>4. Holds(f \o (rest \o new), f)
  BY <1>3, HoldsFirst
<1>5. QED  BY <1>3, <1>4

\* start(): nothing was accepted, nothing written.
LEMMA StartOK == WriterOK(TRUE, << >>, "waiting", << >>, << >>, << >>)
<1>1. Holds(<< >> \o << >>, << >>)
  BY Nothing, HoldsFirst
<1>2. QED  BY <1>1, Nothing DEF WriterOK, Unmarked

\* A producer puts items behind the queue of a writer that runs.
LEMMA PutOK ==
    ASSUME NEW q \in Seq(Nat), NEW wk, NEW b \in Seq(Row), NEW f \in Seq(Row),
           NEW a \in Seq(Row), NEW new \in Seq(Row), WriterOK(TRUE, q, wk, b, f, a)
    PROVE  WriterOK(TRUE, q \o new, wk, b, f, a \o new)
<1>1. q \in Seq(Row) /\ wk \in {"waiting", "writing", "died"}
  BY DEF WriterOK, Unmarked
<1>2. q \o new \in Seq(Row)
  BY <1>1, ConcatProperties
<1>3. Items(q) = q /\ Items(q \o new) = q \o new
  BY <1>1, <1>2, UnmarkedItems
<1>4. wk \in {"waiting", "writing"} => a \o new = (f \o b) \o (q \o new)
  <2>1. f \o b \in Seq(Row)
    BY Joins
  <2>2. Grouped(f \o b, q, new)
    BY <1>1, <2>1, Joins
  <2>3. wk \in {"waiting", "writing"} => a = (f \o b) \o q
    BY <1>3 DEF WriterOK
  <2>4. QED  BY ONLY <2>2, <2>3 DEF Grouped
<1>5. Holds(a \o new, f)
  BY HoldsMore DEF WriterOK
<1>6. QED  BY <1>1, <1>2, <1>3, <1>4, <1>5 DEF WriterOK, Unmarked

\* The worker moves the first items into its batch.
LEMMA TakeOK ==
    ASSUME NEW r, NEW q \in Seq(Nat), NEW b \in Seq(Row), NEW f \in Seq(Row),
           NEW a \in Seq(Row), WriterOK(r, q, "waiting", b, f, a)
    PROVE  /\ WriterOK(r, Left(q), IF MeetsStop(q) THEN "last" ELSE "writing", Taken(q), f, a)
           /\ Taken(q) \in Seq(Row) /\ Len(Taken(q)) <= BatchSize
           /\ Left(q) \in Seq(Nat) /\ Len(Left(q)) <= Len(q)
           /\ q \in Seq(Row) => Left(q) \in Seq(Row) /\ ~MeetsStop(q)
<1>1. Items(q) \in Seq(Row) /\ b = << >> /\ a = (f \o b) \o Items(q) /\ Holds(a, f)
  BY DEF WriterOK
<1>2. /\ Taken(q) \in Seq(Row) /\ Len(Taken(q)) <= BatchSize
      /\ Left(q) \in Seq(Nat) /\ Len(Left(q)) <= Len(q)
      /\ Items(Left(q)) \in Seq(Row) /\ Items(q) = Taken(q) \o Items(Left(q))
      /\ MeetsStop(q) => Left(q) = << >> /\ Marked(q)
      /\ q \in Seq(Row) => Left(q) \in Seq(Row) /\ ~Marked(q)
  BY <1>1, BatchTaken
<1>3. a = (f \o Taken(q)) \o Items(Left(q))
  <2>1. a = f \o (Taken(q) \o Items(Left(q)))
    BY ONLY <1>1, <1>2, Nothing, f \in Seq(Row)
  <2>2. Grouped(f, Taken(q), Items(Left(q)))
    BY <1>2, Joins
  <2>3. QED  BY ONLY <2>1, <2>2 DEF Grouped
<1>4. r => q \in Seq(Row)
  BY DEF WriterOK, Unmarked
<1>5. WriterOK(r, Left(q), IF MeetsStop(q) THEN "last" ELSE "writing", Taken(q), f, a)
  BY ONLY <1>1, <1>2, <1>3, <1>4 DEF WriterOK, Unmarked
<1>6. QED  BY ONLY <1>2, <1>5

\* The worker meets the marker first: it is alone in the queue.
LEMMA TakeStopOK ==
    ASSUME NEW r, NEW q \in Seq(Nat), NEW b \in Seq(Row), NEW f \in Seq(Row),
           NEW a \in Seq(Row), WriterOK(r, q, "waiting", b, f, a), q # << >>, Head(q) = STOP
    PROVE  Tail(q) = << >> /\ q \notin Seq(Row) /\ WriterOK(r, << >>, "done", b, f, a)
<1>1. Items(q) \in Seq(Row) /\ b = << >> /\ a = (f \o b) \o Items(q) /\ Holds(a, f)
  BY DEF WriterOK
<1>2. q[1] = STOP
  <2>1. Head(q) = q[1]
    BY q \in Seq(Nat), q # << >>
  <2>2. QED  BY <2>1
<1>3. \A s \in Seq(Row) : s # << >> => s[1] # STOP
  <2> TAKE s \in Seq(Row)
  <2> HAVE s # << >>
  <2>1. 1 \in 1 .. Len(s)
    BY EmptySeq
  <2>2. s[1] \in Row
    BY <2>1, ElementOfSeq
  <2>3. QED  BY <2>2, RowFacts
<1>4. q \notin Seq(Row)
  BY <1>2, <1>3
<1>5. q = Append(Items(q), STOP)
  BY <1>1, <1>4, QueueShape
<1>6. Items(q) = << >>
  <2>1. ASSUME Items(q) # << >> PROVE FALSE
    <3>1. Items(q) \in Seq(Nat) /\ STOP \in Nat
      BY <1>1, UnmarkedItems, RowFacts
    <3>2. 1 \in 1 .. Len(Items(q))
      BY <1>1, <2>1, EmptySeq
    <3>3. Append(Items(q), STOP)[1] = Items(q)[1]
      BY <3>1, <3>2, AppendProperties
    <3>4. QED  BY <1>1, <1>2, <1>3, <1>5, <2>1, <3>3
  <2>2. QED  BY <2>1
<1>7. Tail(q) = << >>
  <2>1. << >> \in Seq(Nat) /\ Len(<< >>) = 0 /\ STOP \in Nat
    BY EmptySeq, RowFacts
  <2>2. Tail(Append(<< >>, STOP)) = << >>
    BY ONLY <2>1, HeadTailAppend
  <2>3. QED  BY <1>5, <1>6, <2>2
<1>8. ~r
  BY <1>4 DEF WriterOK, Unmarked
<1>9. QED  BY <1>1, <1>4, <1>6, <1>7, <1>8, Nothing DEF WriterOK

\* Whatever part of the batch reaches the file, the file is an initial part of
\* what was accepted.
LEMMA TornHolds ==
    ASSUME NEW r, NEW q \in Seq(Nat), NEW wk \in WorkerStates, NEW b \in Seq(Row),
           NEW f \in Seq(Row), NEW a \in Seq(Row), WriterOK(r, q, wk, b, f, a),
           NEW k \in 0 .. Len(b)
    PROVE  f \o SubSeq(b, 1, k) \in Seq(Row) /\ Holds(a, f \o SubSeq(b, 1, k))
<1>1. /\ SubSeq(b, 1, k) \in Seq(Row) /\ SubSeq(b, k + 1, Len(b)) \in Seq(Row)
      /\ b = SubSeq(b, 1, k) \o SubSeq(b, k + 1, Len(b))
  BY Cut
<1>2. PICK c \in Seq(Row), d \in Seq(Row) : c = SubSeq(b, 1, k) /\ b = c \o d
  BY ONLY <1>1
<1>3. f \o c \in Seq(Row)
  BY Joins
<1>4. CASE wk \in {"writing", "last"}
  <2>1. a = (f \o b) \o Items(q) /\ Items(q) \in Seq(Row)
    BY <1>4 DEF WriterOK
  <2>2. PICK i \in Seq(Row) : i = Items(q)
    BY <2>1
  <2>3. d \o i \in Seq(Row)
    BY Joins
  <2>4. Grouped(f, c, d) /\ Grouped(f \o c, d, i)
    BY <1>3, Joins
  <2>5. a = (f \o c) \o (d \o i)
    BY ONLY <1>2, <2>1, <2>2, <2>4 DEF Grouped
  <2>6. Holds((f \o c) \o (d \o i), f \o c)
    BY <1>3, <2>3, HoldsFirst
  <2>7. QED  BY ONLY <1>2, <1>3, <2>5, <2>6
<1>5. CASE wk \notin {"writing", "last"}
  <2>1. b = << >> /\ Holds(a, f)
    BY <1>5 DEF WriterOK
  <2>2. k = 0
    BY <2>1, Nothing
  <2>3. SubSeq(b, 1, 0) = << >>
    BY NoneLeft
  <2>4. f \o << >> = f
    BY Nothing
  <2>5. QED  BY ONLY <2>1, <2>2, <2>3, <2>4, f \in Seq(Row)
<1>6. QED  BY <1>4, <1>5

\* The thread has written the batch.
AfterWrite(wk) == IF wk = "last" THEN "done" ELSE "waiting"

LEMMA WrittenOK ==
    ASSUME NEW r, NEW q \in Seq(Nat), NEW wk \in {"writing", "last"}, NEW b \in Seq(Row),
           NEW f \in Seq(Row), NEW a \in Seq(Row), WriterOK(r, q, wk, b, f, a)
    PROVE  WriterOK(r, q, AfterWrite(wk), << >>, f \o b, a)
<1> PICK g : g = f \o b
  OBVIOUS
<1>1. a = g \o Items(q) /\ Items(q) \in Seq(Row)
  BY DEF WriterOK
<1>2. g \in Seq(Row)
  BY Joins
<1>3. Holds(a, g)
  BY ONLY <1>1, <1>2, HoldsFirst
<1>4. a = (g \o << >>) \o Items(q)
  BY ONLY <1>1, <1>2, Nothing
<1>5. /\ r => Unmarked(q, wk)
      /\ wk = "last" => q = << >>
  BY DEF WriterOK
<1>6. wk = "last" => WriterOK(r, q, "done", << >>, g, a)
  BY ONLY <1>1, <1>3, <1>4, <1>5 DEF WriterOK, Unmarked
<1>7. wk = "writing" => WriterOK(r, q, "waiting", << >>, g, a)
  BY ONLY <1>1, <1>3, <1>4, <1>5 DEF WriterOK, Unmarked
<1>8. QED  BY ONLY <1>6, <1>7, g = f \o b, wk \in {"writing", "last"} DEF AfterWrite

\* The write failed after k items, and the worker died.
LEMMA FailedOK ==
    ASSUME NEW r, NEW q \in Seq(Nat), NEW wk \in {"writing", "last"}, NEW b \in Seq(Row),
           NEW f \in Seq(Row), NEW a \in Seq(Row), WriterOK(r, q, wk, b, f, a),
           NEW k \in 0 .. Len(b)
    PROVE  WriterOK(r, q, "died", << >>, f \o SubSeq(b, 1, k), a)
<1>1. Holds(a, f \o SubSeq(b, 1, k))
  <2>1. wk \in WorkerStates
    BY DEF WorkerStates
  <2>2. QED  BY <2>1, TornHolds, Zenon
<1>2. Items(q) \in Seq(Row) /\ (r => q \in Seq(Row))
  BY DEF WriterOK, Unmarked
<1>3. QED  BY ONLY <1>1, <1>2 DEF WriterOK, Unmarked

\* stop() puts the marker, once.
LEMMA MarkOK ==
    ASSUME NEW r, NEW q \in Seq(Nat), NEW wk, NEW b \in Seq(Row), NEW f \in Seq(Row),
           NEW a \in Seq(Row), WriterOK(r, q, wk, b, f, a), Unmarked(q, wk)
    PROVE  WriterOK(FALSE, Append(q, STOP), wk, b, f, a)
<1>1. q \in Seq(Row) /\ wk \in {"waiting", "writing", "died"}
  BY DEF Unmarked
<1>2. Items(Append(q, STOP)) = q /\ Items(q) = q
  BY <1>1, MarkedItems, UnmarkedItems
<1>3. /\ wk \notin {"writing", "last"} => b = << >>
      /\ Holds(a, f)
      /\ wk \in {"waiting", "writing", "last", "done"} => a = (f \o b) \o q
  BY <1>2 DEF WriterOK
<1>4. QED  BY ONLY <1>1, <1>2, <1>3 DEF WriterOK

\* A killed process leaves an initial part of what was accepted.
LEMMA KilledOK ==
    ASSUME NEW f \in Seq(Row), NEW a \in Seq(Row), Holds(a, f)
    PROVE  WriterOK(FALSE, << >>, "none", << >>, f, a)
BY Nothing DEF WriterOK

-----------------------------------------------------------------------------
(* What producers do                                                        *)

LEMMA WriterNames ==
    /\ Writer = {"store", "gateway_events", "health_events"}
    /\ "store" \in Writer /\ "gateway_events" \in Writer /\ "health_events" \in Writer
BY PipelineAssumption

LEMMA WriterTypes ==
    ASSUME TypeOK
    PROVE  /\ running \in [Writer -> BOOLEAN] /\ queue \in [Writer -> Seq(Nat)]
           /\ batch \in [Writer -> Seq(Row)] /\ file \in [Writer -> Seq(Row)]
           /\ accepted \in [Writer -> Seq(Row)] /\ worker \in [Writer -> WorkerStates]
           /\ \A w \in Writer : /\ Len(queue[w]) \in Nat /\ Len(queue[w]) <= QueueSize[w]
                                /\ Len(batch[w]) <= BatchSize
                                /\ QueueSize[w] \in Nat /\ Free(w) \in Nat
                                /\ Free(w) = QueueSize[w] - Len(queue[w])
<1>1. \A w \in Writer : QueueSize[w] \in Nat
  BY WriterAssumption
<1>2. \A w \in Writer : Len(queue[w]) \in Nat /\ Len(queue[w]) <= QueueSize[w]
  BY LenProperties DEF TypeOK
<1>3. \A w \in Writer : Free(w) \in Nat /\ Free(w) = QueueSize[w] - Len(queue[w])
  BY <1>1, <1>2 DEF Free
<1>4. QED  BY <1>1, <1>2, <1>3 DEF TypeOK, Row

\* The only thing producers do to a file: put items behind its queue.
Puts(w) ==
    \E new \in Seq(Row) :
       /\ queue'[w] = queue[w] \o new
       /\ accepted'[w] = accepted[w] \o new
       /\ running[w] \/ new = << >>
       /\ Len(queue[w] \o new) <= QueueSize[w]

LEMMA PutsThese ==
    ASSUME NEW w, NEW new \in Seq(Row), queue'[w] = queue[w] \o new,
           accepted'[w] = accepted[w] \o new, running[w] \/ new = << >>,
           Len(queue[w] \o new) <= QueueSize[w]
    PROVE  Puts(w)
BY DEF Puts

LEMMA PutsNothing ==
    ASSUME TypeOK, NEW w \in Writer, queue'[w] = queue[w], accepted'[w] = accepted[w]
    PROVE  Puts(w)
<1>1. << >> \in Seq(Row) /\ accepted[w] \o << >> = accepted[w]
  BY WriterTypes, Nothing
<1>2. queue[w] \o << >> = queue[w] /\ Len(queue[w]) <= QueueSize[w]
  BY WriterTypes, ConcatEmptySeq
<1>3. QED  BY <1>1, <1>2 DEF Puts

LEMMA QueuedFacts ==
    ASSUME TypeOK, NEW w \in Writer, NEW items \in Seq(Row)
    PROVE  /\ Queued(w, items) \in Seq(Row)
           /\ running[w] \/ Queued(w, items) = << >>
           /\ Len(queue[w] \o Queued(w, items)) <= QueueSize[w]
<1> DEFINE n == Min({Len(items), Free(w)})
<1>1. Len(items) \in Nat /\ Free(w) \in Nat
  BY WriterTypes, LenProperties
<1>2. n \in 0 .. Len(items) /\ n <= Free(w) /\ n \in Nat
  BY <1>1, MinOfTwo
<1> HIDE DEF n
<1>3. SubSeq(items, 1, n) \in Seq(Row) /\ Len(SubSeq(items, 1, n)) = n
  BY ONLY <1>2, items \in Seq(Row), Cut
<1> USE DEF n
<1>4. Queued(w, items) \in Seq(Row) /\ Len(Queued(w, items)) <= Free(w)
  <2>1. CASE running[w]
    <3>1. Queued(w, items) = SubSeq(items, 1, n)
      BY <2>1 DEF Queued
    <3>2. QED  BY ONLY <1>2, <1>3, <3>1
  <2>2. CASE ~running[w]
    <3>1. Queued(w, items) = << >>
      BY <2>2 DEF Queued
    <3>2. QED  BY ONLY <1>1, <3>1, Nothing
  <2>3. QED  BY <2>1, <2>2
<1>5. Len(queue[w] \o Queued(w, items)) = Len(queue[w]) + Len(Queued(w, items))
  <2>1. Queued(w, items) \in Seq(Nat) /\ queue[w] \in Seq(Nat)
    BY <1>4, WriterTypes, UnmarkedItems
  <2>2. QED  BY <2>1, ConcatProperties
<1>6. Len(Queued(w, items)) \in Nat
  BY <1>4, LenProperties
<1>7. Len(queue[w] \o Queued(w, items)) <= QueueSize[w]
  BY <1>4, <1>5, <1>6, WriterTypes
<1>8. QED  BY <1>4, <1>7 DEF Queued

\* A single item enters unless there is no room.
LEMMA QueuedOne ==
    ASSUME TypeOK, NEW w \in Writer, NEW m \in Row, running[w]
    PROVE  Queued(w, << m >>) = IF Free(w) > 0 THEN << m >> ELSE << >>
<1>1. Free(w) \in Nat /\ Len(<< m >>) = 1 /\ << m >> \in Seq(Row)
  BY WriterTypes
<1>2. Min({1, Free(w)}) = IF 1 <= Free(w) THEN 1 ELSE Free(w)
  BY <1>1, MinOfTwo
<1>3. CASE Free(w) > 0
  <2>1. Min({1, Free(w)}) = 1
    BY <1>1, <1>2, <1>3
  <2>2. SubSeq(<< m >>, 1, Len(<< m >>)) = << m >>
    BY <1>1, SubSeqFull
  <2>3. QED  BY <1>1, <1>3, <2>1, <2>2 DEF Queued
<1>4. CASE ~(Free(w) > 0)
  <2>1. Min({1, Free(w)}) = 0
    BY <1>1, <1>2, <1>4
  <2>2. SubSeq(<< m >>, 1, 0) = << >>
    BY NoneLeft
  <2>3. QED  BY <1>1, <1>4, <2>1, <2>2 DEF Queued
<1>5. QED  BY <1>3, <1>4

\* Rows of an event file are numbers.
LEMMA RowsAreRows ==
    ASSUME TypeOK, NEW w \in Writer, NEW k, NEW rows \in Rows(w, k)
    PROVE  rows \in Seq(Row)
<1>1. PICK j \in 0 .. Min({k, Spare}) : rows = [i \in 1 .. j |-> Len(accepted[w]) + i]
  BY DEF Rows
<1>2. j \in Nat
  OBVIOUS
<1>3. Len(accepted[w]) \in Nat
  BY WriterTypes, LenProperties
<1>4. \A i \in 1 .. j : Len(accepted[w]) + i \in Row
  BY <1>2, <1>3 DEF Row, STOP
<1>5. rows \in [1 .. j -> Row]
  BY <1>1, <1>4
<1>6. QED  BY <1>2, <1>5

\* From what is put it follows that the files stay well-typed.
LEMMA PutsTyped ==
    ASSUME TypeOK, NEW w \in Writer, Puts(w)
    PROVE  /\ queue'[w] \in Seq(Nat) /\ Len(queue'[w]) <= QueueSize[w]
           /\ accepted'[w] \in Seq(Row)
<1>1. PICK new \in Seq(Row) : /\ queue'[w] = queue[w] \o new
                              /\ accepted'[w] = accepted[w] \o new
                              /\ Len(queue[w] \o new) <= QueueSize[w]
  BY DEF Puts
<1>2. new \in Seq(Nat) /\ queue[w] \in Seq(Nat) /\ accepted[w] \in Seq(Row)
  BY WriterTypes, UnmarkedItems
<1>3. queue[w] \o new \in Seq(Nat) /\ accepted[w] \o new \in Seq(Row)
  BY <1>2, ConcatProperties
<1>4. QED  BY ONLY <1>1, <1>3

LEMMA OfferFacts ==
    ASSUME TypeOK, NEW m \in Seq(Row), NEW g, NEW h, Offers(m, g, h)
    PROVE  /\ \A w \in Writer : Puts(w)
           /\ UNCHANGED <<running, worker, batch, file>>
           /\ queue' \in [Writer -> Seq(Nat)] /\ accepted' \in [Writer -> Seq(Row)]
           /\ accepted'["store"] = accepted["store"] \o Queued("store", m)
<1>1. PICK ge \in Rows("gateway_events", g), he \in Rows("health_events", h) :
         Submit([store |-> m, gateway_events |-> ge, health_events |-> he])
  BY DEF Offers
<1>2. ge \in Seq(Row) /\ he \in Seq(Row)
  BY WriterNames, RowsAreRows
<1>3. PICK offer : /\ offer = [store |-> m, gateway_events |-> ge, health_events |-> he]
                   /\ Submit(offer)
  BY <1>1
<1>4. offer["store"] = m /\ \A w \in Writer : offer[w] \in Seq(Row)
  BY ONLY <1>2, <1>3, WriterNames, m \in Seq(Row)
<1>5. /\ queue' = [w \in Writer |-> queue[w] \o Queued(w, offer[w])]
      /\ accepted' = [w \in Writer |-> accepted[w] \o Queued(w, offer[w])]
      /\ UNCHANGED <<running, worker, batch, file>>
  BY <1>3 DEF Submit
<1>6. \A w \in Writer : Puts(w)
  <2> TAKE w \in Writer
  <2>1. offer[w] \in Seq(Row)
    BY <1>4
  <2>2. /\ Queued(w, offer[w]) \in Seq(Row)
        /\ running[w] \/ Queued(w, offer[w]) = << >>
        /\ Len(queue[w] \o Queued(w, offer[w])) <= QueueSize[w]
    BY <2>1, QueuedFacts
  <2>3. /\ queue'[w] = queue[w] \o Queued(w, offer[w])
        /\ accepted'[w] = accepted[w] \o Queued(w, offer[w])
    BY ONLY <1>5, w \in Writer
  <2>4. QED  BY ONLY <2>2, <2>3 DEF Puts
<1>7. \A w \in Writer : queue'[w] \in Seq(Nat) /\ accepted'[w] \in Seq(Row)
  BY <1>6, PutsTyped
<1>8. queue' \in [Writer -> Seq(Nat)] /\ accepted' \in [Writer -> Seq(Row)]
  BY ONLY <1>5, <1>7
<1>9. accepted'["store"] = accepted["store"] \o Queued("store", m)
  BY ONLY <1>4, <1>5, WriterNames
<1>10. QED  BY <1>5, <1>6, <1>8, <1>9

\* The message a handler has been waiting with is put like any other.
LEMMA ResumeFacts ==
    ASSUME TypeOK, NEW c \in Conn, SubmitResumes(c), running["store"], hand[c] \in Row
    PROVE  /\ \A w \in Writer : Puts(w)
           /\ UNCHANGED <<running, worker, batch, file>>
           /\ queue' \in [Writer -> Seq(Nat)] /\ accepted' \in [Writer -> Seq(Row)]
           /\ accepted'["store"] = Append(accepted["store"], hand[c])
<1>1. PICK rows \in Rows("gateway_events", 1) :
         LET new == Queued("gateway_events", rows)
         IN  /\ queue' = [queue EXCEPT !["store"] = Append(@, hand[c]),
                                       !["gateway_events"] = @ \o new]
             /\ accepted' = [accepted EXCEPT !["store"] = Append(@, hand[c]),
                                             !["gateway_events"] = @ \o new]
  BY DEF SubmitResumes
<1>2. PICK new : new = Queued("gateway_events", rows)
  OBVIOUS
<1>3. /\ new \in Seq(Row)
      /\ running["gateway_events"] \/ new = << >>
      /\ Len(queue["gateway_events"] \o new) <= QueueSize["gateway_events"]
  BY <1>2, WriterNames, RowsAreRows, QueuedFacts
<1>4. /\ DOMAIN queue = Writer /\ DOMAIN accepted = Writer
      /\ DOMAIN queue' = Writer /\ DOMAIN accepted' = Writer
      /\ queue'["store"] = Append(queue["store"], hand[c])
      /\ accepted'["store"] = Append(accepted["store"], hand[c])
      /\ queue'["gateway_events"] = queue["gateway_events"] \o new
      /\ accepted'["gateway_events"] = accepted["gateway_events"] \o new
      /\ queue'["health_events"] = queue["health_events"]
      /\ accepted'["health_events"] = accepted["health_events"]
  BY <1>1, <1>2, WriterTypes, WriterNames
<1>5. Puts("store")
  <2>1. << hand[c] >> \in Seq(Row) /\ hand[c] \in Nat
    BY RowFacts
  <2>2. queue["store"] \in Seq(Nat) /\ accepted["store"] \in Seq(Row)
    BY WriterTypes, WriterNames
  <2>3. /\ Append(queue["store"], hand[c]) = queue["store"] \o << hand[c] >>
        /\ Len(Append(queue["store"], hand[c])) = Len(queue["store"]) + 1
    <3>1. PICK q \in Seq(Nat) : q = queue["store"]
      BY <2>2
    <3>2. Append(q, hand[c]) = q \o << hand[c] >>
      BY ONLY <2>1, AppendIsConcat, q \in Seq(Nat)
    <3>3. Len(Append(q, hand[c])) = Len(q) + 1
      BY ONLY <2>1, AppendProperties, q \in Seq(Nat)
    <3>4. QED  BY ONLY <3>1, <3>2, <3>3
  <2>4. Append(accepted["store"], hand[c]) = accepted["store"] \o << hand[c] >>
    BY <2>2, AppendIsConcat
  <2>5. Len(queue["store"]) + 1 <= QueueSize["store"]
    <3>1. Free("store") > 0
      BY DEF SubmitResumes
    <3>2. /\ Len(queue["store"]) \in Nat /\ QueueSize["store"] \in Nat
          /\ Free("store") = QueueSize["store"] - Len(queue["store"])
      BY WriterTypes, WriterNames
    <3>3. QED  BY ONLY <3>1, <3>2
  <2>6. QED  BY ONLY <1>4, <2>1, <2>3, <2>4, <2>5, running["store"] DEF Puts
<1>6. Puts("gateway_events")
  <2>1. /\ queue'["gateway_events"] = queue["gateway_events"] \o new
        /\ accepted'["gateway_events"] = accepted["gateway_events"] \o new
    BY <1>4
  <2>2. QED  BY ONLY <1>3, <2>1, PutsThese
<1>7. Puts("health_events")
  BY <1>4, PutsNothing, WriterNames
<1>8. \A w \in Writer : Puts(w)
  BY ONLY <1>5, <1>6, <1>7, WriterNames
<1>9. \A w \in Writer : queue'[w] \in Seq(Nat) /\ accepted'[w] \in Seq(Row)
  BY <1>8, PutsTyped
<1>10. queue' \in [Writer -> Seq(Nat)] /\ accepted' \in [Writer -> Seq(Row)]
  <2>1. /\ queue' = [w \in Writer |-> queue'[w]]
        /\ accepted' = [w \in Writer |-> accepted'[w]]
    BY <1>1, <1>2, WriterTypes, WriterNames
  <2>2. QED  BY ONLY <1>9, <2>1
<1>11. QED  BY <1>4, <1>8, <1>10 DEF SubmitResumes

-----------------------------------------------------------------------------
(* The files, step by step                                                  *)

WritersOK ==
    /\ running \in [Writer -> BOOLEAN] /\ queue \in [Writer -> Seq(Nat)]
    /\ batch \in [Writer -> Seq(Row)] /\ file \in [Writer -> Seq(Row)]
    /\ accepted \in [Writer -> Seq(Row)] /\ worker \in [Writer -> WorkerStates]
    /\ \A w \in Writer : /\ Len(queue[w]) <= QueueSize[w] /\ Len(batch[w]) <= BatchSize
                         /\ WriterInv(w)

LEMMA IInvWriters == IInv => WritersOK
BY WriterTypes DEF IInv, WritersOK

\* A step that feeds the files and does nothing else to them.
Feeds ==
    /\ \A w \in Writer : Puts(w)
    /\ UNCHANGED <<running, worker, batch, file>>
    /\ queue' \in [Writer -> Seq(Nat)] /\ accepted' \in [Writer -> Seq(Row)]

LEMMA FeedsNothing == ASSUME TypeOK, UNCHANGED writers PROVE Feeds
BY PutsNothing, WriterTypes DEF Feeds, writers

LEMMA FeedsOK ==
    ASSUME IInv, Feeds
    PROVE  WritersOK'
<1>1. WritersOK /\ TypeOK
  BY IInvWriters DEF IInv
<1>2. ASSUME NEW w \in Writer PROVE WriterInv(w)' /\ Len(queue'[w]) <= QueueSize[w]
  <2>1. PICK new \in Seq(Row) : /\ queue'[w] = queue[w] \o new
                                /\ accepted'[w] = accepted[w] \o new
                                /\ running[w] \/ new = << >>
                                /\ Len(queue[w] \o new) <= QueueSize[w]
    BY DEF Feeds, Puts
  <2>2. /\ queue[w] \in Seq(Nat) /\ accepted[w] \in Seq(Row) /\ batch[w] \in Seq(Row)
        /\ file[w] \in Seq(Row) /\ running[w] \in BOOLEAN
        /\ WriterOK(running[w], queue[w], worker[w], batch[w], file[w], accepted[w])
    BY <1>1 DEF WritersOK, WriterInv
  <2>3. /\ running'[w] = running[w] /\ worker'[w] = worker[w]
        /\ batch'[w] = batch[w] /\ file'[w] = file[w]
    BY DEF Feeds
  <2>4. CASE running[w] = TRUE
    <3>1. WriterOK(TRUE, queue[w] \o new, worker[w], batch[w], file[w], accepted[w] \o new)
      <4>1. WriterOK(TRUE, queue[w], worker[w], batch[w], file[w], accepted[w])
        BY <2>2, <2>4
      <4>2. QED  BY <2>2, <4>1, PutOK
    <3>2. QED  BY ONLY <2>1, <2>3, <2>4, <3>1 DEF WriterInv
  <2>5. CASE running[w] = FALSE
    <3>1. queue[w] \o new = queue[w] /\ accepted[w] \o new = accepted[w]
      BY <2>1, <2>2, <2>5, ConcatEmptySeq
    <3>2. QED  BY ONLY <2>1, <2>2, <2>3, <3>1 DEF WriterInv
  <2>6. QED  BY ONLY <2>2, <2>4, <2>5
<1>3. QED  BY <1>1, <1>2 DEF Feeds, WritersOK

\* A step that changes one file at most, and adds nothing to it.
OnlyOf(w) ==
    /\ running' \in [Writer -> BOOLEAN] /\ queue' \in [Writer -> Seq(Nat)]
    /\ batch' \in [Writer -> Seq(Row)] /\ file' \in [Writer -> Seq(Row)]
    /\ worker' \in [Writer -> WorkerStates] /\ accepted' = accepted
    /\ \A v \in Writer : v # w => /\ running'[v] = running[v] /\ queue'[v] = queue[v]
                                  /\ worker'[v] = worker[v] /\ batch'[v] = batch[v]
                                  /\ file'[v] = file[v]

LEMMA OneChanges ==
    ASSUME WritersOK, NEW w \in Writer, OnlyOf(w), Len(queue'[w]) <= QueueSize[w],
           Len(batch'[w]) <= BatchSize,
           WriterOK(running'[w], queue'[w], worker'[w], batch'[w], file'[w], accepted[w])
    PROVE  WritersOK'
<1>1. accepted' \in [Writer -> Seq(Row)]
  BY DEF OnlyOf, WritersOK
<1>2. WriterInv(w)'
  BY DEF WriterInv, OnlyOf
<1>3. \A v \in Writer : v # w => WriterInv(v)'
  BY DEF WriterInv, WritersOK, OnlyOf
<1>4. \A v \in Writer : Len(queue'[v]) <= QueueSize[v] /\ Len(batch'[v]) <= BatchSize
  BY DEF WritersOK, OnlyOf
<1>5. QED  BY <1>1, <1>2, <1>3, <1>4 DEF WritersOK, OnlyOf

LEMMA Same ==
    ASSUME WritersOK, NEW w \in Writer
    PROVE  /\ running[w] \in BOOLEAN /\ queue[w] \in Seq(Nat) /\ worker[w] \in WorkerStates
           /\ batch[w] \in Seq(Row) /\ file[w] \in Seq(Row) /\ accepted[w] \in Seq(Row)
           /\ Len(queue[w]) <= QueueSize[w] /\ Len(batch[w]) <= BatchSize
           /\ Len(queue[w]) \in Nat /\ QueueSize[w] \in Nat /\ BatchSize \in Nat
           /\ WriterOK(running[w], queue[w], worker[w], batch[w], file[w], accepted[w])
<1>1. /\ running[w] \in BOOLEAN /\ queue[w] \in Seq(Nat) /\ worker[w] \in WorkerStates
      /\ batch[w] \in Seq(Row) /\ file[w] \in Seq(Row) /\ accepted[w] \in Seq(Row)
      /\ Len(queue[w]) <= QueueSize[w] /\ Len(batch[w]) <= BatchSize
      /\ WriterOK(running[w], queue[w], worker[w], batch[w], file[w], accepted[w])
  BY DEF WritersOK, WriterInv
<1>2. QueueSize[w] \in Nat /\ BatchSize \in Nat
  BY WriterAssumption
<1>3. Len(queue[w]) \in Nat
  BY <1>1, LenProperties
<1>4. QED  BY <1>1, <1>2, <1>3

\* What a worker does keeps its file in order, and meets no marker that was not
\* put.
LEMMA WorkerOK ==
    ASSUME WritersOK, NEW w \in Writer,
           TakeBatch(w) \/ TakeStop(w) \/ BatchWritten(w) \/ WriteFails(w)
    PROVE  /\ WritersOK' /\ OnlyOf(w) /\ running' = running
           /\ worker[w] \in {"waiting", "writing", "last"}
           /\ worker[w] = "waiting" => queue[w] # << >> /\ file' = file
           /\ Unmarked(queue[w], worker[w]) => Unmarked(queue'[w], worker'[w])
<1> DEFINE q == queue[w]
<1>0. /\ running[w] \in BOOLEAN /\ queue[w] \in Seq(Nat) /\ worker[w] \in WorkerStates
      /\ batch[w] \in Seq(Row) /\ file[w] \in Seq(Row) /\ accepted[w] \in Seq(Row)
      /\ Len(queue[w]) <= QueueSize[w] /\ Len(batch[w]) <= BatchSize
      /\ Len(queue[w]) \in Nat /\ QueueSize[w] \in Nat /\ BatchSize \in Nat
      /\ WriterOK(running[w], queue[w], worker[w], batch[w], file[w], accepted[w])
  BY Same
<1>1. Len(<< >>) = 0 /\ << >> \in Seq(Row) /\ << >> \in Seq(Nat)
  BY Nothing, EmptySeq
<1>2. CASE TakeBatch(w)
  <2>1. /\ worker[w] = "waiting" /\ q # << >>
        /\ batch' = [batch EXCEPT ![w] = Taken(q)]
        /\ queue' = [queue EXCEPT ![w] = Left(q)]
        /\ worker' = [worker EXCEPT ![w] = IF MeetsStop(q) THEN "last" ELSE "writing"]
        /\ running' = running /\ file' = file /\ accepted' = accepted
    BY <1>2 DEF TakeBatch, Taken, Left
  <2>2. WriterOK(running[w], q, "waiting", batch[w], file[w], accepted[w])
    BY <1>0, <2>1
  <2>3. /\ WriterOK(running[w], Left(q), IF MeetsStop(q) THEN "last" ELSE "writing",
                    Taken(q), file[w], accepted[w])
        /\ Taken(q) \in Seq(Row) /\ Len(Taken(q)) <= BatchSize
        /\ Left(q) \in Seq(Nat) /\ Len(Left(q)) <= Len(q)
        /\ q \in Seq(Row) => Left(q) \in Seq(Row) /\ ~MeetsStop(q)
    BY ONLY <1>0, <2>2, TakeOK
  <2>4. /\ running'[w] = running[w] /\ queue'[w] = Left(q) /\ batch'[w] = Taken(q)
        /\ worker'[w] = (IF MeetsStop(q) THEN "last" ELSE "writing") /\ file'[w] = file[w]
    BY <2>1 DEF WritersOK
  <2>5. OnlyOf(w)
    BY <2>1, <2>3 DEF WritersOK, OnlyOf, WorkerStates
  <2>6. Len(queue'[w]) <= QueueSize[w]
    <3>1. Len(Left(q)) \in Nat
      BY <2>3, LenProperties
    <3>2. QED  BY ONLY <1>0, <2>3, <2>4, <3>1
  <2>7. WriterOK(running'[w], queue'[w], worker'[w], batch'[w], file'[w], accepted[w])
    BY ONLY <2>3, <2>4
  <2>8. WritersOK'
    BY <2>3, <2>4, <2>5, <2>6, <2>7, OneChanges
  <2>9. Unmarked(q, worker[w]) => Unmarked(queue'[w], worker'[w])
    BY ONLY <2>3, <2>4 DEF Unmarked
  <2>10. QED  BY ONLY <2>1, <2>5, <2>8, <2>9
<1>3. CASE TakeStop(w)
  <2>1. /\ worker[w] = "waiting" /\ q # << >> /\ Head(q) = STOP
        /\ queue' = [queue EXCEPT ![w] = Tail(q)]
        /\ worker' = [worker EXCEPT ![w] = "done"]
        /\ running' = running /\ file' = file /\ accepted' = accepted /\ batch' = batch
    BY <1>3 DEF TakeStop, WritersOK
  <2>2. WriterOK(running[w], q, "waiting", batch[w], file[w], accepted[w])
    BY <1>0, <2>1
  <2>3. /\ Tail(q) = << >> /\ q \notin Seq(Row)
        /\ WriterOK(running[w], << >>, "done", batch[w], file[w], accepted[w])
    BY ONLY <1>0, <2>1, <2>2, TakeStopOK
  <2>4. /\ running'[w] = running[w] /\ queue'[w] = << >> /\ batch'[w] = batch[w]
        /\ worker'[w] = "done" /\ file'[w] = file[w]
    BY <2>1, <2>3 DEF WritersOK
  <2>5. OnlyOf(w)
    BY <1>1, <2>1, <2>3 DEF WritersOK, OnlyOf, WorkerStates
  <2>6. Len(queue'[w]) <= QueueSize[w] /\ Len(batch'[w]) <= BatchSize
    BY ONLY <1>0, <1>1, <2>4
  <2>7. WriterOK(running'[w], queue'[w], worker'[w], batch'[w], file'[w], accepted[w])
    BY ONLY <2>3, <2>4
  <2>8. WritersOK'
    BY <2>5, <2>6, <2>7, OneChanges
  <2>9. ~Unmarked(q, worker[w])
    BY <2>3 DEF Unmarked
  <2>10. QED  BY ONLY <2>1, <2>5, <2>8, <2>9
<1>4. CASE BatchWritten(w)
  <2>1. /\ worker[w] \in {"writing", "last"}
        /\ file' = [file EXCEPT ![w] = file[w] \o batch[w]]
        /\ batch' = [batch EXCEPT ![w] = << >>]
        /\ worker' = [worker EXCEPT ![w] = AfterWrite(worker[w])]
        /\ running' = running /\ queue' = queue /\ accepted' = accepted
    BY <1>4 DEF BatchWritten, Writing, WritersOK, AfterWrite
  <2>2. WriterOK(running[w], q, AfterWrite(worker[w]), << >>, file[w] \o batch[w], accepted[w])
    BY ONLY <1>0, <2>1, WrittenOK
  <2>0. file[w] \o batch[w] \in Seq(Row)
    BY <1>0, Joins
  <2>3. /\ running'[w] = running[w] /\ queue'[w] = q /\ batch'[w] = << >>
        /\ worker'[w] = AfterWrite(worker[w])
        /\ file'[w] = file[w] \o batch[w]
    BY <2>1 DEF WritersOK
  <2>4. OnlyOf(w)
    BY <1>1, <2>0, <2>1 DEF WritersOK, OnlyOf, WorkerStates, AfterWrite
  <2>5. Len(queue'[w]) <= QueueSize[w] /\ Len(batch'[w]) <= BatchSize
    BY ONLY <1>0, <1>1, <2>3
  <2>6. WriterOK(running'[w], queue'[w], worker'[w], batch'[w], file'[w], accepted[w])
    BY ONLY <2>1, <2>2, <2>3
  <2>7. WritersOK'
    BY <2>4, <2>5, <2>6, OneChanges
  <2>8. Unmarked(q, worker[w]) => Unmarked(queue'[w], worker'[w])
    BY ONLY <2>1, <2>3 DEF Unmarked, AfterWrite
  <2>9. QED  BY ONLY <2>1, <2>4, <2>7, <2>8
<1>5. CASE WriteFails(w)
  <2>1. PICK k \in 0 .. Len(batch[w]) :
        /\ worker[w] \in {"writing", "last"}
        /\ file' = [file EXCEPT ![w] = file[w] \o SubSeq(batch[w], 1, k)]
        /\ batch' = [batch EXCEPT ![w] = << >>]
        /\ worker' = [worker EXCEPT ![w] = "died"]
        /\ running' = running /\ queue' = queue /\ accepted' = accepted
    BY <1>5 DEF WriteFails, Writing, WritersOK, AfterWriteError
  <2>2. WriterOK(running[w], q, "died", << >>, file[w] \o SubSeq(batch[w], 1, k), accepted[w])
    BY ONLY <1>0, <2>1, FailedOK
  <2>3. file[w] \o SubSeq(batch[w], 1, k) \in Seq(Row)
    BY ONLY <1>0, <2>1, TornHolds
  <2>4. /\ running'[w] = running[w] /\ queue'[w] = q /\ batch'[w] = << >>
        /\ worker'[w] = "died" /\ file'[w] = file[w] \o SubSeq(batch[w], 1, k)
    BY <2>1 DEF WritersOK
  <2>5. OnlyOf(w)
    BY <1>1, <2>1, <2>3 DEF WritersOK, OnlyOf, WorkerStates
  <2>6. Len(queue'[w]) <= QueueSize[w] /\ Len(batch'[w]) <= BatchSize
    BY ONLY <1>0, <1>1, <2>4
  <2>7. WriterOK(running'[w], queue'[w], worker'[w], batch'[w], file'[w], accepted[w])
    BY ONLY <2>2, <2>4
  <2>8. WritersOK'
    BY <2>5, <2>6, <2>7, OneChanges
  <2>9. Unmarked(q, worker[w]) => Unmarked(queue'[w], worker'[w])
    BY ONLY <2>4 DEF Unmarked
  <2>10. QED  BY ONLY <2>1, <2>5, <2>8, <2>9
<1>6. QED  BY <1>2, <1>3, <1>4, <1>5

\* stop() puts its marker, unless the queue is full.
LEMMA StopOK ==
    ASSUME WritersOK, NEW w \in Writer, StopWriter(w), running[w]
    PROVE  /\ WritersOK' /\ OnlyOf(w) /\ UNCHANGED <<worker, batch, file, accepted>>
           /\ ~running'[w]
           /\ ~(Free(w) > 0) => Unmarked(queue'[w], worker'[w])
<1>0. /\ running[w] \in BOOLEAN /\ queue[w] \in Seq(Nat) /\ worker[w] \in WorkerStates
      /\ batch[w] \in Seq(Row) /\ file[w] \in Seq(Row) /\ accepted[w] \in Seq(Row)
      /\ Len(queue[w]) <= QueueSize[w] /\ Len(batch[w]) <= BatchSize
      /\ Len(queue[w]) \in Nat /\ QueueSize[w] \in Nat /\ BatchSize \in Nat
      /\ WriterOK(running[w], queue[w], worker[w], batch[w], file[w], accepted[w])
  BY Same
<1>1. /\ running' = [running EXCEPT ![w] = FALSE]
      /\ queue' = IF Free(w) > 0 THEN [queue EXCEPT ![w] = Append(queue[w], STOP)] ELSE queue
      /\ UNCHANGED <<worker, batch, file, accepted>>
  BY DEF StopWriter, WritersOK
<1>2. running'[w] = FALSE
  BY <1>1 DEF WritersOK
<1>3. Unmarked(queue[w], worker[w])
  BY ONLY <1>0, running[w] DEF WriterOK
<1>4. CASE Free(w) > 0
  <2>1. queue' = [queue EXCEPT ![w] = Append(queue[w], STOP)]
    BY <1>1, <1>4
  <2>2. /\ Append(queue[w], STOP) \in Seq(Nat)
        /\ Len(Append(queue[w], STOP)) = Len(queue[w]) + 1
    BY ONLY <1>0, RowFacts, AppendProperties
  <2>3. WriterOK(FALSE, Append(queue[w], STOP), worker[w], batch[w], file[w], accepted[w])
    BY ONLY <1>0, <1>3, MarkOK
  <2>4. queue'[w] = Append(queue[w], STOP)
    BY <2>1 DEF WritersOK
  <2>5. OnlyOf(w)
    BY <1>1, <2>1, <2>2 DEF WritersOK, OnlyOf
  <2>6. Len(queue'[w]) <= QueueSize[w]
    BY ONLY <1>0, <1>4, <2>2, <2>4 DEF Free
  <2>7. /\ WriterOK(running'[w], queue'[w], worker'[w], batch'[w], file'[w], accepted[w])
        /\ Len(batch'[w]) <= BatchSize
    BY ONLY <1>0, <1>1, <1>2, <2>3, <2>4
  <2>8. WritersOK'
    BY <2>5, <2>6, <2>7, OneChanges
  <2>9. QED  BY ONLY <1>1, <1>2, <1>4, <2>5, <2>8
<1>5. CASE ~(Free(w) > 0)
  <2>1. queue' = queue
    BY <1>1, <1>5
  <2>2. WriterOK(FALSE, queue[w], worker[w], batch[w], file[w], accepted[w])
    BY ONLY <1>0 DEF WriterOK
  <2>3. OnlyOf(w)
    BY <1>1, <2>1 DEF WritersOK, OnlyOf
  <2>4. /\ WriterOK(running'[w], queue'[w], worker'[w], batch'[w], file'[w], accepted[w])
        /\ Len(queue'[w]) <= QueueSize[w] /\ Len(batch'[w]) <= BatchSize
    BY ONLY <1>0, <1>1, <1>2, <2>1, <2>2
  <2>5. WritersOK'
    BY <2>3, <2>4, OneChanges
  <2>6. QED  BY ONLY <1>1, <1>2, <1>3, <2>1, <2>3, <2>5
<1>6. QED  BY ONLY <1>4, <1>5

\* The put that had to wait.
LEMMA PutStopOK ==
    ASSUME WritersOK, NEW w \in Writer, PutStop(w), ~running[w],
           Unmarked(queue[w], worker[w])
    PROVE  WritersOK' /\ OnlyOf(w) /\ UNCHANGED <<running, worker, batch, file, accepted>>
<1>0. /\ running[w] \in BOOLEAN /\ queue[w] \in Seq(Nat) /\ worker[w] \in WorkerStates
      /\ batch[w] \in Seq(Row) /\ file[w] \in Seq(Row) /\ accepted[w] \in Seq(Row)
      /\ Len(queue[w]) <= QueueSize[w] /\ Len(batch[w]) <= BatchSize
      /\ Len(queue[w]) \in Nat /\ QueueSize[w] \in Nat /\ BatchSize \in Nat
      /\ WriterOK(running[w], queue[w], worker[w], batch[w], file[w], accepted[w])
  BY Same
<1>1. /\ queue' = [queue EXCEPT ![w] = Append(queue[w], STOP)] /\ Free(w) > 0
      /\ UNCHANGED <<running, worker, batch, file, accepted>>
  BY DEF PutStop, WritersOK
<1>2. /\ Append(queue[w], STOP) \in Seq(Nat)
      /\ Len(Append(queue[w], STOP)) = Len(queue[w]) + 1
  BY ONLY <1>0, RowFacts, AppendProperties
<1>3. WriterOK(FALSE, Append(queue[w], STOP), worker[w], batch[w], file[w], accepted[w])
  BY ONLY <1>0, MarkOK, Unmarked(queue[w], worker[w])
<1>4. queue'[w] = Append(queue[w], STOP)
  BY <1>1 DEF WritersOK
<1>5. OnlyOf(w)
  BY <1>1, <1>2 DEF WritersOK, OnlyOf
<1>6. Len(queue'[w]) <= QueueSize[w]
  BY ONLY <1>0, <1>1, <1>2, <1>4 DEF Free
<1>7. running[w] = FALSE
  BY <1>0
<1>8. /\ WriterOK(running'[w], queue'[w], worker'[w], batch'[w], file'[w], accepted[w])
      /\ Len(batch'[w]) <= BatchSize
  BY ONLY <1>0, <1>1, <1>3, <1>4, <1>7
<1>9. WritersOK'
  BY <1>5, <1>6, <1>8, OneChanges
<1>10. QED  BY ONLY <1>1, <1>5, <1>9

\* Nothing has been accepted for w.
Fresh(w) == queue[w] = << >> /\ batch[w] = << >> /\ file[w] = << >> /\ accepted[w] = << >>

LEMMA StartWriterOK ==
    ASSUME WritersOK, NEW w \in Writer, StartWriter(w), Fresh(w)
    PROVE  WritersOK' /\ OnlyOf(w) /\ running'[w] /\ worker'[w] = "waiting"
<1>1. /\ running' = [running EXCEPT ![w] = TRUE]
      /\ worker' = [worker EXCEPT ![w] = "waiting"]
      /\ UNCHANGED <<queue, batch, file, accepted>>
  BY DEF StartWriter
<1>2. running'[w] = TRUE /\ worker'[w] = "waiting"
  BY <1>1 DEF WritersOK
<1>3. OnlyOf(w)
  BY <1>1 DEF WritersOK, OnlyOf, WorkerStates
<1>4. /\ WriterOK(running'[w], queue'[w], worker'[w], batch'[w], file'[w], accepted[w])
      /\ Len(queue'[w]) <= QueueSize[w] /\ Len(batch'[w]) <= BatchSize
  <2>1. Len(queue[w]) <= QueueSize[w] /\ Len(batch[w]) <= BatchSize
    BY Same
  <2>2. /\ queue'[w] = << >> /\ batch'[w] = << >> /\ file'[w] = << >> /\ accepted[w] = << >>
        /\ queue'[w] = queue[w] /\ batch'[w] = batch[w]
    BY <1>1 DEF Fresh
  <2>3. QED  BY ONLY <1>2, <2>1, <2>2, StartOK
<1>5. WritersOK'
  BY <1>3, <1>4, OneChanges
<1>6. QED  BY ONLY <1>2, <1>3, <1>5

\* The recorder stops the first event file when the second cannot be created.
LEMMA StartFailsOK ==
    ASSUME WritersOK, StartFails, Fresh("gateway_events")
    PROVE  WritersOK' /\ UNCHANGED <<queue, batch, file, accepted>>
<1> DEFINE g == "gateway_events"
<1>0. g \in Writer
  BY WriterNames
<1>1. PICK undone :
         /\ undone = (IF Starting("health_events") THEN {g} ELSE {})
         /\ running' = [w \in Writer |-> running[w] /\ w \notin undone]
         /\ worker' = [w \in Writer |-> IF w \in undone THEN "done" ELSE worker[w]]
         /\ UNCHANGED <<queue, batch, file, accepted>>
  BY DEF StartFails
<1>2. /\ \A v \in Writer : running'[v] \in BOOLEAN /\ worker'[v] \in WorkerStates
      /\ \A v \in Writer : v # g => running'[v] = running[v] /\ worker'[v] = worker[v]
  <2>1. \A v \in Writer : running[v] \in BOOLEAN /\ worker[v] \in WorkerStates
    BY DEF WritersOK
  <2>2. \A v \in Writer : v # g => v \notin undone
    BY <1>1
  <2>3. \A v \in Writer : v # g => running'[v] = running[v]
    <3> TAKE v \in Writer
    <3> HAVE v # g
    <3>1. running'[v] = (running[v] /\ v \notin undone)
      BY <1>1
    <3>2. QED  BY <2>1, <2>2, <3>1
  <2>4. \A v \in Writer : running'[v] \in BOOLEAN
    BY <1>1
  <2>5. QED  BY <1>1, <2>1, <2>2, <2>3, <2>4 DEF WorkerStates
<1>3. OnlyOf(g)
  <2>1. running' \in [Writer -> BOOLEAN] /\ worker' \in [Writer -> WorkerStates]
    BY <1>1, <1>2
  <2>2. QED  BY ONLY <1>1, <1>2, <2>1, WritersOK DEF OnlyOf, WritersOK
<1>4. /\ running[g] \in BOOLEAN /\ Len(queue[g]) <= QueueSize[g] /\ Len(batch[g]) <= BatchSize
      /\ WriterOK(running[g], queue[g], worker[g], batch[g], file[g], accepted[g])
  BY <1>0, Same
<1>5. queue'[g] = queue[g] /\ batch'[g] = batch[g] /\ file'[g] = file[g]
  BY <1>1
<1>6. WriterOK(running'[g], queue'[g], worker'[g], batch'[g], file'[g], accepted[g])
  <2>1. CASE undone = {g}
    <3>1. running'[g] = FALSE /\ worker'[g] = "done"
      BY <1>0, <1>1, <2>1
    <3>2. WriterOK(FALSE, << >>, "done", << >>, << >>, << >>)
      BY StartOK, Nothing DEF WriterOK
    <3>3. QED  BY ONLY <1>5, <3>1, <3>2, Fresh(g) DEF Fresh
  <2>2. CASE undone = {}
    <3>1. running'[g] = running[g] /\ worker'[g] = worker[g]
      BY <1>0, <1>1, <1>4, <2>2
    <3>2. QED  BY ONLY <1>4, <1>5, <3>1
  <2>3. QED  BY <1>1, <2>1, <2>2
<1>7. WritersOK'
  BY <1>0, <1>3, <1>4, <1>5, <1>6, OneChanges
<1>8. QED  BY <1>1, <1>7

\* A killed process: its memory is gone, any part of the batches was written.
LEMMA ProcessKilledOK ==
    ASSUME WritersOK, Killed
    PROVE  /\ WritersOK' /\ accepted' = accepted
           /\ \A w \in Writer : file'[w] \in Torn(w)
<1>1. PICK s \in Torn("store"), g \in Torn("gateway_events"), h \in Torn("health_events") :
         file' = [store |-> s, gateway_events |-> g, health_events |-> h]
  BY DEF Killed
<1>2. \A w \in Writer : file'[w] \in Torn(w)
  BY ONLY <1>1, WriterNames
<1>3. DOMAIN file' = Writer /\ file' = [w \in Writer |-> file'[w]]
  BY ONLY <1>1, WriterNames
<1>4. /\ running' = [w \in Writer |-> FALSE] /\ worker' = [w \in Writer |-> "none"]
      /\ queue' = [w \in Writer |-> << >>] /\ batch' = [w \in Writer |-> << >>]
      /\ accepted' = accepted
  BY DEF Killed
<1>5. \A w \in Writer : /\ running'[w] = FALSE /\ worker'[w] = "none"
                        /\ queue'[w] = << >> /\ batch'[w] = << >>
  BY ONLY <1>4
<1>6. ASSUME NEW w \in Writer
      PROVE  file'[w] \in Seq(Row) /\ WriterInv(w)'
  <2>1. PICK k \in 0 .. Len(batch[w]) : file'[w] = file[w] \o SubSeq(batch[w], 1, k)
    BY <1>2 DEF Torn
  <2>2. /\ running[w] \in BOOLEAN /\ queue[w] \in Seq(Nat) /\ worker[w] \in WorkerStates
        /\ batch[w] \in Seq(Row) /\ file[w] \in Seq(Row) /\ accepted[w] \in Seq(Row)
        /\ WriterOK(running[w], queue[w], worker[w], batch[w], file[w], accepted[w])
    BY Same
  <2>3. /\ file[w] \o SubSeq(batch[w], 1, k) \in Seq(Row)
        /\ Holds(accepted[w], file[w] \o SubSeq(batch[w], 1, k))
    BY ONLY <2>2, TornHolds, k \in 0 .. Len(batch[w])
  <2>4. file'[w] \in Seq(Row) /\ Holds(accepted[w], file'[w])
    BY ONLY <2>1, <2>3
  <2>5. WriterOK(FALSE, << >>, "none", << >>, file'[w], accepted[w])
    BY ONLY <2>2, <2>4, KilledOK
  <2>6. QED  BY ONLY <1>4, <1>5, <2>4, <2>5, w \in Writer DEF WriterInv
<1>7. \A w \in Writer : Len(queue'[w]) <= QueueSize[w] /\ Len(batch'[w]) <= BatchSize
  <2>1. \A w \in Writer : QueueSize[w] \in Nat /\ BatchSize \in Nat
    BY WriterAssumption
  <2>2. QED  BY ONLY <1>5, <2>1, Nothing
<1>8. /\ running' \in [Writer -> BOOLEAN] /\ queue' \in [Writer -> Seq(Nat)]
      /\ batch' \in [Writer -> Seq(Row)] /\ file' \in [Writer -> Seq(Row)]
      /\ accepted' \in [Writer -> Seq(Row)] /\ worker' \in [Writer -> WorkerStates]
  <2>1. << >> \in Seq(Nat) /\ << >> \in Seq(Row) /\ "none" \in WorkerStates
    BY Nothing, EmptySeq DEF WorkerStates
  <2>2. running' \in [Writer -> BOOLEAN] /\ worker' \in [Writer -> WorkerStates]
    BY ONLY <1>4, <2>1
  <2>3. queue' \in [Writer -> Seq(Nat)] /\ batch' \in [Writer -> Seq(Row)]
    BY ONLY <1>4, <2>1
  <2>4. file' \in [Writer -> Seq(Row)]
    BY ONLY <1>3, <1>6
  <2>5. accepted' \in [Writer -> Seq(Row)]
    BY <1>4 DEF WritersOK
  <2>6. QED  BY ONLY <2>2, <2>3, <2>4, <2>5
<1>9. WritersOK'
  BY ONLY <1>6, <1>7, <1>8 DEF WritersOK
<1>10. QED  BY ONLY <1>2, <1>4, <1>9

-----------------------------------------------------------------------------
(* Kinds of steps                                                           *)

\* Producers feed the files: the clients, the monitor and the forwarder.
ClientStep ==
    \E c \in Conn : Accept(c) \/ Receive(c) \/ SubmitResumes(c) \/ Rejects(c) \/ Leaves(c)

FeedStep == ClientStep \/ MonitorEmits \/ ForwarderEmits

\* Workers and their threads.
WorkStep == \E w \in Writer : Takes(w) \/ Wrote(w) \/ WriteError(w)

\* The process starts or stops a file, or ends.
StopStep == \E w \in Writer : StopsWriter(w) \/ PutsStop(w)

\* Nothing happens to the files.
RestStep ==
    \/ StartsMetrics \/ StartsForwarder \/ StartsGateway
    \/ GatewayStopped \/ ForwarderStopped
    \/ \E w \in Writer : WriterJoined(w)
    \/ MetricsJoined \/ WritesSummary \/ SampleFails \/ StopBegins \/ ForwarderRaises
    \/ UNCHANGED vars

LEMMA Kinds ==
    ASSUME [Next]_vars
    PROVE  FeedStep \/ WorkStep \/ StopStep \/ (\E w \in Writer : StartsWriter(w))
           \/ StartFails \/ Killed \/ RestStep
<1>1. CASE CliStep
  BY <1>1 DEF CliStep, StopStep, RestStep
<1>2. CASE Next /\ ~CliStep
  BY <1>2 DEF Next, FeedStep, ClientStep, WorkStep, RestStep, Terminated
<1>3. CASE UNCHANGED vars
  BY <1>3 DEF RestStep
<1>4. QED  BY <1>1, <1>2, <1>3

LEMMA RestUnchanged == ASSUME RestStep PROVE UNCHANGED writers
BY DEF RestStep, StartsMetrics, StartsForwarder, StartsGateway, GatewayStopped,
       ForwarderStopped, WriterJoined, MetricsJoined, WritesSummary, SampleFails,
       StopBegins, ForwarderRaises, vars

\* Stage n of the start and of the shutdown.
LEMMA StartStages ==
    ASSUME NEW n \in 1 .. 6
    PROVE  /\ StartOrder[n] = "gateway_events" <=> n = 1
           /\ StartOrder[n] = "health_events" <=> n = 2
           /\ StartOrder[n] = "metrics" <=> n = 3
           /\ StartOrder[n] = "store" <=> n = 4
           /\ StartOrder[n] = "forwarder" <=> n = 5
           /\ StartOrder[n] = "gateway" <=> n = 6
<1>1. n = 1 \/ n = 2 \/ n = 3 \/ n = 4 \/ n = 5 \/ n = 6
  OBVIOUS
<1>2. /\ StartOrder[1] = "gateway_events" /\ StartOrder[2] = "health_events"
      /\ StartOrder[3] = "metrics" /\ StartOrder[4] = "store"
      /\ StartOrder[5] = "forwarder" /\ StartOrder[6] = "gateway"
  BY DEF StartOrder
<1>3. QED  BY ONLY <1>1, <1>2

LEMMA StopStages ==
    ASSUME NEW n \in 1 .. 7
    PROVE  /\ StopOrder[n] = "gateway" <=> n = 1
           /\ StopOrder[n] = "forwarder" <=> n = 2
           /\ StopOrder[n] = "store" <=> n = 3
           /\ StopOrder[n] = "metrics" <=> n = 4
           /\ StopOrder[n] = "gateway_events" <=> n = 5
           /\ StopOrder[n] = "health_events" <=> n = 6
           /\ StopOrder[n] = "summary" <=> n = 7
<1>1. n = 1 \/ n = 2 \/ n = 3 \/ n = 4 \/ n = 5 \/ n = 6 \/ n = 7
  OBVIOUS
<1>2. /\ StopOrder[1] = "gateway" /\ StopOrder[2] = "forwarder" /\ StopOrder[3] = "store"
      /\ StopOrder[4] = "metrics" /\ StopOrder[5] = "gateway_events"
      /\ StopOrder[6] = "health_events" /\ StopOrder[7] = "summary"
  BY DEF StopOrder
<1>3. QED  BY ONLY <1>1, <1>2

LEMMA RestTypes ==
    ASSUME TypeOK
    PROVE  /\ cli \in CliStates /\ stage \in 1 .. 7 /\ step \in {"call", "put", "join"}
           /\ handler \in [Conn -> HandlerStates] /\ hand \in [Conn -> 0 .. MaxMessages]
           /\ received \in 0 .. MaxMessages /\ forwarder \in {"none", "running", "stopped"}
           /\ forwarded \in Seq(1 .. MaxMessages) /\ metrics \in MetricsStates
           /\ diskErrors \in 0 .. MaxDiskErrors
<1>1. Len(StopOrder) = 7
  BY DEF StopOrder
<1>2. QED  BY <1>1 DEF TypeOK

LEMMA StageTypes ==
    ASSUME IInv
    PROVE  stage \in 1 .. 7 /\ (cli = "starting" => stage \in 1 .. 6)
<1>1. stage \in 1 .. 7
  BY RestTypes DEF IInv
<1>2. cli = "starting" => stage <= 6
  BY DEF IInv, StageInv
<1>3. QED  BY <1>1, <1>2

LEMMA LiveServes ==
    ASSUME IInv, NEW c \in Conn, Live(c)
    PROVE  cli # "starting" /\ cli # "exited" /\ \A w \in Writer : running[w]
BY DEF IInv, StageInv, ProducersHaveSinks, Live

\* A file is told to stop once.
LEMMA StopIsFirst ==
    ASSUME IInv, NEW w \in Writer, Stopping(w)
    PROVE  step = "call" => running[w]
<1>1. stage \in 1 .. 7 /\ StopOrder[stage] = w /\ cli = "stopping"
  BY StageTypes DEF Stopping
<1>2. /\ NotStopped(3) => running["store"]
      /\ NotStopped(5) => running["gateway_events"]
      /\ NotStopped(6) => running["health_events"]
  BY <1>1 DEF IInv, StageInv
<1>3. QED  BY <1>1, <1>2, StopStages, WriterNames DEF NotStopped

\* What an offer without a message does to the files: it feeds the event files.
LEMMA OfferEvents ==
    ASSUME TypeOK, NEW g, NEW h, Offers(<< >>, g, h)
    PROVE  Feeds /\ accepted'["store"] = accepted["store"]
<1>1. Feeds /\ accepted'["store"] = accepted["store"] \o Queued("store", << >>)
  BY OfferFacts, Nothing DEF Feeds
<1>2. Free("store") \in Nat
  BY WriterTypes, WriterNames
<1>3. Min({0, Free("store")}) = 0
  BY <1>2, MinOfTwo
<1>4. SubSeq(<< >>, 1, 0) = << >>
  BY NoneLeft
<1>5. Queued("store", << >>) = << >>
  BY <1>3, <1>4, Nothing DEF Queued
<1>6. accepted["store"] \o << >> = accepted["store"]
  BY WriterTypes, WriterNames, Nothing
<1>7. QED  BY <1>1, <1>5, <1>6

LEMMA MessageRow ==
    ASSUME TypeOK
    PROVE  /\ received + 1 \in Row /\ << received + 1 >> \in Seq(Row)
           /\ \A m \in 1 .. received : m \in Row
           /\ received \in Nat /\ MaxMessages \in Nat /\ received <= MaxMessages
<1>1. received \in 0 .. MaxMessages /\ MaxMessages \in Nat
  BY RestTypes, PipelineAssumption
<1>2. received + 1 \in Row /\ \A m \in 1 .. received : m \in Row
  BY <1>1 DEF Row, STOP
<1>3. QED  BY <1>1, <1>2

\* A message the store accepts is the last of its evidence.
LEMMA ReceiveFacts ==
    ASSUME IInv, NEW c \in Conn, Receive(c)
    PROVE  /\ Feeds /\ running["store"] /\ received' = received + 1
           /\ received < MaxMessages
           /\ Free("store") > 0 =>
                 /\ accepted'["store"] = Append(accepted["store"], received + 1)
                 /\ handler' = [handler EXCEPT ![c] = "reading"]
                 /\ hand' = [hand EXCEPT ![c] = 0]
                 /\ forwarded' \in {forwarded, Append(forwarded, received + 1)}
           /\ ~(Free("store") > 0) =>
                 /\ accepted'["store"] = accepted["store"]
                 /\ handler' = [handler EXCEPT ![c] = "submitting"]
                 /\ hand' = [hand EXCEPT ![c] = received + 1]
                 /\ forwarded' = forwarded
<1> DEFINE m == received + 1
<1>0. TypeOK /\ running["store"] /\ "store" \in Writer
  BY LiveServes, WriterNames DEF IInv, Receive, Live
<1>1. << m >> \in Seq(Row) /\ m \in Row
  BY <1>0, MessageRow
<1>2. Feeds /\ accepted'["store"] = accepted["store"] \o Queued("store", << m >>)
  <2>1. Offers(<< m >>, 3, 1)
    BY DEF Receive
  <2>2. QED  BY ONLY <1>0, <1>1, <2>1, OfferFacts DEF Feeds
<1>3. Queued("store", << m >>) = IF Free("store") > 0 THEN << m >> ELSE << >>
  BY <1>0, <1>1, QueuedOne
<1>4. /\ handler' = [handler EXCEPT ![c] = IF Free("store") > 0 THEN "reading" ELSE "submitting"]
      /\ hand' = [hand EXCEPT ![c] = IF handler'[c] = "submitting" THEN m ELSE 0]
      /\ IF Free("store") > 0 THEN MayForward(m) ELSE forwarded' = forwarded
      /\ received' = m /\ received < MaxMessages
  BY <1>0 DEF Receive, ForwardsAtOnce
<1>5. accepted["store"] \in Seq(Row) /\ DOMAIN handler = Conn
  BY <1>0, WriterTypes, RestTypes
<1>6. CASE Free("store") > 0
  <2>1. accepted'["store"] = accepted["store"] \o << m >>
    BY <1>2, <1>3, <1>6
  <2>2. Append(accepted["store"], m) = accepted["store"] \o << m >>
    BY ONLY <1>1, <1>5, AppendIsConcat
  <2>3. handler' = [handler EXCEPT ![c] = "reading"]
    BY <1>4, <1>6
  <2>4. handler'[c] # "submitting"
    BY <1>5, <2>3
  <2>5. hand' = [hand EXCEPT ![c] = 0]
    BY <1>4, <2>4
  <2>6. forwarded' \in {forwarded, Append(forwarded, m)}
    BY <1>4, <1>6 DEF MayForward
  <2>7. QED  BY ONLY <1>0, <1>2, <1>4, <1>6, <2>1, <2>2, <2>3, <2>5, <2>6
<1>7. CASE ~(Free("store") > 0)
  <2>1. accepted'["store"] = accepted["store"] \o << >>
    BY <1>2, <1>3, <1>7
  <2>2. accepted["store"] \o << >> = accepted["store"]
    BY <1>5, Nothing
  <2>3. handler' = [handler EXCEPT ![c] = "submitting"]
    BY <1>4, <1>7
  <2>4. handler'[c] = "submitting"
    BY <1>5, <2>3
  <2>5. hand' = [hand EXCEPT ![c] = m]
    BY <1>4, <2>4
  <2>6. forwarded' = forwarded
    BY <1>4, <1>7
  <2>7. QED  BY ONLY <1>0, <1>2, <1>4, <1>7, <2>1, <2>2, <2>3, <2>5, <2>6
<1>8. QED  BY ONLY <1>6, <1>7

\* So is the one a handler had to wait with.
LEMMA ResumesFacts ==
    ASSUME IInv, NEW c \in Conn, SubmitResumes(c)
    PROVE  /\ Feeds /\ running["store"] /\ Waiting(c) /\ hand[c] \in 1 .. received
           /\ accepted'["store"] = Append(accepted["store"], hand[c])
           /\ handler' = [handler EXCEPT ![c] = "reading"]
           /\ hand' = [hand EXCEPT ![c] = 0]
           /\ forwarded' \in {forwarded, Append(forwarded, hand[c])}
           /\ received' = received
<1>1. TypeOK /\ Waiting(c) /\ Live(c)
  BY DEF IInv, SubmitResumes, Waiting, Live
<1>2. running["store"]
  BY <1>1, LiveServes, WriterNames
<1>3. hand[c] \in 1 .. received
  BY <1>1 DEF IInv, MessageInv
<1>4. hand[c] \in Row
  BY <1>1, <1>3, MessageRow
<1>5. Feeds /\ accepted'["store"] = Append(accepted["store"], hand[c])
  BY <1>1, <1>2, <1>4, ResumeFacts DEF Feeds
<1>6. QED  BY <1>1, <1>2, <1>3, <1>5 DEF SubmitResumes, MayForward

\* Producers leave the process alone, and are at work only between its start
\* and its end.
LEMMA FeedFacts ==
    ASSUME IInv, FeedStep
    PROVE  /\ Feeds /\ UNCHANGED <<process, forwarder, sampler>>
           /\ cli # "starting" /\ ~Ended
           /\ \A c \in Conn : Live(c)' => Live(c) \/ cli = "serving"
<1>0. TypeOK /\ DOMAIN handler = Conn
  BY RestTypes DEF IInv
<1>1. ASSUME NEW c \in Conn, Accept(c)
      PROVE  /\ Feeds /\ UNCHANGED <<process, forwarder, sampler>>
             /\ cli = "serving"
  BY <1>0, <1>1, OfferEvents DEF Accept, upstream
<1>2. ASSUME NEW c \in Conn, Receive(c)
      PROVE  /\ Feeds /\ UNCHANGED <<process, forwarder, sampler>>
             /\ ~Ended /\ Live(c) /\ handler' = [handler EXCEPT ![c] = handler'[c]]
  <2>1. Feeds
    BY <1>2, ReceiveFacts
  <2>2. QED  BY <1>0, <1>2, <2>1 DEF Receive, Live
<1>3. ASSUME NEW c \in Conn, SubmitResumes(c)
      PROVE  /\ Feeds /\ UNCHANGED <<process, forwarder, sampler>>
             /\ ~Ended /\ Live(c) /\ handler' = [handler EXCEPT ![c] = handler'[c]]
  <2>1. Feeds
    BY <1>3, ResumesFacts
  <2>2. QED  BY <1>0, <1>3, <2>1 DEF SubmitResumes, Live
<1>4. ASSUME NEW c \in Conn, Rejects(c)
      PROVE  /\ Feeds /\ UNCHANGED <<process, forwarder, sampler>>
             /\ ~Ended /\ Live(c) /\ handler' = handler
  BY <1>0, <1>4, OfferEvents DEF Rejects, Live, clients, upstream
<1>5. ASSUME NEW c \in Conn, Leaves(c)
      PROVE  /\ Feeds /\ UNCHANGED <<process, forwarder, sampler>>
             /\ ~Ended /\ Live(c) /\ handler' = [handler EXCEPT ![c] = handler'[c]]
  BY <1>0, <1>5, OfferEvents DEF Leaves, Live, upstream
<1>6. CASE MonitorEmits
  BY <1>0, <1>6, OfferEvents DEF MonitorEmits, clients, upstream, Ended
<1>7. CASE ForwarderEmits
  <2>1. Feeds /\ UNCHANGED <<process, forwarder, sampler, handler>> /\ ~Ended
    BY <1>0, <1>7, OfferEvents DEF ForwarderEmits, clients, upstream
  <2>2. cli # "starting"
    <3>1. forwarded # << >> /\ forwarded \in Seq(1 .. MaxMessages)
      BY <1>0, <1>7, RestTypes DEF ForwarderEmits
    <3>2. 1 \in 1 .. Len(forwarded)
      BY <3>1, EmptySeq
    <3>3. forwarded[1] \in ToSet(forwarded)
      BY <3>1, <3>2 DEF ToSet
    <3>4. forwarded[1] \in ToSet(accepted["store"])
      BY <3>3 DEF IInv, ForwardFollowsEvidence
    <3>5. ToSet(<< >>) = {}
      BY DEF ToSet
    <3>6. accepted["store"] # << >>
      BY ONLY <3>4, <3>5
    <3>7. QED  BY <3>6, WriterNames DEF IInv, StageInv
  <2>3. QED  BY <2>1, <2>2 DEF Live
<1>8. CASE \E c \in Conn : Accept(c)
  BY <1>1, <1>8 DEF Ended
<1>9. ASSUME NEW c \in Conn, Live(c), ~Ended, Feeds, UNCHANGED <<process, forwarder, sampler>>,
             handler' = handler \/ handler' = [handler EXCEPT ![c] = handler'[c]]
      PROVE  /\ cli # "starting"
             /\ \A d \in Conn : Live(d)' => Live(d) \/ cli = "serving"
  <2>1. cli # "starting"
    BY <1>9, LiveServes
  <2>2. ASSUME NEW d \in Conn, Live(d)' PROVE Live(d)
    <3>1. d = c \/ handler'[d] = handler[d]
      BY <1>0, <1>9
    <3>2. QED  BY <1>9, <2>2, <3>1 DEF Live
  <2>3. QED  BY <2>1, <2>2
<1>10. CASE \E c \in Conn : Receive(c) \/ SubmitResumes(c) \/ Rejects(c) \/ Leaves(c)
  BY <1>2, <1>3, <1>4, <1>5, <1>9, <1>10
<1>11. QED  BY <1>6, <1>7, <1>8, <1>10 DEF FeedStep, ClientStep

-----------------------------------------------------------------------------
(* Files, stages and sinks are kept                                         *)

\* What the stages say about one state, without the files of a fresh process.
LEMMA FreshStart ==
    ASSUME IInv, cli = "starting"
    PROVE  \A w \in Writer : Fresh(w) /\ worker[w] \in {"none", "waiting"}
BY DEF IInv, StageInv, Fresh

LEMMA WritersStep ==
    ASSUME IInv, [Next]_vars
    PROVE  WritersOK'
<1>0. WritersOK /\ TypeOK
  BY IInvWriters DEF IInv
<1>1. CASE FeedStep
  BY <1>1, FeedFacts, FeedsOK
<1>2. CASE WorkStep
  BY <1>0, <1>2, WorkerOK DEF WorkStep, Takes, Wrote, WriteError
<1>3. CASE StopStep
  <2>1. ASSUME NEW w \in Writer, StopsWriter(w) PROVE WritersOK'
    BY <1>0, <2>1, StopOK, StopIsFirst DEF StopsWriter
  <2>2. ASSUME NEW w \in Writer, PutsStop(w) PROVE WritersOK'
    <3>1. ~running[w] /\ Unmarked(queue[w], worker[w]) /\ PutStop(w)
      BY <2>2 DEF PutsStop, Stopping, IInv, StageInv
    <3>2. QED  BY <1>0, <3>1, PutStopOK
  <2>3. QED  BY <1>3, <2>1, <2>2 DEF StopStep
<1>4. CASE \E w \in Writer : StartsWriter(w)
  BY <1>0, <1>4, FreshStart, StartWriterOK DEF StartsWriter, Starting
<1>5. CASE StartFails
  <2>1. Fresh("gateway_events")
    BY <1>5, FreshStart, WriterNames DEF StartFails
  <2>2. QED  BY <1>0, <1>5, <2>1, StartFailsOK
<1>6. CASE Killed
  BY <1>0, <1>6, ProcessKilledOK
<1>7. CASE RestStep
  BY <1>0, <1>7, RestUnchanged, FeedsNothing, FeedsOK
<1>8. QED  BY <1>1, <1>2, <1>3, <1>4, <1>5, <1>6, <1>7, Kinds

\* A file that is not running is not fed.
LEMMA NotFed ==
    ASSUME TypeOK, Feeds, NEW w \in Writer, ~running[w]
    PROVE  queue'[w] = queue[w]
<1>1. queue'[w] = queue[w] \o << >>
  BY DEF Feeds, Puts
<1>2. queue[w] \o << >> = queue[w]
  BY WriterTypes, ConcatEmptySeq
<1>3. QED  BY <1>1, <1>2

LEMMA FeedStages ==
    ASSUME IInv, Feeds, UNCHANGED <<process, forwarder>>,
           cli = "starting" => UNCHANGED <<writers, handler>>,
           \A c \in Conn : Live(c)' => Live(c) \/ cli = "serving"
    PROVE  StageInv' /\ ProducersHaveSinks'
<1>0. TypeOK /\ StageInv /\ ProducersHaveSinks
  BY DEF IInv
<1>1. /\ cli' = cli /\ stage' = stage /\ step' = step /\ forwarder' = forwarder
      /\ running' = running /\ worker' = worker
  BY DEF Feeds, process
<1>2. CASE cli = "starting"
  <2>1. UNCHANGED <<writers, handler>>
    BY <1>2
  <2>2. QED  BY ONLY <1>0, <1>1, <1>2, <2>1 DEF StageInv, ProducersHaveSinks, writers, Live
<1>3. CASE cli # "starting"
  <2>1. ProducersHaveSinks'
    <3>1. cli = "serving" => \A w \in Writer : running[w]
      BY <1>0 DEF StageInv
    <3>2. (\E c \in Conn : Live(c)') => \A w \in Writer : running[w]
      BY <1>0, <3>1 DEF ProducersHaveSinks
    <3>3. forwarder = "running" => running["gateway_events"]
      BY <1>0 DEF ProducersHaveSinks
    <3>4. QED  BY ONLY <1>1, <3>2, <3>3 DEF ProducersHaveSinks
  <2>2. ASSUME NEW w \in Writer, cli = "stopping", StopOrder[stage] = w, step = "put"
        PROVE  ~running'[w] /\ Unmarked(queue'[w], worker'[w])
    <3>1. ~running[w] /\ Unmarked(queue[w], worker[w])
      BY <1>0, <2>2 DEF StageInv
    <3>2. queue'[w] = queue[w]
      BY <1>0, <3>1, NotFed
    <3>3. QED  BY <1>1, <3>1, <3>2
  <2>3. cli \in {"stopping", "exited"} => \A c \in Conn : Live(c)' => Live(c)
    OBVIOUS
  <2>4. QED  BY ONLY <1>0, <1>1, <1>3, <2>1, <2>2, <2>3 DEF StageInv, NotStopped
<1>4. QED  BY <1>2, <1>3

LEMMA WorkStages ==
    ASSUME IInv, WorkStep
    PROVE  /\ StageInv' /\ ProducersHaveSinks' /\ cli \notin {"starting", "exited"}
           /\ accepted' = accepted /\ UNCHANGED <<process, clients, upstream>>
<1>1. PICK w \in Writer : TakeBatch(w) \/ TakeStop(w) \/ BatchWritten(w) \/ WriteFails(w)
  BY DEF WorkStep, Takes, Wrote, WriteError
<1>2. /\ WritersOK' /\ OnlyOf(w) /\ running' = running
      /\ worker[w] \in {"waiting", "writing", "last"}
      /\ worker[w] = "waiting" => queue[w] # << >>
      /\ Unmarked(queue[w], worker[w]) => Unmarked(queue'[w], worker'[w])
  BY <1>1, IInvWriters, WorkerOK
<1>3. UNCHANGED <<process, clients, upstream>>
  BY DEF WorkStep, Takes, Wrote, WriteError
<1>4. StageInv /\ ProducersHaveSinks
  BY DEF IInv
<1>5. cli \notin {"starting", "exited"}
  <2>1. cli = "starting" => worker[w] \in {"none", "waiting"} /\ queue[w] = << >>
    BY <1>4 DEF StageInv
  <2>2. cli = "exited" => worker[w] = "done"
    BY <1>4 DEF StageInv
  <2>3. QED  BY <1>2, <2>1, <2>2
<1>6. /\ accepted' = accepted
      /\ \A v \in Writer : v # w => queue'[v] = queue[v] /\ worker'[v] = worker[v]
  BY <1>2 DEF OnlyOf
<1>7. ProducersHaveSinks'
  BY <1>2, <1>3, <1>4 DEF ProducersHaveSinks, Live, clients, upstream
<1>8. \A v \in Writer : worker[v] = "done" => worker'[v] = "done"
  BY <1>2, <1>6
<1>9. \A v \in Writer : Unmarked(queue[v], worker[v]) => Unmarked(queue'[v], worker'[v])
  BY <1>2, <1>6
<1>10. /\ cli' = cli /\ stage' = stage /\ step' = step /\ forwarder' = forwarder
       /\ handler' = handler
  BY <1>3 DEF process, clients, upstream
<1>11. StageInv'
  BY ONLY <1>2, <1>4, <1>5, <1>8, <1>9, <1>10, WriterNames DEF StageInv, NotStopped, Live
<1>12. QED  BY <1>3, <1>5, <1>6, <1>7, <1>11

LEMMA StartWriterStages ==
    ASSUME IInv, NEW w \in Writer, StartsWriter(w)
    PROVE  StageInv' /\ ProducersHaveSinks' /\ accepted' = accepted
<1>0. StageInv /\ cli = "starting" /\ StartOrder[stage] = w /\ stage \in 1 .. 6
  BY StageTypes DEF IInv, StartsWriter, Starting
<1>1. OnlyOf(w) /\ running'[w] /\ worker'[w] = "waiting"
  BY <1>0, FreshStart, IInvWriters, StartWriterOK DEF StartsWriter
<1>2. /\ cli' = cli /\ stage' = stage + 1 /\ step' = "call" /\ handler' = handler
      /\ forwarder' = forwarder /\ queue' = queue /\ batch' = batch /\ file' = file
      /\ accepted' = accepted
  BY DEF StartsWriter, StartWriter, NextStage, clients, upstream
<1>3. stage = 1 \/ stage = 2 \/ stage = 4
  BY <1>0, StartStages, WriterNames
<1>4. w = "gateway_events" <=> stage = 1
  BY <1>0, StartStages
<1>5. w = "health_events" <=> stage = 2
  BY <1>0, StartStages
<1>6. w = "store" <=> stage = 4
  BY <1>0, StartStages
<1>7. \A v \in Writer : v # w => running'[v] = running[v] /\ worker'[v] = worker[v]
  BY <1>1 DEF OnlyOf
<1>8. \A v \in Writer : running[v] => running'[v]
  BY <1>1, <1>7
<1>9. \A v \in Writer : worker'[v] \in {"none", "waiting"}
  BY <1>0, <1>1, <1>7 DEF StageInv
<1>10. /\ stage' > 1 => running'["gateway_events"]
       /\ stage' > 2 => running'["health_events"]
       /\ stage' > 4 => running'["store"]
       /\ forwarder' # "running"
  BY ONLY <1>0, <1>1, <1>2, <1>3, <1>4, <1>5, <1>6, <1>8, WriterNames DEF StageInv
<1>11. StageInv'
  BY ONLY <1>0, <1>2, <1>3, <1>9, <1>10 DEF StageInv
<1>12. ProducersHaveSinks'
  BY ONLY <1>0, <1>2, <1>10 DEF StageInv, ProducersHaveSinks, Live
<1>13. QED  BY <1>2, <1>11, <1>12

LEMMA StartFailsStages ==
    ASSUME IInv, StartFails
    PROVE  StageInv' /\ ProducersHaveSinks' /\ accepted' = accepted
<1>0. StageInv /\ cli = "starting" /\ stage \in 1 .. 6 /\ TypeOK
  BY StageTypes DEF IInv, StartFails
<1>1. cli' = "failed" /\ handler' = handler /\ forwarder' = forwarder /\ accepted' = accepted
  BY DEF StartFails, Fail, clients, upstream
<1>2. forwarder = "running" => running'["gateway_events"]
  <2> HAVE forwarder = "running"
  <2>1. stage = 6 /\ running["gateway_events"]
    BY <1>0 DEF StageInv
  <2>2. ~Starting("health_events")
    BY <1>0, <2>1, StartStages DEF Starting
  <2>3. running' = [w \in Writer |-> running[w] /\ w \notin {}]
    BY <2>2 DEF StartFails
  <2>4. QED  BY <2>1, <2>3, WriterNames
<1>3. ProducersHaveSinks'
  BY ONLY <1>0, <1>1, <1>2 DEF StageInv, ProducersHaveSinks, Live
<1>4. StageInv'
  BY ONLY <1>1 DEF StageInv
<1>5. QED  BY <1>1, <1>3, <1>4

LEMMA KilledStages ==
    ASSUME IInv, Killed
    PROVE  StageInv' /\ ProducersHaveSinks' /\ cli' = "killed"
<1>1. cli' = "killed" /\ forwarder' = "none" /\ handler' = [c \in Conn |-> "closed"]
  BY DEF Killed
<1>2. \A c \in Conn : ~(Live(c)')
  BY <1>1 DEF Live
<1>3. QED  BY ONLY <1>1, <1>2 DEF StageInv, ProducersHaveSinks

LEMMA StopsStages ==
    ASSUME IInv, StopStep
    PROVE  StageInv' /\ ProducersHaveSinks' /\ accepted' = accepted
<1>0. WritersOK /\ StageInv
  BY IInvWriters DEF IInv
<1>1. PICK w \in Writer : StopsWriter(w) \/ PutsStop(w)
  BY DEF StopStep
<1>2. /\ cli = "stopping" /\ StopOrder[stage] = w /\ stage \in 1 .. 7
      /\ cli' = cli /\ stage' = stage /\ handler' = handler /\ forwarder' = forwarder
  BY <1>1, StageTypes DEF StopsWriter, PutsStop, Stopping, clients, upstream
<1>3. stage \in 3 .. 7 /\ (w = "store" <=> stage = 3) /\ (w = "gateway_events" <=> stage = 5)
      /\ (w = "health_events" <=> stage = 6)
  BY <1>2, StopStages, WriterNames
<1>4. /\ OnlyOf(w) /\ worker' = worker /\ accepted' = accepted /\ step' # "call"
      /\ step' = "put" => ~running'[w] /\ Unmarked(queue'[w], worker'[w])
  <2>1. CASE StopsWriter(w)
    <3>1. running[w] /\ StopWriter(w)
      BY <2>1, StopIsFirst DEF StopsWriter
    <3>2. /\ OnlyOf(w) /\ UNCHANGED <<worker, batch, file, accepted>>
          /\ ~running'[w]
          /\ ~(Free(w) > 0) => Unmarked(queue'[w], worker'[w])
      BY <1>0, <3>1, StopOK
    <3>3. step' = IF Free(w) > 0 THEN "join" ELSE "put"
      BY <2>1 DEF StopsWriter
    <3>4. QED  BY ONLY <3>2, <3>3
  <2>2. CASE PutsStop(w)
    <3>1. ~running[w] /\ Unmarked(queue[w], worker[w]) /\ PutStop(w) /\ step' = "join"
      BY <2>2 DEF PutsStop, Stopping, IInv, StageInv
    <3>2. OnlyOf(w) /\ UNCHANGED <<running, worker, batch, file, accepted>>
      BY <1>0, <3>1, PutStopOK
    <3>3. QED  BY ONLY <3>1, <3>2
  <2>3. QED  BY <1>1, <2>1, <2>2
<1>5. \A v \in Writer : v # w => running'[v] = running[v]
  BY <1>4 DEF OnlyOf
<1>6. /\ NotStopped(3)' => running'["store"]
      /\ NotStopped(5)' => running'["gateway_events"]
      /\ NotStopped(6)' => running'["health_events"]
  <2>1. \A n \in {3, 5, 6} : NotStopped(n)' => stage < n /\ NotStopped(n)
    BY ONLY <1>2, <1>3, <1>4 DEF NotStopped
  <2>2. /\ NotStopped(3) => running["store"]
        /\ NotStopped(5) => running["gateway_events"]
        /\ NotStopped(6) => running["health_events"]
    BY <1>0, <1>2 DEF StageInv
  <2>3. QED  BY ONLY <1>3, <1>5, <2>1, <2>2, WriterNames
<1>7. /\ \A c \in Conn : ~Live(c)
      /\ forwarder # "running"
  BY <1>0, <1>2, <1>3 DEF StageInv
<1>8. \A v \in Writer : StopOrder[stage'] = v /\ step' = "put" =>
                           ~running'[v] /\ Unmarked(queue'[v], worker'[v])
  BY <1>2, <1>4
<1>9. /\ stage' > 3 => worker'["store"] = "done"
      /\ stage' > 5 => worker'["gateway_events"] = "done"
      /\ stage' > 6 => worker'["health_events"] = "done"
  BY <1>0, <1>2, <1>4 DEF StageInv
<1>10. \A c \in Conn : ~(Live(c)')
  BY <1>2, <1>7 DEF Live
<1>11. StageInv'
  BY ONLY <1>2, <1>6, <1>7, <1>8, <1>9, <1>10 DEF StageInv
<1>12. ProducersHaveSinks'
  BY ONLY <1>2, <1>7, <1>10 DEF ProducersHaveSinks
<1>13. QED  BY <1>4, <1>11, <1>12

\* The shutdown goes on to its next stage.
LEMMA NextStopStage ==
    ASSUME IInv, cli = "stopping", stage < 7, NextStage, UNCHANGED <<writers, handler>>,
           forwarder' \in {forwarder, "stopped"},
           stage = 1 => \A c \in Conn : ~Live(c),
           stage = 2 => forwarder' = "stopped",
           stage = 3 => worker["store"] = "done",
           stage = 5 => worker["gateway_events"] = "done",
           stage = 6 => worker["health_events"] = "done"
    PROVE  StageInv' /\ ProducersHaveSinks'
<1>0. StageInv /\ ProducersHaveSinks /\ stage \in 1 .. 7
  BY StageTypes DEF IInv
<1>1. /\ cli' = "stopping" /\ stage' = stage + 1 /\ step' = "call" /\ handler' = handler
      /\ running' = running /\ worker' = worker /\ queue' = queue
  BY DEF NextStage, writers
<1>2. \A c \in Conn : Live(c)' <=> Live(c)
  BY <1>1 DEF Live
<1>3. stage' > 1 => \A c \in Conn : ~(Live(c)')
  BY <1>0, <1>2 DEF StageInv
<1>4. stage' > 2 => forwarder' # "running"
  BY <1>0, <1>1 DEF StageInv
<1>5. /\ stage' > 3 => worker'["store"] = "done"
      /\ stage' > 5 => worker'["gateway_events"] = "done"
      /\ stage' > 6 => worker'["health_events"] = "done"
  BY <1>0, <1>1 DEF StageInv
<1>6. \A n \in {3, 5, 6} : NotStopped(n)' => NotStopped(n)
  BY ONLY <1>0, <1>1 DEF NotStopped
<1>7. /\ NotStopped(3)' => running'["store"]
      /\ NotStopped(5)' => running'["gateway_events"]
      /\ NotStopped(6)' => running'["health_events"]
  BY ONLY <1>0, <1>1, <1>6, cli = "stopping" DEF StageInv
<1>8. StageInv'
  BY ONLY <1>1, <1>3, <1>4, <1>5, <1>7 DEF StageInv
<1>9. ProducersHaveSinks'
  BY ONLY <1>0, <1>1, <1>2, forwarder' \in {forwarder, "stopped"} DEF ProducersHaveSinks
<1>10. QED  BY <1>8, <1>9

\* The process fails.
LEMMA FailStages ==
    ASSUME IInv, Fail, UNCHANGED <<writers, handler>>, forwarder' \in {forwarder, "stopped"}
    PROVE  StageInv' /\ ProducersHaveSinks'
<1>1. ProducersHaveSinks /\ cli' = "failed" /\ running' = running
  BY DEF IInv, Fail, writers
<1>2. StageInv'
  BY ONLY <1>1 DEF StageInv
<1>3. ProducersHaveSinks'
  BY <1>1 DEF ProducersHaveSinks, Live
<1>4. QED  BY <1>2, <1>3

LEMMA RestStages ==
    ASSUME IInv, RestStep
    PROVE  StageInv' /\ ProducersHaveSinks'
<1>0. /\ StageInv /\ ProducersHaveSinks /\ stage \in 1 .. 7 /\ TypeOK
      /\ cli = "starting" => stage \in 1 .. 6
  BY StageTypes DEF IInv
<1>1. UNCHANGED writers /\ running' = running /\ worker' = worker /\ queue' = queue
  BY RestUnchanged DEF writers
<1>2. CASE StartsMetrics \/ StartsForwarder
  <2>1. /\ cli = "starting" /\ cli' = "starting" /\ stage' = stage + 1 /\ step' = "call"
        /\ handler' = handler
    BY <1>2 DEF StartsMetrics, StartsForwarder, Starting, NextStage, clients
  <2>2. \/ stage = 3 /\ forwarder' = forwarder
        \/ stage = 5
    BY <1>0, <1>2, StartStages DEF StartsMetrics, StartsForwarder, Starting, upstream
  <2>3. stage' <= 6 /\ (forwarder' = "running" => stage' > 5)
    BY <1>0, <2>1, <2>2 DEF StageInv
  <2>4. /\ running["gateway_events"]
        /\ stage' > 2 => running["health_events"]
        /\ stage' > 4 => running["store"]
        /\ \A c \in Conn : handler[c] = "unused"
    BY <1>0, <2>1, <2>2 DEF StageInv
  <2>5. StageInv'
    <3>1. \A w \in Writer : /\ queue[w] = << >> /\ batch[w] = << >>
                            /\ file[w] = << >> /\ accepted[w] = << >>
                            /\ worker[w] \in {"none", "waiting"}
      BY <1>0, <2>1 DEF StageInv
    <3>2. QED  BY ONLY <1>1, <2>1, <2>3, <2>4, <3>1 DEF StageInv, writers
  <2>6. ProducersHaveSinks'
    BY ONLY <1>1, <2>1, <2>4 DEF ProducersHaveSinks, Live
  <2>7. QED  BY <2>5, <2>6
<1>3. CASE StartsGateway
  <2>1. /\ cli = "starting" /\ stage = 6 /\ cli' = "serving" /\ step' = step
        /\ handler' = handler /\ forwarder' = forwarder
    BY <1>0, <1>3, StartStages DEF StartsGateway, Starting, clients, upstream
  <2>2. step = "call" /\ \A w \in Writer : running[w]
    BY <1>0, <2>1, WriterNames DEF StageInv
  <2>3. StageInv' /\ ProducersHaveSinks'
    BY ONLY <1>1, <2>1, <2>2, WriterNames DEF StageInv, ProducersHaveSinks
  <2>4. QED  BY <2>3
<1>4. CASE GatewayStopped
  <2>1. /\ cli = "stopping" /\ stage = 1 /\ NextStage /\ handler' = handler
        /\ forwarder' = forwarder /\ \A c \in Conn : ~Live(c)
    BY <1>0, <1>4, StopStages DEF GatewayStopped, Stopping, clients, upstream
  <2>2. QED  BY <1>1, <2>1, NextStopStage
<1>5. CASE ForwarderStopped
  <2>1. /\ cli = "stopping" /\ stage = 2 /\ NextStage /\ handler' = handler
        /\ forwarder' = "stopped"
    BY <1>0, <1>5, StopStages DEF ForwarderStopped, Stopping, clients
  <2>2. QED  BY <1>1, <2>1, NextStopStage
<1>6. CASE \E w \in Writer : WriterJoined(w)
  <2>1. PICK w \in Writer : WriterJoined(w)
    BY <1>6
  <2>2. /\ cli = "stopping" /\ StopOrder[stage] = w /\ handler' = handler
        /\ forwarder' = forwarder
        /\ \/ worker[w] = "done" /\ NextStage
           \/ Fail
    BY <2>1 DEF WriterJoined, Stopping, clients, upstream
  <2>3. /\ stage < 7 /\ stage # 1 /\ stage # 2
        /\ stage = 3 => w = "store"
        /\ stage = 5 => w = "gateway_events"
        /\ stage = 6 => w = "health_events"
    BY <1>0, <2>2, StopStages, WriterNames
  <2>4. CASE worker[w] = "done" /\ NextStage
    BY <1>1, <2>2, <2>3, <2>4, NextStopStage
  <2>5. CASE Fail
    BY <1>1, <2>2, <2>5, FailStages
  <2>6. QED  BY <2>2, <2>4, <2>5
<1>7. CASE MetricsJoined
  <2>1. /\ cli = "stopping" /\ stage = 4 /\ handler' = handler /\ forwarder' = forwarder
        /\ NextStage \/ Fail
    BY <1>0, <1>7, StopStages DEF MetricsJoined, Stopping, clients, upstream
  <2>2. CASE NextStage
    BY <1>1, <2>1, <2>2, NextStopStage
  <2>3. CASE Fail
    BY <1>1, <2>1, <2>3, FailStages
  <2>4. QED  BY <2>1, <2>2, <2>3
<1>8. CASE WritesSummary
  <2>1. /\ cli = "stopping" /\ stage = 7 /\ cli' \in {"exited", "failed"}
        /\ handler' = handler /\ forwarder' = forwarder
    BY <1>0, <1>8, StopStages DEF WritesSummary, Stopping, clients, upstream
  <2>2. (\A w \in Writer : worker[w] = "done") /\ (\A c \in Conn : ~Live(c))
    BY <1>0, <2>1, WriterNames DEF StageInv
  <2>3. \A c \in Conn : ~(Live(c)')
    BY <2>1, <2>2 DEF Live
  <2>4. StageInv'
    BY ONLY <1>1, <2>1, <2>2, <2>3 DEF StageInv
  <2>5. ProducersHaveSinks'
    BY ONLY <1>0, <1>1, <2>1, <2>3 DEF ProducersHaveSinks
  <2>6. QED  BY <2>4, <2>5
<1>9. CASE SampleFails \/ UNCHANGED vars
  <2>1. UNCHANGED <<process, clients, upstream>>
    BY <1>9 DEF SampleFails, vars
  <2>2. Feeds
    BY <1>0, <1>1, FeedsNothing
  <2>3. UNCHANGED <<process, forwarder, handler>> /\ \A c \in Conn : Live(c)' => Live(c)
    BY <2>1 DEF clients, upstream, Live
  <2>4. QED  BY <1>1, <2>2, <2>3, FeedStages
<1>10. CASE StopBegins
  <2>1. /\ cli = "serving" /\ cli' = "stopping" /\ stage' = 1 /\ step' = step
        /\ handler' = handler /\ forwarder' = forwarder
    BY <1>10 DEF StopBegins, clients, upstream
  <2>2. step = "call" /\ \A w \in Writer : running[w]
    BY <1>0, <2>1 DEF StageInv
  <2>3. StageInv'
    BY ONLY <1>1, <2>1, <2>2, WriterNames DEF StageInv
  <2>4. ProducersHaveSinks'
    BY ONLY <1>1, <2>2, WriterNames DEF ProducersHaveSinks
  <2>5. QED  BY <2>3, <2>4
<1>11. CASE ForwarderRaises
  BY <1>1, <1>11, FailStages DEF ForwarderRaises, clients
<1>12. QED  BY <1>2, <1>3, <1>4, <1>5, <1>6, <1>7, <1>8, <1>9, <1>10, <1>11 DEF RestStep

LEMMA StagesStep ==
    ASSUME IInv, [Next]_vars
    PROVE  StageInv' /\ ProducersHaveSinks'
<1>1. CASE FeedStep
  BY <1>1, FeedFacts, FeedStages
<1>2. QED
  BY <1>1, Kinds, WorkStages, StopsStages, StartWriterStages, StartFailsStages, KilledStages,
     RestStages

-----------------------------------------------------------------------------
(* Messages                                                                 *)

\* What is forwarded appears in the evidence, in the same order.
InOrder(ev, fw) ==
    /\ ToSet(fw) \subseteq ToSet(ev)
    /\ \A j, k \in DOMAIN fw : \A p, q \in DOMAIN ev :
          j < k /\ ev[p] = fw[j] /\ ev[q] = fw[k] => p < q

LEMMA OrderIs == ForwardFollowsEvidence <=> InOrder(Evidence, forwarded)
BY DEF ForwardFollowsEvidence, InOrder, Evidence

LEMMA AppendSet ==
    ASSUME NEW S, NEW s \in Seq(S), NEW x \in S
    PROVE  /\ Append(s, x) \in Seq(S) /\ ToSet(Append(s, x)) = ToSet(s) \cup {x}
           /\ Len(s) \in Nat /\ DOMAIN s = 1 .. Len(s)
           /\ DOMAIN Append(s, x) = 1 .. (Len(s) + 1) /\ Append(s, x)[Len(s) + 1] = x
           /\ \A i \in 1 .. Len(s) : Append(s, x)[i] = s[i]
<1>1. /\ Append(s, x) \in Seq(S) /\ Len(Append(s, x)) = Len(s) + 1
      /\ Append(s, x)[Len(s) + 1] = x
      /\ \A i \in 1 .. Len(s) : Append(s, x)[i] = s[i]
  BY AppendProperties
<1>2. /\ DOMAIN s = 1 .. Len(s) /\ Len(s) \in Nat
      /\ DOMAIN Append(s, x) = 1 .. (Len(s) + 1)
  BY <1>1, LenProperties
<1>3. PICK t : t = Append(s, x)
  OBVIOUS
<1>4. ToSet(t) = ToSet(s) \cup {x}
  <2>1. \A y \in ToSet(t) : y \in ToSet(s) \cup {x}
    <3> TAKE y \in ToSet(t)
    <3>1. PICK i \in 1 .. (Len(s) + 1) : y = t[i]
      BY <1>2, <1>3 DEF ToSet
    <3>2. i \in 1 .. Len(s) \/ i = Len(s) + 1
      BY <1>2
    <3>3. QED  BY <1>1, <1>2, <1>3, <3>1, <3>2 DEF ToSet
  <2>2. x \in ToSet(t)
    <3>1. Len(s) + 1 \in DOMAIN t
      BY <1>2, <1>3
    <3>2. QED  BY <1>1, <1>3, <3>1 DEF ToSet
  <2>3. \A y \in ToSet(s) : y \in ToSet(t)
    <3> TAKE y \in ToSet(s)
    <3>1. PICK i \in 1 .. Len(s) : y = s[i]
      BY <1>2 DEF ToSet
    <3>2. i \in DOMAIN t /\ t[i] = y
      BY <1>1, <1>2, <1>3, <3>1
    <3>3. QED  BY <3>2 DEF ToSet
  <2>4. QED  BY <2>1, <2>2, <2>3
<1>5. QED  BY <1>1, <1>2, <1>3, <1>4

\* A new message at the end of the evidence may follow at the end of what is
\* forwarded.
LEMMA OrderKept ==
    ASSUME NEW S, NEW ev \in Seq(S), NEW R, NEW fw \in Seq(R), NEW m \in S, m \in R,
           m \notin ToSet(ev), InOrder(ev, fw)
    PROVE  InOrder(Append(ev, m), fw) /\ InOrder(Append(ev, m), Append(fw, m))
<1>1. PICK e, n : /\ e = Append(ev, m) /\ n = Len(ev)
                  /\ ToSet(e) = ToSet(ev) \cup {m} /\ n \in Nat /\ DOMAIN ev = 1 .. n
                  /\ DOMAIN e = 1 .. (n + 1) /\ e[n + 1] = m
                  /\ \A i \in 1 .. n : e[i] = ev[i]
  <2>1. /\ ToSet(Append(ev, m)) = ToSet(ev) \cup {m}
        /\ Len(ev) \in Nat /\ DOMAIN ev = 1 .. Len(ev)
        /\ DOMAIN Append(ev, m) = 1 .. (Len(ev) + 1) /\ Append(ev, m)[Len(ev) + 1] = m
        /\ \A i \in 1 .. Len(ev) : Append(ev, m)[i] = ev[i]
    BY ONLY AppendSet, ev \in Seq(S), m \in S
  <2>2. QED  BY ONLY <2>1
<1>2. PICK f, l : /\ f = Append(fw, m) /\ l = Len(fw)
                  /\ ToSet(f) = ToSet(fw) \cup {m} /\ l \in Nat /\ DOMAIN fw = 1 .. l
                  /\ DOMAIN f = 1 .. (l + 1) /\ f[l + 1] = m
                  /\ \A i \in 1 .. l : f[i] = fw[i]
  <2>1. /\ ToSet(Append(fw, m)) = ToSet(fw) \cup {m}
        /\ Len(fw) \in Nat /\ DOMAIN fw = 1 .. Len(fw)
        /\ DOMAIN Append(fw, m) = 1 .. (Len(fw) + 1) /\ Append(fw, m)[Len(fw) + 1] = m
        /\ \A i \in 1 .. Len(fw) : Append(fw, m)[i] = fw[i]
    BY ONLY AppendSet, fw \in Seq(R), m \in R
  <2>2. QED  BY ONLY <2>1
<1>3. \A i \in 1 .. n : e[i] \in ToSet(ev) /\ e[i] # m
  BY ONLY <1>1, m \notin ToSet(ev) DEF ToSet
<1>4. \A j \in 1 .. l : fw[j] # m
  <2>1. \A j \in 1 .. l : fw[j] \in ToSet(fw)
    BY ONLY <1>2 DEF ToSet
  <2>2. QED  BY <2>1 DEF InOrder
<1>5. \A p \in 1 .. (n + 1) : p \in 1 .. n \/ p = n + 1
  BY <1>1
<1>6. ASSUME NEW j \in 1 .. l, NEW p \in 1 .. (n + 1), e[p] = fw[j]
      PROVE  p \in 1 .. n /\ ev[p] = fw[j]
  BY ONLY <1>1, <1>4, <1>5, <1>6
<1>7. ASSUME NEW j \in 1 .. l, NEW k \in 1 .. l, NEW p \in 1 .. (n + 1), NEW q \in 1 .. (n + 1),
             j < k, e[p] = fw[j], e[q] = fw[k]
      PROVE  p < q
  <2>1. p \in 1 .. n /\ ev[p] = fw[j] /\ q \in 1 .. n /\ ev[q] = fw[k]
    BY <1>6, <1>7
  <2>2. QED  BY <1>1, <1>2, <1>7, <2>1 DEF InOrder
<1>8. InOrder(e, fw)
  <2>1. ToSet(fw) \subseteq ToSet(e)
    BY <1>1 DEF InOrder
  <2>2. QED  BY ONLY <1>1, <1>2, <1>7, <2>1 DEF InOrder
<1>9. InOrder(e, f)
  <2>1. ToSet(f) \subseteq ToSet(e)
    BY <1>1, <1>2 DEF InOrder
  <2>2. ASSUME NEW j \in 1 .. (l + 1), NEW k \in 1 .. (l + 1), NEW p \in 1 .. (n + 1),
               NEW q \in 1 .. (n + 1), j < k, e[p] = f[j], e[q] = f[k]
        PROVE  p < q
    <3>1. j \in 1 .. l /\ f[j] = fw[j]
      BY <1>2, <2>2
    <3>2. p \in 1 .. n
      BY <1>6, <2>2, <3>1
    <3>3. CASE k = l + 1
      <4>1. e[q] = m
        BY <1>2, <2>2, <3>3
      <4>2. q = n + 1
        BY <1>3, <1>5, <4>1
      <4>3. QED  BY <1>1, <3>2, <4>2
    <3>4. CASE k # l + 1
      <4>1. k \in 1 .. l /\ f[k] = fw[k]
        BY <1>2, <3>4
      <4>2. QED  BY <1>7, <2>2, <3>1, <4>1
    <3>5. QED  BY <3>3, <3>4
  <2>3. DOMAIN f = 1 .. (l + 1) /\ DOMAIN e = 1 .. (n + 1)
    BY <1>1, <1>2
  <2>4. QED  BY ONLY <2>1, <2>2, <2>3 DEF InOrder
<1>10. QED  BY <1>1, <1>2, <1>8, <1>9

LEMMA QuietMessages ==
    ASSUME IInv, Evidence' = Evidence, forwarded' = forwarded, received' = received,
           \A c \in Conn : Waiting(c)' => Waiting(c) /\ hand'[c] = hand[c],
           cli' # "killed" => /\ cli # "killed"
                              /\ \A c \in Conn : Waiting(c) => Waiting(c)' /\ hand'[c] = hand[c]
    PROVE  MessageInv' /\ ForwardFollowsEvidence'
<1>1. MessageInv /\ ForwardFollowsEvidence
  BY DEF IInv
<1>2. ForwardFollowsEvidence'
  BY <1>1 DEF ForwardFollowsEvidence, Evidence
<1>3. ToSet(Evidence)' = ToSet(Evidence)
  BY DEF ToSet
<1>4. MessageInv'
  BY <1>1, <1>3 DEF MessageInv
<1>5. QED  BY <1>2, <1>4

\* Receiving: the next number is new.
LEMMA ReceiveMessages ==
    ASSUME IInv, NEW c \in Conn, Receive(c)
    PROVE  MessageInv' /\ ForwardFollowsEvidence' /\ forwarded' \in Seq(1 .. MaxMessages)
<1> DEFINE m == received + 1
<1>0. /\ TypeOK /\ MessageInv /\ ForwardFollowsEvidence /\ received \in Nat
      /\ received < MaxMessages /\ MaxMessages \in Nat /\ received' = m
      /\ handler \in [Conn -> HandlerStates] /\ hand \in [Conn -> 0 .. MaxMessages]
      /\ Evidence \in Seq(Row) /\ m \in Row /\ forwarded \in Seq(1 .. MaxMessages)
  BY ReceiveFacts, MessageRow, RestTypes, WriterTypes, WriterNames DEF IInv, Evidence
<1>1. m \in 1 .. MaxMessages /\ m \in 1 .. m /\ 1 .. received \subseteq 1 .. m
      /\ m \notin 1 .. received /\ \A i \in 1 .. m : i \in 1 .. received \/ i = m
  BY ONLY <1>0
<1>2. m \notin ToSet(Evidence) /\ ToSet(Evidence) \subseteq 1 .. received
  BY <1>0, <1>1 DEF MessageInv
<1>3. ~Waiting(c) /\ cli' = cli
  BY DEF Receive, Waiting, process
<1>4. CASE Free("store") > 0
  <2>1. /\ Evidence' = Append(Evidence, m)
        /\ handler' = [handler EXCEPT ![c] = "reading"] /\ hand' = [hand EXCEPT ![c] = 0]
        /\ forwarded' = forwarded \/ forwarded' = Append(forwarded, m)
    BY <1>4, ReceiveFacts DEF Evidence
  <2>2. \A d \in Conn : /\ Waiting(d)' <=> Waiting(d)
                        /\ d # c => hand'[d] = hand[d]
    BY <1>0, <1>3, <2>1 DEF Waiting
  <2>3. ToSet(Evidence') = ToSet(Evidence) \cup {m}
    <3>1. ToSet(Append(Evidence, m)) = ToSet(Evidence) \cup {m}
      BY <1>0, AppendSet
    <3>2. QED  BY <2>1, <3>1
  <2>4. ForwardFollowsEvidence' /\ forwarded' \in Seq(1 .. MaxMessages)
    <3>1. /\ InOrder(Append(Evidence, m), forwarded)
          /\ InOrder(Append(Evidence, m), Append(forwarded, m))
      <4>1. InOrder(Evidence, forwarded)
        BY <1>0, OrderIs
      <4>2. PICK ev \in Seq(Row), fw \in Seq(1 .. MaxMessages), x \in Row :
               ev = Evidence /\ fw = forwarded /\ x = m
        BY <1>0
      <4>3. InOrder(ev, fw) /\ x \notin ToSet(ev) /\ x \in 1 .. MaxMessages
        BY <1>1, <1>2, <4>1, <4>2
      <4>4. InOrder(Append(ev, x), fw) /\ InOrder(Append(ev, x), Append(fw, x))
        BY ONLY <4>3, OrderKept, ev \in Seq(Row), fw \in Seq(1 .. MaxMessages), x \in Row
      <4>5. QED  BY ONLY <4>2, <4>4
    <3>2. InOrder(Evidence', forwarded')
      BY ONLY <2>1, <3>1
    <3>3. ForwardFollowsEvidence'
      BY <3>2 DEF InOrder, ForwardFollowsEvidence, Evidence
    <3>4. Append(forwarded, m) \in Seq(1 .. MaxMessages)
      BY ONLY <1>0, <1>1, AppendProperties
    <3>5. QED  BY <1>0, <2>1, <3>3, <3>4
  <2>5. MessageInv'
    <3>1. ToSet(Evidence') \subseteq 1 .. m
      BY <1>1, <1>2, <2>3
    <3>2. \A d \in Conn : Waiting(d)' => hand'[d] \in 1 .. m /\ hand'[d] \notin ToSet(Evidence')
      <4> TAKE d \in Conn
      <4> HAVE Waiting(d)'
      <4>1. Waiting(d) /\ d # c /\ hand'[d] = hand[d]
        BY <1>3, <2>2
      <4>2. hand[d] \in 1 .. received /\ hand[d] \notin ToSet(Evidence)
        BY <1>0, <4>1 DEF MessageInv
      <4>3. QED  BY <1>1, <2>3, <4>1, <4>2
    <3>3. \A d, e \in Conn : Waiting(d)' /\ Waiting(e)' /\ d # e => hand'[d] # hand'[e]
      BY <1>0, <1>3, <2>2 DEF MessageInv
    <3>4. cli' # "killed" => \A i \in 1 .. m :
             i \in ToSet(Evidence') \/ \E d \in Conn : Waiting(d)' /\ hand'[d] = i
      <4> HAVE cli' # "killed"
      <4> TAKE i \in 1 .. m
      <4>1. CASE i = m
        BY <2>3, <4>1
      <4>2. CASE i \in 1 .. received
        <5>1. i \in ToSet(Evidence) \/ \E d \in Conn : Waiting(d) /\ hand[d] = i
          BY <1>0, <1>3, <4>2 DEF MessageInv
        <5>2. QED  BY <1>3, <2>2, <2>3, <5>1
      <4>3. QED  BY <1>1, <4>1, <4>2
    <3>5. QED  BY ONLY <1>0, <3>1, <3>2, <3>3, <3>4 DEF MessageInv
  <2>6. QED  BY <2>4, <2>5
<1>5. CASE ~(Free("store") > 0)
  <2>1. /\ Evidence' = Evidence /\ forwarded' = forwarded
        /\ handler' = [handler EXCEPT ![c] = "submitting"] /\ hand' = [hand EXCEPT ![c] = m]
    BY <1>5, ReceiveFacts DEF Evidence
  <2>2. /\ Waiting(c)' /\ hand'[c] = m
        /\ \A d \in Conn : d # c => (Waiting(d)' <=> Waiting(d)) /\ hand'[d] = hand[d]
    BY <1>0, <2>1 DEF Waiting
  <2>3. ForwardFollowsEvidence'
    BY <1>0, <2>1 DEF ForwardFollowsEvidence, Evidence
  <2>4. ToSet(Evidence') = ToSet(Evidence)
    BY <2>1
  <2>5. MessageInv'
    <3>1. ToSet(Evidence') \subseteq 1 .. m
      BY <1>1, <1>2, <2>4
    <3>2. \A d \in Conn : Waiting(d)' => hand'[d] \in 1 .. m /\ hand'[d] \notin ToSet(Evidence')
      <4> TAKE d \in Conn
      <4> HAVE Waiting(d)'
      <4>1. CASE d = c
        BY <1>1, <1>2, <2>2, <2>4, <4>1
      <4>2. CASE d # c
        <5>1. hand[d] \in 1 .. received /\ hand[d] \notin ToSet(Evidence)
          BY <1>0, <2>2, <4>2 DEF MessageInv
        <5>2. QED  BY <1>1, <2>2, <2>4, <4>2, <5>1
      <4>3. QED  BY <4>1, <4>2
    <3>3. \A d, e \in Conn : Waiting(d)' /\ Waiting(e)' /\ d # e => hand'[d] # hand'[e]
      <4>1. \A d \in Conn : d # c /\ Waiting(d)' => hand'[d] \in 1 .. received
        BY <1>0, <2>2 DEF MessageInv
      <4>2. \A d, e \in Conn : d # c /\ e # c /\ Waiting(d)' /\ Waiting(e)' /\ d # e
                                  => hand'[d] # hand'[e]
        BY <1>0, <2>2 DEF MessageInv
      <4>3. QED  BY <1>1, <2>2, <4>1, <4>2
    <3>4. cli' # "killed" => \A i \in 1 .. m :
             i \in ToSet(Evidence') \/ \E d \in Conn : Waiting(d)' /\ hand'[d] = i
      <4> HAVE cli' # "killed"
      <4> TAKE i \in 1 .. m
      <4>1. CASE i = m
        BY <2>2, <4>1
      <4>2. CASE i \in 1 .. received
        <5>1. i \in ToSet(Evidence) \/ \E d \in Conn : Waiting(d) /\ hand[d] = i
          BY <1>0, <1>3, <4>2 DEF MessageInv
        <5>2. QED  BY <1>3, <2>2, <2>4, <5>1
      <4>3. QED  BY <1>1, <4>1, <4>2
    <3>5. QED  BY ONLY <1>0, <3>1, <3>2, <3>3, <3>4 DEF MessageInv
  <2>6. QED  BY <1>0, <2>1, <2>3, <2>5
<1>6. QED  BY <1>4, <1>5

\* A handler that waited: its message is nobody else's, and not yet evidence.
LEMMA ResumeMessages ==
    ASSUME IInv, NEW c \in Conn, SubmitResumes(c)
    PROVE  MessageInv' /\ ForwardFollowsEvidence' /\ forwarded' \in Seq(1 .. MaxMessages)
<1>0. /\ TypeOK /\ MessageInv /\ ForwardFollowsEvidence /\ received \in Nat
      /\ received <= MaxMessages /\ MaxMessages \in Nat /\ received' = received
      /\ handler \in [Conn -> HandlerStates] /\ hand \in [Conn -> 0 .. MaxMessages]
      /\ Evidence \in Seq(Row) /\ forwarded \in Seq(1 .. MaxMessages) /\ Waiting(c)
  BY ResumesFacts, MessageRow, RestTypes, WriterTypes, WriterNames DEF IInv, Evidence
<1>1. PICK m : m = hand[c] /\ m \in 1 .. received /\ m \in Row
  BY ResumesFacts, <1>0, MessageRow
<1>2. m \notin ToSet(Evidence) /\ ToSet(Evidence) \subseteq 1 .. received
      /\ m \in 1 .. MaxMessages
  BY <1>0, <1>1 DEF MessageInv
<1>3. cli' = cli
  BY DEF SubmitResumes, process
<1>4. /\ Evidence' = Append(Evidence, m)
      /\ handler' = [handler EXCEPT ![c] = "reading"] /\ hand' = [hand EXCEPT ![c] = 0]
      /\ forwarded' = forwarded \/ forwarded' = Append(forwarded, m)
  BY <1>1, ResumesFacts DEF Evidence
<1>5. /\ ~(Waiting(c)')
      /\ \A d \in Conn : d # c => (Waiting(d)' <=> Waiting(d)) /\ hand'[d] = hand[d]
  BY <1>0, <1>4 DEF Waiting
<1>6. ToSet(Evidence') = ToSet(Evidence) \cup {m}
  <2>1. ToSet(Append(Evidence, m)) = ToSet(Evidence) \cup {m}
    BY <1>0, <1>1, AppendSet
  <2>2. QED  BY <1>4, <2>1
<1>7. ForwardFollowsEvidence' /\ forwarded' \in Seq(1 .. MaxMessages)
  <2>1. /\ InOrder(Append(Evidence, m), forwarded)
        /\ InOrder(Append(Evidence, m), Append(forwarded, m))
    <3>1. InOrder(Evidence, forwarded)
      BY <1>0, OrderIs
    <3>2. PICK ev \in Seq(Row), fw \in Seq(1 .. MaxMessages) : ev = Evidence /\ fw = forwarded
      BY <1>0
    <3>3. InOrder(ev, fw) /\ m \notin ToSet(ev) /\ m \in 1 .. MaxMessages /\ m \in Row
      BY <1>1, <1>2, <3>1, <3>2
    <3>4. InOrder(Append(ev, m), fw) /\ InOrder(Append(ev, m), Append(fw, m))
      BY ONLY <3>3, OrderKept, ev \in Seq(Row), fw \in Seq(1 .. MaxMessages)
    <3>5. QED  BY ONLY <3>2, <3>4
  <2>2. InOrder(Evidence', forwarded')
    BY ONLY <1>4, <2>1
  <2>3. ForwardFollowsEvidence'
    BY <2>2 DEF InOrder, ForwardFollowsEvidence, Evidence
  <2>4. Append(forwarded, m) \in Seq(1 .. MaxMessages)
    BY ONLY <1>0, <1>2, AppendProperties
  <2>5. QED  BY <1>0, <1>4, <2>3, <2>4
<1>8. MessageInv'
  <2>1. ToSet(Evidence') \subseteq 1 .. received
    BY <1>1, <1>2, <1>6
  <2>2. \A d \in Conn : Waiting(d)' =>
           hand'[d] \in 1 .. received /\ hand'[d] \notin ToSet(Evidence')
    <3> TAKE d \in Conn
    <3> HAVE Waiting(d)'
    <3>1. Waiting(d) /\ d # c /\ hand'[d] = hand[d]
      BY <1>5
    <3>2. hand[d] \in 1 .. received /\ hand[d] \notin ToSet(Evidence) /\ hand[d] # hand[c]
      BY <1>0, <3>1 DEF MessageInv
    <3>3. QED  BY <1>1, <1>6, <3>1, <3>2
  <2>3. \A d, e \in Conn : Waiting(d)' /\ Waiting(e)' /\ d # e => hand'[d] # hand'[e]
    <3>1. \A d, e \in Conn : Waiting(d) /\ Waiting(e) /\ d # e => hand[d] # hand[e]
      BY <1>0 DEF MessageInv
    <3>2. QED  BY ONLY <1>5, <3>1
  <2>4. cli' # "killed" => \A i \in 1 .. received :
           i \in ToSet(Evidence') \/ \E d \in Conn : Waiting(d)' /\ hand'[d] = i
    <3> HAVE cli' # "killed"
    <3> TAKE i \in 1 .. received
    <3>1. i \in ToSet(Evidence) \/ \E d \in Conn : Waiting(d) /\ hand[d] = i
      BY <1>0, <1>3 DEF MessageInv
    <3>2. CASE i = m
      BY <1>6, <3>2
    <3>3. CASE i # m
      BY <1>1, <1>5, <1>6, <3>1, <3>3
    <3>4. QED  BY <3>2, <3>3
  <2>5. QED  BY ONLY <1>0, <2>1, <2>2, <2>3, <2>4 DEF MessageInv
<1>9. QED  BY <1>7, <1>8

\* No other step touches a message.
LEMMA QuietStep ==
    ASSUME IInv, [Next]_vars, \A c \in Conn : ~Receive(c) /\ ~SubmitResumes(c)
    PROVE  /\ MessageInv' /\ ForwardFollowsEvidence' /\ forwarded' = forwarded
           /\ Evidence' = Evidence /\ received' = received
<1>0. TypeOK /\ DOMAIN handler = Conn /\ WritersOK
  BY RestTypes, IInvWriters DEF IInv
<1>1. CASE FeedStep
  <2>1. ASSUME NEW c \in Conn, Accept(c) \/ Leaves(c)
        PROVE  /\ Evidence' = Evidence /\ forwarded' = forwarded /\ hand' = hand
               /\ received' = received /\ \A d \in Conn : Waiting(d)' <=> Waiting(d)
    <3>1. Evidence' = Evidence
      BY <1>0, <2>1, OfferEvents DEF Accept, Leaves, Evidence
    <3>2. forwarded' = forwarded /\ hand' = hand /\ received' = received
      BY <2>1 DEF Accept, Leaves, upstream
    <3>3. /\ handler' = [handler EXCEPT ![c] = handler'[c]]
          /\ handler[c] # "submitting" /\ handler'[c] # "submitting"
      BY <1>0, <2>1 DEF Accept, Leaves
    <3>4. \A d \in Conn : Waiting(d)' <=> Waiting(d)
      BY ONLY <1>0, <3>3 DEF Waiting
    <3>5. QED  BY <3>1, <3>2, <3>4
  <2>2. ASSUME (\E c \in Conn : Rejects(c)) \/ MonitorEmits \/ ForwarderEmits
        PROVE  /\ Evidence' = Evidence /\ forwarded' = forwarded /\ hand' = hand
               /\ received' = received /\ \A d \in Conn : Waiting(d)' <=> Waiting(d)
    <3>1. Evidence' = Evidence
      BY <1>0, <2>2, OfferEvents DEF Rejects, MonitorEmits, ForwarderEmits, Evidence
    <3>2. UNCHANGED <<clients, upstream>>
      BY <2>2 DEF Rejects, MonitorEmits, ForwarderEmits
    <3>3. QED  BY <3>1, <3>2 DEF clients, upstream, Waiting
  <2>3. /\ Evidence' = Evidence /\ forwarded' = forwarded /\ hand' = hand
        /\ received' = received /\ \A d \in Conn : Waiting(d)' <=> Waiting(d)
    BY <1>1, <2>1, <2>2 DEF FeedStep, ClientStep
  <2>4. cli' = cli
    BY <1>1, FeedFacts DEF process
  <2>5. QED  BY <2>3, <2>4, QuietMessages
<1>2. CASE WorkStep
  <2>1. Evidence' = Evidence /\ UNCHANGED <<process, clients, upstream>>
    BY <1>2, WorkStages DEF Evidence
  <2>2. QED  BY <2>1, QuietMessages DEF process, clients, upstream, Waiting
<1>3. CASE StopStep \/ (\E w \in Writer : StartsWriter(w)) \/ StartFails \/ RestStep
  <2>1. accepted' = accepted
    BY <1>0, <1>3, StopsStages, StartWriterStages, StartFailsStages, RestUnchanged DEF writers
  <2>2. UNCHANGED clients /\ forwarded' = forwarded
    BY <1>3 DEF StopStep, StopsWriter, PutsStop, StartsWriter, StartFails, RestStep,
                StartsMetrics, StartsForwarder, StartsGateway, GatewayStopped,
                ForwarderStopped, WriterJoined, MetricsJoined, WritesSummary, SampleFails,
                StopBegins, ForwarderRaises, vars, upstream
  <2>3. cli' = cli \/ (cli' # "killed" /\ cli # "killed")
    BY <1>3 DEF StopStep, StopsWriter, PutsStop, StartsWriter, StartFails, RestStep,
                StartsMetrics, StartsForwarder, StartsGateway, GatewayStopped,
                ForwarderStopped, WriterJoined, MetricsJoined, WritesSummary, SampleFails,
                StopBegins, ForwarderRaises, vars, process, NextStage, Fail, Starting, Stopping
  <2>4. QED  BY <2>1, <2>2, <2>3, QuietMessages DEF clients, Waiting, Evidence
<1>4. CASE Killed
  <2>1. accepted' = accepted /\ forwarded' = forwarded /\ received' = received /\ cli' = "killed"
    BY <1>4 DEF Killed
  <2>2. \A c \in Conn : ~(Waiting(c)')
    BY <1>4 DEF Killed, Waiting
  <2>3. QED  BY <2>1, <2>2, QuietMessages DEF Evidence
<1>5. QED  BY <1>1, <1>2, <1>3, <1>4, Kinds

LEMMA MessagesStep ==
    ASSUME IInv, [Next]_vars
    PROVE  /\ MessageInv' /\ ForwardFollowsEvidence'
           /\ forwarded' \in Seq(1 .. MaxMessages) /\ received' \in 0 .. MaxMessages
<1>1. received \in 0 .. MaxMessages /\ forwarded \in Seq(1 .. MaxMessages) /\ MaxMessages \in Nat
  BY RestTypes, PipelineAssumption DEF IInv
<1>2. ASSUME NEW c \in Conn, Receive(c)
      PROVE  /\ MessageInv' /\ ForwardFollowsEvidence'
             /\ forwarded' \in Seq(1 .. MaxMessages) /\ received' \in 0 .. MaxMessages
  BY <1>1, <1>2, ReceiveMessages, ReceiveFacts
<1>3. ASSUME NEW c \in Conn, SubmitResumes(c)
      PROVE  /\ MessageInv' /\ ForwardFollowsEvidence'
             /\ forwarded' \in Seq(1 .. MaxMessages) /\ received' \in 0 .. MaxMessages
  BY <1>1, <1>3, ResumeMessages, ResumesFacts
<1>4. QED  BY <1>1, <1>2, <1>3, QuietStep

-----------------------------------------------------------------------------
(* Types                                                                    *)

\* The variables beside the files and the messages.
ProcessTypes ==
    /\ cli \in CliStates /\ stage \in 1 .. 7 /\ step \in {"call", "put", "join"}
    /\ forwarder \in {"none", "running", "stopped"}
    /\ metrics \in MetricsStates /\ diskErrors \in 0 .. MaxDiskErrors
ClientTypes ==
    handler \in [Conn -> HandlerStates] /\ hand \in [Conn -> 0 .. MaxMessages]

LEMMA TypeParts ==
    TypeOK <=> /\ running \in [Writer -> BOOLEAN] /\ queue \in [Writer -> Seq(Nat)]
               /\ batch \in [Writer -> Seq(Row)] /\ file \in [Writer -> Seq(Row)]
               /\ accepted \in [Writer -> Seq(Row)] /\ worker \in [Writer -> WorkerStates]
               /\ \A w \in Writer : Len(queue[w]) <= QueueSize[w] /\ Len(batch[w]) <= BatchSize
               /\ ProcessTypes /\ ClientTypes
               /\ received \in 0 .. MaxMessages /\ forwarded \in Seq(1 .. MaxMessages)
<1>1. Len(StopOrder) = 7
  BY DEF StopOrder
<1>2. QED  BY <1>1 DEF TypeOK, Row, ProcessTypes, ClientTypes

LEMMA ProcessTyped ==
    ASSUME IInv, [Next]_vars
    PROVE  ProcessTypes'
<1>0. ProcessTypes /\ TypeOK /\ stage \in 1 .. 7 /\ (cli = "starting" => stage \in 1 .. 6)
  BY StageTypes, TypeParts DEF IInv
<1>d. MaxDiskErrors \in Nat
  BY PipelineAssumption
<1>1. CASE FeedStep
  <2>1. UNCHANGED <<process, forwarder, sampler>>
    BY <1>1, FeedFacts
  <2>2. QED  BY <1>0, <2>1 DEF ProcessTypes, process, sampler
<1>2. CASE WorkStep
  <2>1. UNCHANGED <<process, upstream, metrics>>
    BY <1>2 DEF WorkStep, Takes, Wrote, WriteError, sampler
  <2>2. diskErrors' = diskErrors \/ (diskErrors < MaxDiskErrors /\ diskErrors' = diskErrors + 1)
    BY <1>2 DEF WorkStep, Takes, Wrote, WriteError, sampler
  <2>3. diskErrors' \in 0 .. MaxDiskErrors
    BY ONLY <1>0, <1>d, <2>2 DEF ProcessTypes
  <2>4. QED  BY <1>0, <2>1, <2>3 DEF ProcessTypes, process, upstream
<1>3. CASE StopStep
  <2>1. UNCHANGED <<cli, stage, upstream, sampler>> /\ step' \in {"put", "join"}
    BY <1>3 DEF StopStep, StopsWriter, PutsStop
  <2>2. QED  BY <1>0, <2>1 DEF ProcessTypes, upstream, sampler
<1>4. CASE \E w \in Writer : StartsWriter(w)
  <2>1. /\ cli = "starting" /\ cli' = cli /\ stage' = stage + 1 /\ step' = "call"
        /\ UNCHANGED <<upstream, sampler>>
    BY <1>4 DEF StartsWriter, Starting, NextStage
  <2>2. stage' \in 1 .. 7
    BY <1>0, <2>1
  <2>3. QED  BY <1>0, <2>1, <2>2 DEF ProcessTypes, upstream, sampler
<1>5. CASE StartFails
  BY <1>0, <1>5 DEF StartFails, Fail, ProcessTypes, CliStates, upstream, sampler
<1>6. CASE Killed
  BY <1>0, <1>6 DEF Killed, ProcessTypes, CliStates, MetricsStates
<1>7. CASE RestStep
  <2>1. /\ step' \in {step, "call"}
        /\ \/ cli' = cli /\ stage' = stage
           \/ cli' \in {"serving", "failed", "exited"} /\ stage' = stage
           \/ cli' = "stopping" /\ stage' = 1
           \/ cli' = cli /\ stage' = stage + 1
    BY <1>7 DEF RestStep, StartsMetrics, StartsForwarder, StartsGateway, GatewayStopped,
                ForwarderStopped, WriterJoined, MetricsJoined, WritesSummary, SampleFails,
                StopBegins, ForwarderRaises, vars, process, NextStage, Fail
  <2>2. stage' = stage + 1 => stage < 7
    <3>1. CASE StartsMetrics \/ StartsForwarder \/ StartsGateway
      BY <1>0, <3>1 DEF StartsMetrics, StartsForwarder, StartsGateway, Starting
    <3>2. CASE GatewayStopped \/ ForwarderStopped \/ MetricsJoined
      BY <1>0, <3>2, StopStages DEF GatewayStopped, ForwarderStopped, MetricsJoined, Stopping
    <3>3. CASE \E w \in Writer : WriterJoined(w)
      BY <1>0, <3>3, StopStages, WriterNames DEF WriterJoined, Stopping
    <3>4. CASE WritesSummary \/ SampleFails \/ StopBegins \/ ForwarderRaises \/ UNCHANGED vars
      BY <1>0, <3>4 DEF WritesSummary, SampleFails, StopBegins, ForwarderRaises, vars, process, Fail
    <3>5. QED  BY <1>7, <3>1, <3>2, <3>3, <3>4 DEF RestStep
  <2>3. stage' \in 1 .. 7 /\ cli' \in CliStates /\ step' \in {"call", "put", "join"}
    BY <1>0, <2>1, <2>2 DEF ProcessTypes, CliStates
  <2>4. forwarder' \in {forwarder, "running", "stopped"}
    BY <1>7 DEF RestStep, StartsMetrics, StartsForwarder, StartsGateway, GatewayStopped,
                ForwarderStopped, WriterJoined, MetricsJoined, WritesSummary, SampleFails,
                StopBegins, ForwarderRaises, vars, upstream
  <2>5. metrics' \in {metrics, "running", "done", "died"}
    BY <1>7 DEF RestStep, StartsMetrics, StartsForwarder, StartsGateway, GatewayStopped,
                ForwarderStopped, WriterJoined, MetricsJoined, WritesSummary, SampleFails,
                StopBegins, ForwarderRaises, vars, sampler
  <2>6. diskErrors' = diskErrors \/ (diskErrors < MaxDiskErrors /\ diskErrors' = diskErrors + 1)
    BY <1>7 DEF RestStep, StartsMetrics, StartsForwarder, StartsGateway, GatewayStopped,
                ForwarderStopped, WriterJoined, MetricsJoined, WritesSummary, SampleFails,
                StopBegins, ForwarderRaises, vars, sampler
  <2>7. diskErrors' \in 0 .. MaxDiskErrors
    BY ONLY <1>0, <1>d, <2>6 DEF ProcessTypes
  <2>8. QED  BY <1>0, <2>3, <2>4, <2>5, <2>7 DEF ProcessTypes, MetricsStates
<1>8. QED  BY <1>1, <1>2, <1>3, <1>4, <1>5, <1>6, <1>7, Kinds

LEMMA ClientsTyped ==
    ASSUME IInv, [Next]_vars
    PROVE  ClientTypes'
<1>0. ClientTypes /\ TypeOK
  BY TypeParts DEF IInv
<1>1. ASSUME NEW c \in Conn, NEW s \in HandlerStates, NEW x \in 0 .. MaxMessages,
             handler' = [handler EXCEPT ![c] = s] \/ handler' = handler,
             hand' = [hand EXCEPT ![c] = x] \/ hand' = hand
      PROVE  ClientTypes'
  <2>1. handler' \in [Conn -> HandlerStates]
    BY <1>0, <1>1 DEF ClientTypes
  <2>2. hand' \in [Conn -> 0 .. MaxMessages]
    BY <1>0, <1>1 DEF ClientTypes
  <2>3. QED  BY <2>1, <2>2 DEF ClientTypes
<1>2. "reading" \in HandlerStates /\ "submitting" \in HandlerStates /\ "closed" \in HandlerStates
  BY DEF HandlerStates
<1>3. 0 \in 0 .. MaxMessages
  BY PipelineAssumption
<1>4. ASSUME NEW c \in Conn, Receive(c) PROVE ClientTypes'
  <2>1. received + 1 \in 0 .. MaxMessages
    BY <1>0, <1>4, ReceiveFacts, MessageRow
  <2>2. CASE Free("store") > 0
    BY <1>1, <1>2, <1>3, <1>4, <2>2, ReceiveFacts
  <2>3. CASE ~(Free("store") > 0)
    BY <1>1, <1>2, <1>4, <2>1, <2>3, ReceiveFacts
  <2>4. QED  BY <2>2, <2>3
<1>5. ASSUME NEW c \in Conn, SubmitResumes(c) PROVE ClientTypes'
  BY <1>1, <1>2, <1>3, <1>5, ResumesFacts
<1>6. ASSUME NEW c \in Conn, Accept(c) \/ Rejects(c) \/ Leaves(c) PROVE ClientTypes'
  <2>1. /\ \/ handler' = [handler EXCEPT ![c] = "reading"]
           \/ handler' = [handler EXCEPT ![c] = "closed"]
           \/ handler' = handler
        /\ hand' = hand
    BY <1>6 DEF Accept, Rejects, Leaves, clients
  <2>2. QED  BY <1>1, <1>2, <1>3, <2>1
<1>7. CASE Killed
  <2>1. handler' = [c \in Conn |-> "closed"] /\ hand' = [c \in Conn |-> 0]
    BY <1>7 DEF Killed
  <2>2. QED  BY <1>2, <1>3, <2>1 DEF ClientTypes
<1>8. CASE MonitorEmits \/ ForwarderEmits \/ WorkStep \/ StopStep \/ StartFails \/ RestStep
           \/ (\E w \in Writer : StartsWriter(w))
  <2>1. UNCHANGED clients
    BY <1>8 DEF StopStep, StopsWriter, PutsStop, StartsWriter, StartFails, RestStep,
                StartsMetrics, StartsForwarder, StartsGateway, GatewayStopped,
                ForwarderStopped, WriterJoined, MetricsJoined, WritesSummary, SampleFails,
                StopBegins, ForwarderRaises, vars, MonitorEmits, ForwarderEmits,
                WorkStep, Takes, Wrote, WriteError
  <2>2. QED  BY <1>0, <2>1 DEF ClientTypes, clients
<1>9. QED  BY <1>4, <1>5, <1>6, <1>7, <1>8, Kinds DEF FeedStep, ClientStep

-----------------------------------------------------------------------------
(* The theorems                                                             *)

LEMMA InitInv == ASSUME Init PROVE IInv
<1>1. << >> \in Seq(Row) /\ << >> \in Seq(Nat) /\ Len(<< >>) = 0
  BY Nothing, EmptySeq
<1>2. QueueSize \in [Writer -> Nat] /\ BatchSize \in Nat
  BY WriterAssumption
<1>3. \A w \in Writer : /\ running[w] = FALSE /\ queue[w] = << >> /\ worker[w] = "none"
                        /\ batch[w] = << >> /\ file[w] = << >> /\ accepted[w] = << >>
  BY DEF Init, WritersInit
<1>4. TypeOK
  <2>1. /\ running \in [Writer -> BOOLEAN] /\ queue \in [Writer -> Seq(Nat)]
        /\ batch \in [Writer -> Seq(Row)] /\ file \in [Writer -> Seq(Row)]
        /\ accepted \in [Writer -> Seq(Row)] /\ worker \in [Writer -> WorkerStates]
    BY <1>1 DEF Init, WritersInit, WorkerStates
  <2>2. \A w \in Writer : Len(queue[w]) <= QueueSize[w] /\ Len(batch[w]) <= BatchSize
    <3>1. \A w \in Writer : QueueSize[w] \in Nat
      BY <1>2
    <3>2. QED  BY ONLY <1>1, <1>2, <1>3, <3>1
  <2>3. ProcessTypes /\ ClientTypes /\ received \in 0 .. MaxMessages
        /\ forwarded \in Seq(1 .. MaxMessages)
    BY PipelineAssumption, EmptySeq
       DEF Init, ProcessTypes, ClientTypes, CliStates, HandlerStates, MetricsStates
  <2>4. QED  BY <2>1, <2>2, <2>3, TypeParts
<1>5. \A w \in Writer : WriterInv(w)
  <2>1. WriterOK(FALSE, << >>, "none", << >>, << >>, << >>)
    BY StartOK, Nothing DEF WriterOK
  <2>2. QED  BY ONLY <1>3, <2>1 DEF WriterInv
<1>6. StageInv /\ ProducersHaveSinks
  <2>1. /\ cli = "starting" /\ stage = 1 /\ step = "call" /\ forwarder = "none"
        /\ \A c \in Conn : handler[c] = "unused"
    BY DEF Init
  <2>2. QED  BY ONLY <1>3, <2>1 DEF StageInv, ProducersHaveSinks, Live
<1>7. MessageInv /\ ForwardFollowsEvidence
  <2>1. Evidence = << >> /\ forwarded = << >> /\ received = 0
    BY <1>3, WriterNames DEF Init, Evidence
  <2>2. ToSet(<< >>) = {} /\ DOMAIN << >> = {}
    BY DEF ToSet
  <2>3. \A c \in Conn : ~Waiting(c)
    BY DEF Init, Waiting
  <2>4. 1 .. 0 = {}
    OBVIOUS
  <2>5. QED  BY ONLY <2>1, <2>2, <2>3, <2>4 DEF MessageInv, ForwardFollowsEvidence, Evidence
<1>8. QED  BY <1>4, <1>5, <1>6, <1>7 DEF IInv

LEMMA NextInv == ASSUME IInv, [Next]_vars PROVE IInv'
<1>1. WritersOK'
  BY WritersStep
<1>2. TypeOK'
  <2>1. /\ ProcessTypes' /\ ClientTypes'
        /\ forwarded' \in Seq(1 .. MaxMessages) /\ received' \in 0 .. MaxMessages
    BY ProcessTyped, ClientsTyped, MessagesStep
  <2>2. Len(StopOrder) = 7
    BY DEF StopOrder
  <2>3. QED  BY ONLY <1>1, <2>1, <2>2 DEF WritersOK, TypeOK, Row, ProcessTypes, ClientTypes
<1>3. (\A w \in Writer : WriterInv(w))'
  BY <1>1 DEF WritersOK
<1>4. QED  BY <1>2, <1>3, StagesStep, MessagesStep DEF IInv

\* The inductive invariant: the files, the stages of _run_from_cli and the
\* messages are as WriterInv, StageInv and MessageInv say.
THEOREM PipelineInvariant == Spec => []IInv
<1>1. Init => IInv
  BY InitInv
<1>2. IInv /\ [Next]_vars => IInv'
  BY NextInv
<1>3. QED  BY <1>1, <1>2, PTL DEF Spec

\* The state of the gateway process stays well-typed, and no asyncio.Queue of
\* the store or of an event file holds more than its queue_size, the marker of
\* stop() included.
THEOREM PipelineTypes == Spec => []TypeOK
<1>1. IInv => TypeOK
  BY DEF IInv
<1>2. QED  BY <1>1, PipelineInvariant, PTL

\* The order of starts and stops in _run_from_cli: however many handlers there
\* are, none outlives the store or an event writer, nor the forwarder the writer
\* of the gateway events, also when a start or a stop fails half-way.
THEOREM SinksOutlive == Spec => []ProducersHaveSinks
<1>1. IInv => ProducersHaveSinks
  BY DEF IInv
<1>2. QED  BY <1>1, PipelineInvariant, PTL

\* A worker that has returned has left nothing behind.
LEMMA DoneComplete ==
    ASSUME IInv, NEW w \in Writer, worker[w] = "done"
    PROVE  file[w] = accepted[w]
<1>1. /\ WriterOK(running[w], queue[w], worker[w], batch[w], file[w], accepted[w])
      /\ file[w] \in Seq(Row)
  BY IInvWriters, Same
<1>2. /\ queue[w] = << >> /\ batch[w] = << >>
      /\ accepted[w] = (file[w] \o batch[w]) \o Items(queue[w])
  BY <1>1 DEF WriterOK
<1>3. QED  BY ONLY <1>1, <1>2, Nothing

LEMMA ExitComplete == IInv => CleanExitComplete
<1> SUFFICES ASSUME IInv, cli = "exited"
             PROVE  /\ \A w \in Writer : file[w] = accepted[w]
                    /\ ToSet(file["store"]) = 1 .. received
  BY DEF CleanExitComplete
<1>1. (\A w \in Writer : worker[w] = "done") /\ (\A c \in Conn : ~Live(c))
  BY DEF IInv, StageInv
<1>2. \A w \in Writer : file[w] = accepted[w]
  BY <1>1, DoneComplete
<1>3. \A c \in Conn : ~Waiting(c)
  BY <1>1 DEF Waiting, Live
<1>4. ToSet(Evidence) = 1 .. received
  BY <1>3 DEF IInv, MessageInv
<1>5. QED  BY <1>2, <1>4, WriterNames DEF Evidence

\* A normal exit of the gateway: every evidence file holds all that its queue
\* accepted, and the raw message store every valid message the server received.
THEOREM CleanExit == Spec => []CleanExitComplete
BY ExitComplete, PipelineInvariant, PTL

\* log_message awaits store.submit before it calls try_submit: what is forwarded
\* is evidence already, and comes in the order of the evidence, however many
\* handlers wait for room in the store's queue.
THEOREM ForwardOrder == Spec => []ForwardFollowsEvidence
<1>1. IInv => ForwardFollowsEvidence
  BY DEF IInv
<1>2. QED  BY <1>1, PipelineInvariant, PTL

-----------------------------------------------------------------------------
(* The raw message store is an EvidenceLog                                  *)

StoreFile == file["store"]

\* Two initial parts of one sequence: the longer one is what Log!Write writes.
LEMMA Longer ==
    ASSUME NEW a \in Seq(Row), NEW f \in Seq(Row), NEW g \in Seq(Row), NEW new \in Seq(Row),
           Holds(a, f), Holds(a, g), g = f \o new
    PROVE  g = f \/ \E k \in Len(f) + 1 .. Len(a) : g = SubSeq(a, 1, k)
<1>1. Len(f) \in Nat /\ Len(g) \in Nat /\ Len(new) \in Nat /\ Len(a) \in Nat
  BY LenProperties
<1>2. Len(g) = Len(f) + Len(new)
  BY ConcatProperties
<1>3. /\ f = SubSeq(a, 1, Len(f)) /\ g = SubSeq(a, 1, Len(g))
      /\ Len(f) <= Len(a) /\ Len(g) <= Len(a)
  BY DEF Holds
<1>4. CASE Len(g) = Len(f)
  <2>1. SubSeq(a, 1, Len(g)) = SubSeq(a, 1, Len(f))
    BY ONLY <1>4
  <2>2. QED  BY ONLY <1>3, <2>1
<1>5. CASE Len(g) # Len(f)
  <2>1. Len(g) \in Len(f) + 1 .. Len(a)
    <3>1. Len(g) <= Len(a)
      BY <1>3
    <3>2. PICK x \in Nat, y \in Nat, z \in Nat, d \in Nat :
             x = Len(f) /\ y = Len(g) /\ z = Len(a) /\ d = Len(new)
      BY <1>1
    <3>3. y = x + d /\ y # x /\ y <= z
      BY ONLY <1>2, <1>5, <3>1, <3>2
    <3>4. y \in x + 1 .. z
      BY ONLY <3>3, x \in Nat, y \in Nat, z \in Nat, d \in Nat
    <3>5. QED  BY ONLY <3>2, <3>4
  <2>2. QED  BY ONLY <1>3, <2>1
<1>6. QED  BY <1>4, <1>5

\* A worker's step, or the end of the process, at most lengthens the file.
LEMMA FileGrows ==
    ASSUME IInv, WorkStep \/ Killed
    PROVE  \E new \in Seq(Row) : StoreFile' = StoreFile \o new
<1>0. /\ "store" \in Writer /\ batch["store"] \in Seq(Row) /\ StoreFile \in Seq(Row)
      /\ file \in [Writer -> Seq(Row)]
  BY WriterNames, WriterTypes DEF IInv, StoreFile
<1>1. \A k \in 0 .. Len(batch["store"]) : SubSeq(batch["store"], 1, k) \in Seq(Row)
  BY ONLY <1>0, Cut
<1>2. StoreFile \o << >> = StoreFile /\ << >> \in Seq(Row)
  BY <1>0, Nothing
<1>3. CASE WorkStep
  <2>1. PICK w \in Writer : TakeBatch(w) \/ TakeStop(w) \/ BatchWritten(w) \/ WriteFails(w)
    BY <1>3 DEF WorkStep, Takes, Wrote, WriteError
  <2>2. CASE w # "store" \/ TakeBatch(w) \/ TakeStop(w)
    <3>1. StoreFile' = StoreFile
      BY <1>0, <2>1, <2>2
         DEF TakeBatch, TakeStop, BatchWritten, WriteFails, StoreFile
    <3>2. QED  BY <1>2, <3>1
  <2>3. CASE w = "store" /\ BatchWritten(w)
    <3>1. StoreFile' = StoreFile \o batch["store"]
      BY <1>0, <2>3 DEF BatchWritten, StoreFile
    <3>2. QED  BY <1>0, <3>1
  <2>4. CASE w = "store" /\ WriteFails(w)
    <3>1. PICK k \in 0 .. Len(batch["store"]) :
             file' = [file EXCEPT !["store"] = file["store"] \o SubSeq(batch["store"], 1, k)]
      BY <2>4 DEF WriteFails
    <3>2. StoreFile' = StoreFile \o SubSeq(batch["store"], 1, k)
      BY <1>0, <3>1 DEF StoreFile
    <3>3. QED  BY <1>1, <3>2
  <2>5. QED  BY <2>1, <2>2, <2>3, <2>4
<1>4. CASE Killed
  <2>1. StoreFile' \in Torn("store")
    BY <1>0, <1>4, IInvWriters, ProcessKilledOK DEF StoreFile
  <2>2. QED  BY <1>1, <2>1 DEF Torn, StoreFile
<1>5. QED  BY <1>3, <1>4

\* Every step of the gateway is a step of the log, or none.
LEMMA LogStep ==
    ASSUME IInv, [Next]_vars
    PROVE  [Log!Next]_<<accepted["store"], file["store"], cli = "exited">>
<1> DEFINE a == accepted["store"]
           f == file["store"]
<1>0. "store" \in Writer /\ TypeOK
  BY WriterNames DEF IInv
<1>1. ASSUME NEW c \in Conn, Receive(c) \/ SubmitResumes(c)
      PROVE  [Log!Next]_<<accepted["store"], file["store"], cli = "exited">>
  <2>1. Feeds /\ cli' = cli /\ ~Ended
    BY <1>1, FeedFacts DEF FeedStep, ClientStep, process
  <2>2. f' = f /\ ((cli = "exited")' <=> (cli = "exited")) /\ ~(cli = "exited")
    BY <2>1 DEF Feeds, Ended
  <2>3. \/ a' = a
        \/ \E x \in 1 .. MaxMessages : a' = Append(a, x)
    <3>1. CASE Receive(c)
      <4>1. received + 1 \in 1 .. MaxMessages
        BY <1>0, <3>1, ReceiveFacts, MessageRow
      <4>2. QED  BY <3>1, <4>1, ReceiveFacts
    <3>2. CASE SubmitResumes(c)
      <4>1. hand[c] \in 1 .. MaxMessages
        BY <1>0, <3>2, ResumesFacts, MessageRow
      <4>2. QED  BY <3>2, <4>1, ResumesFacts
    <3>3. QED  BY <1>1, <3>1, <3>2
  <2>4. CASE a' = a
    BY <2>1, <2>2, <2>4
  <2>5. CASE \E x \in 1 .. MaxMessages : a' = Append(a, x)
    <3>1. Log!Accept
      BY <2>1, <2>2, <2>5 DEF Log!Accept
    <3>2. QED  BY <3>1 DEF Log!Next
  <2>6. QED  BY <2>3, <2>4, <2>5
<1>2. CASE WorkStep \/ Killed
  <2>1. a' = a /\ cli # "exited" /\ cli' # "exited"
    <3>1. CASE WorkStep
      BY <3>1, WorkStages DEF process
    <3>2. CASE Killed
      BY <3>2 DEF Killed
    <3>3. QED  BY <1>2, <3>1, <3>2
  <2>2. /\ a \in Seq(Row) /\ f \in Seq(Row) /\ f' \in Seq(Row) /\ Holds(a, f) /\ Holds(a, f')
    <3>1. WritersOK /\ WritersOK'
      BY IInvWriters, WritersStep
    <3>2. a \in Seq(Row) /\ f \in Seq(Row) /\ f' \in Seq(Row)
      BY <1>0, <3>1 DEF WritersOK
    <3>3. Holds(a, f) /\ Holds(a', f')
      BY <1>0, <3>1 DEF WritersOK, WriterInv, WriterOK
    <3>4. QED  BY <2>1, <3>2, <3>3
  <2>3. PICK new \in Seq(Row) : f' = f \o new
    BY <1>2, FileGrows DEF StoreFile
  <2>4. f' = f \/ \E k \in Len(f) + 1 .. Len(a) : f' = SubSeq(a, 1, k)
    <3>1. PICK x \in Seq(Row), y \in Seq(Row), z \in Seq(Row) : x = a /\ y = f /\ z = f'
      BY <2>2
    <3>2. Holds(x, y) /\ Holds(x, z) /\ z = y \o new
      BY ONLY <2>2, <2>3, <3>1
    <3>3. z = y \/ \E k \in Len(y) + 1 .. Len(x) : z = SubSeq(x, 1, k)
      BY ONLY <3>2, Longer, x \in Seq(Row), y \in Seq(Row), z \in Seq(Row), new \in Seq(Row)
    <3>4. QED  BY ONLY <3>1, <3>3
  <2>5. CASE f' = f
    BY <2>1, <2>5
  <2>6. CASE \E k \in Len(f) + 1 .. Len(a) : f' = SubSeq(a, 1, k)
    <3>1. Log!Write
      BY <2>1, <2>6 DEF Log!Write
    <3>2. QED  BY <3>1 DEF Log!Next
  <2>7. QED  BY <2>4, <2>5, <2>6
<1>3. CASE WritesSummary /\ cli' = "exited"
  <2>1. a' = a /\ f' = f /\ cli = "stopping" /\ stage = 7
    BY <1>3, StageTypes, StopStages DEF WritesSummary, Stopping, writers
  <2>2. worker["store"] = "done"
    BY <2>1 DEF IInv, StageInv
  <2>3. f = a
    BY <1>0, <2>2, DoneComplete
  <2>4. Log!Close
    BY <1>3, <2>1, <2>3 DEF Log!Close
  <2>5. QED  BY <2>4 DEF Log!Next
<1>4. ASSUME (\A c \in Conn : ~Receive(c) /\ ~SubmitResumes(c)),
             ~WorkStep, ~Killed, ~(WritesSummary /\ cli' = "exited")
      PROVE  a' = a /\ f' = f /\ (cli' = "exited" <=> cli = "exited")
  <2>1. a' = a
    BY <1>4, QuietStep DEF Evidence
  <2>2. f' = f
    BY <1>4, Kinds, FeedFacts, RestUnchanged
       DEF Feeds, StopStep, StopsWriter, StopWriter, PutsStop, PutStop, StartsWriter,
           StartWriter, StartFails, writers
  <2>3. CASE FeedStep
    BY <2>1, <2>2, <2>3, FeedFacts DEF process
  <2>4. CASE StopStep \/ (\E w \in Writer : StartsWriter(w)) \/ StartFails
    <3>1. cli' = cli \/ (cli' = "failed" /\ cli = "starting")
      BY <2>4 DEF StopStep, StopsWriter, PutsStop, StartsWriter, StartFails, Starting,
                  NextStage, Fail
    <3>2. QED  BY <2>1, <2>2, <3>1
  <2>5. CASE RestStep
    <3>1. \/ cli' = cli
          \/ cli \in {"starting", "serving", "stopping"} /\ cli' # "exited"
      BY <1>4, <2>5 DEF RestStep, StartsMetrics, StartsForwarder, StartsGateway, GatewayStopped,
                ForwarderStopped, WriterJoined, MetricsJoined, WritesSummary, SampleFails,
                StopBegins, ForwarderRaises, vars, process, NextStage, Fail, Starting, Stopping
    <3>2. QED  BY <2>1, <2>2, <3>1
  <2>6. QED  BY <1>4, <2>3, <2>4, <2>5, Kinds
<1>5. QED  BY <1>1, <1>2, <1>3, <1>4

LEMMA LogInit == ASSUME Init PROVE Log!Init
BY WriterNames DEF Init, WritersInit, Log!Init

\* storage.py and the shutdown of _run_from_cli implement EvidenceLog: whatever
\* workers fail and whenever the process is killed, the raw message file grows by
\* initial parts of what submit() accepted, and a normal exit closes it complete.
THEOREM StoreRefinesLog == Spec => StoreImplementsLog
<1>1. Init => Log!Init
  BY LogInit
<1>2. IInv /\ [Next]_vars => [Log!Next]_<<accepted["store"], file["store"], cli = "exited">>
  BY LogStep
<1>3. QED  BY <1>1, <1>2, PipelineInvariant, PTL DEF Spec, StoreImplementsLog, Log!Spec
=============================================================================

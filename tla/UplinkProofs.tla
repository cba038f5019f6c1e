---------------------------- MODULE UplinkProofs ----------------------------
(***************************************************************************)
(* TLAPS proofs about a sensor node's way to the registry, for any number   *)
(* of sequence numbers, incarnations, connections and faults: what the      *)
(* sequence numbers tell, and that the simulator's counters add up.         *)
(***************************************************************************)
EXTENDS SensorNodes, FiniteSetTheorems, SequenceTheorems, TLAPS

-----------------------------------------------------------------------------
(* The inductive invariant                                                  *)

\* (b, s) was sent before (c, t), or is the same.
NotAfter(b, s, c, t) == b < c \/ (b = c /\ s <= t)
Before(b, s, c, t) == b < c \/ (b = c /\ s < t)

\* No number is written twice: only the firmware does, after a failed write.
Strict == Physical => faults = 0

\* The numbers of the lines that are in a connection.
Unread(cs) ==
    UNION {{<<cs[c].lines[i].boot, cs[c].lines[i].sequence>> :
               i \in DOMAIN cs[c].lines} : c \in DOMAIN cs}

\* A number that may have been written: it was used up, except that a failed
\* write of the firmware leaves the number to be used again, and a virtual node
\* in its artificial delay has used the number it will write.
Written(iss, pc, strict, b, s) ==
    /\ b \in 1 .. Len(iss)
    /\ s \in 0 .. iss[b]
    /\ strict => s < iss[b]
    /\ pc = "delaying" /\ b = Len(iss) => s < iss[b] - 1

WrittenInv ==
    \A p \in delivered \cup Unread(conns) :
       Written(issued, npc, Strict, p[1], p[2])

\* The order of two lines, and the place (c, i) before (d, j).
InOrder(k, l, strict) ==
    /\ NotAfter(k.boot, k.sequence, l.boot, l.sequence)
    /\ strict => Before(k.boot, k.sequence, l.boot, l.sequence)

FirstPlace(c, i, d, j) == c < d \/ (c = d /\ i < j)

\* The unread lines are in the order they were sent, over all connections.
Ordered(cs, strict) ==
    \A c, d \in 1 .. Len(cs) :
       \A i \in 1 .. Len(cs[c].lines), j \in 1 .. Len(cs[d].lines) :
          FirstPlace(c, i, d, j) => InOrder(cs[c].lines[i], cs[d].lines[j], strict)

OrderInv == Ordered(conns, Strict)

FreshInv == Strict => Unread(conns) \cap delivered = {}

\* The numbers before (b, s) that were used up and not observed.
Passed(iss, del, b, s) ==
    {p \in (1 .. Len(iss)) \X (0 .. MaxSequence) :
        p[2] < iss[p[1]] /\ p \notin del /\ Before(p[1], p[2], b, s)}

\* What is left in connection nw and in newer ones was sent after (b, s).
LinesAfter(cs, nw, b, s) ==
    \A c \in 1 .. Len(cs) : c >= nw =>
       \A i \in 1 .. Len(cs[c].lines) :
          NotAfter(b, s, cs[c].lines[i].boot, cs[c].lines[i].sequence)

\* There were fewer resets than restarts; the registry follows the node once it
\* has seen the start of the incarnation, and is ahead of it otherwise; what it
\* believes to be missing was passed.
Follows(rec, del, iss, b, s) ==
    /\ rec.sequenceResets < b
    /\ rec.lastSequence >= s
    /\ <<b, 0>> \in del => rec.lastSequence = s
    /\ rec.estimatedMissing <= Cardinality(Passed(iss, del, b, s))

\* (b, s) is the last number that was observed.
Mark(cs, nw, rec, del, iss, b, s) ==
    /\ <<b, s>> \in del
    /\ \A p \in del : NotAfter(p[1], p[2], b, s)
    /\ LinesAfter(cs, nw, b, s)
    /\ Follows(rec, del, iss, b, s)

MarkInv ==
    ~overtaken /\ Registry!Known(record) =>
       \E b \in 1 .. Boot, s \in 0 .. MaxSequence :
          Mark(conns, newest, record, delivered, issued, b, s)

\* The registry's last number is one it observed.
LastInv ==
    /\ ~Registry!Known(record) => record = Registry!Unseen /\ delivered = {}
    /\ Registry!Known(record) =>
          \E b \in 1 .. Boot : <<b, record.lastSequence>> \in delivered

NodeInv ==
    /\ client => Newest > 0
    /\ newest <= Newest
    /\ Physical <=> npc = "off"
    /\ npc = "delaying" => Sequence > 0

\* The readings under way.
Busy == IF npc \in {"delaying", "draining"} THEN 1 ELSE 0

Balanced(c) == c.samples = c.attempts + c.drops

CounterInv ==
    /\ Balanced(Totals)
    /\ Balanced(baseline)
    /\ \A k \in Counters : baseline[k] <= Totals[k]
    /\ Totals.sent + Busy <= Totals.attempts
    /\ Totals.sent + baseline.attempts + Busy <= Totals.attempts + baseline.sent + 1

\* Whatever was written was counted as an attempt before.
CoverInv ==
    ~Physical =>
       /\ record.messagesReceived = Cardinality(delivered)
       /\ Cardinality(delivered \cup Unread(conns))
             + (IF npc = "delaying" THEN 1 ELSE 0) <= Totals.attempts

IInv ==
    /\ TypeOK /\ NodeInv
    /\ WrittenInv /\ OrderInv /\ FreshInv
    /\ MarkInv /\ LastInv
    /\ CounterInv /\ CoverInv /\ StatsRowBalanced

-----------------------------------------------------------------------------
(* What the steps do to the connections                                     *)

LineType == [boot : Nat, sequence : Nat, whole : BOOLEAN]
Connection == [lines : Seq(LineType), up : BOOLEAN]

\* new is old without lines at its ends.
Part(new, old) ==
    \E k \in Nat : /\ Len(new) + k <= Len(old)
                   /\ \A i \in 1 .. Len(new) : new[i] = old[i + k]

\* Lines were read or lost, and connections were opened.
Shrunk(new, old) ==
    /\ new \in Seq(Connection)
    /\ Len(old) <= Len(new)
    /\ \A c \in DOMAIN old : Part(new[c].lines, old[c].lines)
    /\ \A c \in DOMAIN new : c \notin DOMAIN old => new[c].lines = << >>

\* A line was written to the newest connection.
Appended(new, old, l) ==
    /\ new \in Seq(Connection)
    /\ l \in LineType
    /\ Len(old) > 0 /\ Len(new) = Len(old)
    /\ new[Len(old)].lines = Append(old[Len(old)].lines, l)
    /\ \A c \in 1 .. Len(old) - 1 : new[c].lines = old[c].lines

LEMMA ConnectionFacts ==
    ASSUME NEW cs \in Seq(Connection)
    PROVE  /\ Len(cs) \in Nat /\ DOMAIN cs = 1 .. Len(cs)
           /\ \A c \in 1 .. Len(cs) :
                 /\ cs[c] \in Connection
                 /\ cs[c].lines \in Seq(LineType)
                 /\ Len(cs[c].lines) \in Nat
                 /\ DOMAIN cs[c].lines = 1 .. Len(cs[c].lines)
                 /\ \A i \in 1 .. Len(cs[c].lines) : cs[c].lines[i] \in LineType
<1>1. Len(cs) \in Nat /\ DOMAIN cs = 1 .. Len(cs)
  OBVIOUS
<1>2. ASSUME NEW c \in 1 .. Len(cs)
      PROVE  /\ cs[c] \in Connection
             /\ cs[c].lines \in Seq(LineType)
             /\ Len(cs[c].lines) \in Nat
             /\ DOMAIN cs[c].lines = 1 .. Len(cs[c].lines)
             /\ \A i \in 1 .. Len(cs[c].lines) : cs[c].lines[i] \in LineType
  <2>1. cs[c] \in Connection
    OBVIOUS
  <2>2. cs[c].lines \in Seq(LineType)
    BY <2>1 DEF Connection
  <2> QED  BY <2>1, <2>2
<1> QED  BY <1>1, <1>2

\* Replacing one connection of the sequence.
LEMMA ReplaceConnection ==
    ASSUME NEW cs \in Seq(Connection), NEW c \in DOMAIN cs, NEW k \in Connection
    PROVE  /\ [cs EXCEPT ![c] = k] \in Seq(Connection)
           /\ Len([cs EXCEPT ![c] = k]) = Len(cs)
           /\ [cs EXCEPT ![c] = k][c] = k
           /\ \A d \in DOMAIN cs : d # c => [cs EXCEPT ![c] = k][d] = cs[d]
BY ExceptSeq

LEMMA PartSame ==
    ASSUME NEW x \in Seq(LineType)
    PROVE  Part(x, x)
<1>1. Len(x) + 0 <= Len(x) /\ \A i \in 1 .. Len(x) : x[i] = x[i + 0]
  <2>1. Len(x) \in Nat
    OBVIOUS
  <2>2. ASSUME NEW i \in 1 .. Len(x) PROVE i + 0 = i
    BY <2>1
  <2> QED  BY <2>1, <2>2
<1>2. 0 \in Nat
  OBVIOUS
<1> QED  BY <1>1, <1>2, Zenon DEF Part

LEMMA ShrunkSame ==
    ASSUME NEW cs \in Seq(Connection)
    PROVE  Shrunk(cs, cs)
<1>1. ASSUME NEW c \in DOMAIN cs
      PROVE  Part(cs[c].lines, cs[c].lines)
  BY PartSame, ConnectionFacts
<1> QED  BY <1>1, ConnectionFacts DEF Shrunk

\* A connection keeps part of its lines.
LEMMA ShrunkOne ==
    ASSUME NEW cs \in Seq(Connection), NEW c \in DOMAIN cs, NEW new \in Connection,
           Part(new.lines, cs[c].lines)
    PROVE  Shrunk([cs EXCEPT ![c] = new], cs)
<1> DEFINE ds == [cs EXCEPT ![c] = new]
<1>1. /\ ds \in Seq(Connection) /\ Len(ds) = Len(cs) /\ ds[c] = new
      /\ \A d \in DOMAIN cs : d # c => ds[d] = cs[d]
  BY ReplaceConnection
<1> HIDE DEF ds
<1>2. Shrunk(cs, cs)
  BY ShrunkSame
<1>3. ASSUME NEW d \in DOMAIN cs
      PROVE  Part(ds[d].lines, cs[d].lines)
  <2>1. CASE d = c
    BY <1>1, <2>1
  <2>2. CASE d # c
    BY <1>1, <1>2, <2>2 DEF Shrunk
  <2> QED  BY <2>1, <2>2
<1>4. DOMAIN ds = DOMAIN cs
  BY <1>1, ConnectionFacts
<1>5. Shrunk(ds, cs)
  BY <1>1, <1>3, <1>4, ConnectionFacts DEF Shrunk
<1> QED  BY <1>5 DEF ds

LEMMA ShrunkOpen ==
    ASSUME NEW cs \in Seq(Connection)
    PROVE  /\ Shrunk(Append(cs, [lines |-> << >>, up |-> TRUE]), cs)
           /\ Len(Append(cs, [lines |-> << >>, up |-> TRUE])) = Len(cs) + 1
<1> DEFINE k == [lines |-> << >>, up |-> TRUE]
           ds == Append(cs, k)
<1>1. k \in Connection /\ k.lines = << >>
  BY DEF Connection
<1> HIDE DEF k
<1>2. /\ ds \in Seq(Connection) /\ Len(ds) = Len(cs) + 1 /\ ds[Len(cs) + 1] = k
      /\ \A d \in 1 .. Len(cs) : ds[d] = cs[d]
  BY <1>1, AppendProperties
<1> HIDE DEF ds
<1>3. Shrunk(cs, cs)
  BY ShrunkSame
<1>4. ASSUME NEW d \in DOMAIN cs
      PROVE  Part(ds[d].lines, cs[d].lines)
  <2>1. ds[d] = cs[d]
    BY <1>2, ConnectionFacts
  <2> QED  BY <1>3, <2>1 DEF Shrunk
<1>5. \A d \in DOMAIN ds : d \notin DOMAIN cs => ds[d].lines = << >>
  BY <1>1, <1>2, ConnectionFacts
<1>6. Shrunk(ds, cs)
  BY <1>2, <1>4, <1>5, ConnectionFacts DEF Shrunk
<1> QED  BY <1>2, <1>6 DEF ds, k

LEMMA AppendedOne ==
    ASSUME NEW cs \in Seq(Connection), Len(cs) > 0, NEW new \in Connection,
           NEW l \in LineType, new.lines = Append(cs[Len(cs)].lines, l)
    PROVE  Appended([cs EXCEPT ![Len(cs)] = new], cs, l)
<1>1. Len(cs) \in DOMAIN cs
  BY ConnectionFacts
<1> QED  BY <1>1, ReplaceConnection, ConnectionFacts DEF Appended

-----------------------------------------------------------------------------
(* The kinds of steps                                                       *)

\* What every step does.
Frame ==
    /\ Len(conns') <= MaxConnections
    /\ client' \in BOOLEAN
    /\ client' => Len(conns') > 0
    /\ faults' \in Nat /\ faults <= faults' /\ faults' <= MaxFaults

\* No number is used or written, nothing is observed.
Idles ==
    /\ Shrunk(conns', conns)
    /\ UNCHANGED <<issued, gateway>>
    /\ npc' = "delaying" => npc = "delaying"

\* A number is used, and not written.
Uses ==
    /\ Sequence < MaxSequence
    /\ issued' = NextSequence
    /\ UNCHANGED <<conns, gateway>>

Restarts ==
    /\ Boot < MaxIncarnations
    /\ issued' = Append(issued, 0)
    /\ UNCHANGED <<conns, gateway>>
    /\ npc' # "delaying"

\* A line is written: its number is used, or the write failed, or the number
\* was used before the delay.
SendsLine(l) ==
    /\ Appended(conns', conns, l)
    /\ l.boot = Boot
    /\ \/ /\ l.sequence = Sequence
          /\ Sequence < MaxSequence
          /\ issued' = NextSequence
          /\ Physical'
       \/ /\ l.sequence = Sequence
          /\ UNCHANGED issued
          /\ Physical' /\ faults' > 0
       \/ /\ l.sequence = Sequence - 1
          /\ UNCHANGED issued
          /\ npc = "delaying"
    /\ npc' # "delaying"
    /\ UNCHANGED gateway

Sends == \E l : SendsLine(l)

Reads == (\E c \in DOMAIN conns : ReadLine(c)) /\ UNCHANGED npc

Kinds == Idles \/ Uses \/ Restarts \/ Sends \/ Reads

\* What the types say of the uplink.
UplinkFacts ==
    /\ conns \in Seq(Connection) /\ Len(conns) \in Nat
    /\ Len(conns) <= MaxConnections
    /\ client \in BOOLEAN /\ (client => Len(conns) > 0)
    /\ issued \in Seq(Nat) /\ Boot \in Nat /\ Boot > 0 /\ Boot <= MaxIncarnations
    /\ Sequence \in Nat
    /\ faults \in Nat /\ faults <= MaxFaults
    /\ MaxConnections \in Nat /\ MaxFaults \in Nat /\ MaxSequence \in Nat
    /\ MaxIncarnations \in Nat

LEMMA UplinkFactsHold == UplinkTypeOK /\ NodeInv => UplinkFacts
<1> SUFFICES ASSUME UplinkTypeOK, NodeInv  PROVE UplinkFacts
  OBVIOUS
<1>1. /\ MaxConnections \in Nat /\ MaxFaults \in Nat /\ MaxSequence \in Nat
      /\ MaxIncarnations \in Nat
  BY UplinkAssumption
<1>2. conns \in Seq(Connection)
  BY DEF UplinkTypeOK, Connection, LineType
<1>3. issued \in Seq(0 .. MaxSequence) /\ Boot \in 1 .. MaxIncarnations
  BY DEF UplinkTypeOK
<1>4. Sequence \in 0 .. MaxSequence
  BY <1>1, <1>3 DEF Boot, Sequence
<1>5. issued \in Seq(Nat)
  BY <1>1, <1>3, SeqMonotonic
<1>6. Len(conns) \in Nat
  BY <1>2
<1> QED
  BY <1>1, <1>2, <1>3, <1>4, <1>5, <1>6
  DEF UplinkTypeOK, NodeInv, UplinkFacts, Newest

\* A step that leaves the uplink alone, except that the node may give up its
\* connection.
LEMMA QuietKind ==
    ASSUME UplinkFacts, conns' = conns, UNCHANGED <<issued, gateway>>,
           client' \in {FALSE, client},
           faults' \in Nat, faults <= faults', faults' <= MaxFaults,
           npc' = "delaying" => npc = "delaying"
    PROVE  Frame /\ Idles
<1>1. Shrunk(conns', conns)
  BY ShrunkSame DEF UplinkFacts
<1>2. client' \in BOOLEAN /\ (client' => Len(conns') > 0)
  <2>1. client \in BOOLEAN /\ (client => Len(conns') > 0)
    BY DEF UplinkFacts
  <2>2. CASE client' = FALSE
    BY <2>2
  <2>3. CASE client' = client
    BY <2>1, <2>3, Zenon
  <2> QED  BY <2>2, <2>3
<1>3. Frame
  BY <1>2 DEF UplinkFacts, Frame
<1>4. Idles
  BY <1>1, Zenon DEF Idles
<1> QED  BY <1>3, <1>4

LEMMA OpenKind ==
    ASSUME UplinkFacts, conns' = Open, Newest < MaxConnections,
           UNCHANGED <<issued, faults, gateway>>, client' = TRUE,
           npc' = "delaying" => npc = "delaying"
    PROVE  Frame /\ Idles
<1>1. Shrunk(conns', conns) /\ Len(conns') = Len(conns) + 1
  BY ShrunkOpen DEF UplinkFacts, Open
<1> QED  BY <1>1 DEF UplinkFacts, Frame, Idles, Newest

\* The newest connection gets a line.
LEMMA LineKind ==
    ASSUME UplinkFacts, NEW l \in LineType, NEW new \in Connection,
           Carried, new.lines = Append(conns[Newest].lines, l),
           conns' = [conns EXCEPT ![Newest] = new]
    PROVE  Appended(conns', conns, l) /\ Len(conns') = Len(conns) /\ Len(conns) > 0
<1>1. Len(conns) > 0
  BY DEF UplinkFacts, Carried
<1>2. Appended(conns', conns, l)
  BY <1>1, AppendedOne DEF UplinkFacts, Newest
<1> QED  BY <1>1, <1>2 DEF Appended

LEMMA WriteKind ==
    ASSUME UplinkFacts, NEW l \in LineType, conns' = Write(l)
    PROVE  \/ conns' = conns
           \/ Appended(conns', conns, l) /\ Len(conns') = Len(conns) /\ Len(conns) > 0
<1>1. CASE ~Carried
  BY <1>1 DEF Write
<1>2. CASE Carried
  <2>1. Newest \in 1 .. Len(conns)
    BY <1>2 DEF UplinkFacts, Carried, Newest
  <2>2. conns[Newest] \in Connection /\ conns[Newest].lines \in Seq(LineType)
    BY <2>1, ConnectionFacts DEF UplinkFacts
  <2> DEFINE new == [conns[Newest] EXCEPT !.lines = Append(@, l)]
  <2>3. new.lines = Append(conns[Newest].lines, l) /\ new \in Connection
    BY <2>2, AppendProperties DEF Connection
  <2>4. conns' = [conns EXCEPT ![Newest] = new]
    BY <1>2 DEF Write
  <2> HIDE DEF new
  <2> QED  BY <1>2, <2>3, <2>4, LineKind
<1> QED  BY <1>1, <1>2

-----------------------------------------------------------------------------
(* Each step is of one of the kinds                                         *)

LEMMA UplinkKinds ==
    ASSUME UplinkFacts, UplinkStep, UNCHANGED <<npc>>
    PROVE  Frame /\ Kinds
<1>1. CASE GatewayReads
  <2>1. PICK c \in DOMAIN conns : ReadLine(c) \/ ReadTruncated(c)
    BY <1>1 DEF GatewayReads
  <2>2. c \in 1 .. Len(conns) /\ conns[c] \in Connection /\ conns[c].lines \in Seq(LineType)
    BY ConnectionFacts DEF UplinkFacts
  <2>3. CASE ReadLine(c)
    <3>1. Reads
      BY <2>3 DEF Reads
    <3> DEFINE new == [conns[c] EXCEPT !.lines = Tail(@)]
    <3>2. conns[c].lines # << >> /\ conns' = [conns EXCEPT ![c] = new]
          /\ UNCHANGED <<client, faults>>
      BY <2>3 DEF ReadLine
    <3>3. new \in Connection
      BY <2>2, <3>2, HeadTailProperties DEF Connection
    <3> HIDE DEF new
    <3>4. Len(conns') = Len(conns)
      BY <3>2, <3>3, ReplaceConnection DEF UplinkFacts
    <3>5. Frame
      BY <3>2, <3>4 DEF UplinkFacts, Frame
    <3> QED  BY <3>1, <3>5 DEF Kinds
  <2>4. CASE ReadTruncated(c)
    <3> DEFINE new == [lines |-> << >>, up |-> FALSE]
    <3>1. new \in Connection /\ Part(new.lines, conns[c].lines)
      BY <2>2, EmptySeq DEF Connection, Part
    <3>2. /\ conns' = [conns EXCEPT ![c] = new]
          /\ UNCHANGED <<client, faults>> /\ UNCHANGED <<issued, gateway>>
      BY <2>4 DEF ReadTruncated, Cut
    <3> HIDE DEF new
    <3>3. Shrunk(conns', conns) /\ Len(conns') = Len(conns)
      BY <3>1, <3>2, ShrunkOne, ReplaceConnection DEF UplinkFacts
    <3>4. Frame
      BY <3>2, <3>3 DEF UplinkFacts, Frame
    <3>5. Idles
      BY <3>2, <3>3, Zenon DEF Idles
    <3> QED  BY <3>4, <3>5 DEF Kinds
  <2> QED  BY <2>1, <2>3, <2>4
<1>2. CASE \E c \in DOMAIN conns : ConnectionLost(c)
  <2>1. PICK c \in DOMAIN conns : ConnectionLost(c)
    BY <1>2
  <2>2. /\ c \in 1 .. Len(conns) /\ conns[c] \in Connection
        /\ conns[c].lines \in Seq(LineType) /\ Len(conns[c].lines) \in Nat
    BY ConnectionFacts DEF UplinkFacts
  <2>3. PICK k \in 0 .. Len(conns[c].lines) :
           conns' = Cut(c, SubSeq(conns[c].lines, 1, k))
    BY <2>1 DEF ConnectionLost
  <2> DEFINE new == [lines |-> SubSeq(conns[c].lines, 1, k), up |-> FALSE]
  <2>4. /\ SubSeq(conns[c].lines, 1, k) \in Seq(LineType)
        /\ Len(SubSeq(conns[c].lines, 1, k)) = k
        /\ \A i \in 1 .. k : SubSeq(conns[c].lines, 1, k)[i] = conns[c].lines[i]
    BY <2>2
  <2>5. new \in Connection /\ Part(new.lines, conns[c].lines)
    BY <2>2, <2>4 DEF Connection, Part
  <2>6. conns' = [conns EXCEPT ![c] = new]
    BY <2>3 DEF Cut
  <2> HIDE DEF new
  <2>7. Shrunk(conns', conns) /\ Len(conns') = Len(conns)
    BY <2>5, <2>6, ShrunkOne, ReplaceConnection DEF UplinkFacts
  <2>8. /\ faults < MaxFaults /\ faults' = faults + 1
        /\ UNCHANGED client /\ UNCHANGED <<issued, gateway>>
    BY <2>1, Zenon DEF ConnectionLost
  <2>9. Frame
    BY <2>7, <2>8 DEF UplinkFacts, Frame
  <2>10. Idles
    BY <2>7, <2>8, Zenon DEF Idles
  <2> QED  BY <2>9, <2>10 DEF Kinds
<1> QED  BY <1>1, <1>2 DEF UplinkStep

\* The lines that a node writes.
LEMMA LineFacts ==
    ASSUME UplinkFacts
    PROVE  /\ Line \in LineType /\ Line.boot = Boot /\ Line.sequence = Sequence
           /\ CutLine \in LineType /\ CutLine.boot = Boot /\ CutLine.sequence = Sequence
           /\ Sequence > 0 =>
                 LET l == [Line EXCEPT !.sequence = Sequence - 1]
                 IN  l \in LineType /\ l.boot = Boot /\ l.sequence = Sequence - 1
<1>1. Boot \in Nat /\ Sequence \in Nat
  BY DEF UplinkFacts
<1>2. Line \in LineType /\ Line.boot = Boot /\ Line.sequence = Sequence
  BY <1>1 DEF LineType, Line
<1>3. CutLine \in LineType /\ CutLine.boot = Boot /\ CutLine.sequence = Sequence
  BY <1>2 DEF LineType, CutLine
<1>4. ASSUME Sequence > 0
      PROVE  LET l == [Line EXCEPT !.sequence = Sequence - 1]
             IN  l \in LineType /\ l.boot = Boot /\ l.sequence = Sequence - 1
  <2>1. Sequence - 1 \in Nat
    BY <1>1, <1>4
  <2> QED  BY <1>2, <2>1 DEF LineType
<1> QED  BY <1>2, <1>3, <1>4

\* Steps that do not touch the uplink.
LEMMA QuietStep ==
    ASSUME UplinkFacts, UNCHANGED uplink, npc' = "delaying" => npc = "delaying"
    PROVE  Frame /\ Idles
<1>1. /\ conns' = conns /\ UNCHANGED <<issued, gateway>>
      /\ client' \in {FALSE, client} /\ faults' = faults
  BY Zenon DEF uplink, gateway
<1>2. faults' \in Nat /\ faults <= faults' /\ faults' <= MaxFaults
  BY <1>1 DEF UplinkFacts
<1> QED  BY <1>1, <1>2, QuietKind

LEMMA FirmwareSends ==
    ASSUME UplinkFacts, SampleSent, UNCHANGED npc, npc # "delaying"
    PROVE  Frame /\ Kinds
<1>1. /\ conns' = Write(Line) /\ issued' = NextSequence /\ Sequence < MaxSequence
      /\ client' = client /\ faults' = faults /\ UNCHANGED gateway /\ Physical'
  BY DEF SampleSent, SampleDue, Physical, Off
<1>2. CASE conns' = conns
  <2>1. Uses
    BY <1>1, <1>2, Zenon DEF Uses
  <2>2. Frame
    BY <1>1, <1>2 DEF UplinkFacts, Frame
  <2> QED  BY <2>1, <2>2 DEF Kinds
<1>3. CASE Appended(conns', conns, Line) /\ Len(conns') = Len(conns) /\ Len(conns) > 0
  <2>1. SendsLine(Line)
    BY <1>1, <1>3, LineFacts DEF SendsLine
  <2>2. Frame
    BY <1>1, <1>3 DEF UplinkFacts, Frame
  <2> QED  BY <2>1, <2>2 DEF Kinds, Sends
<1> QED  BY <1>1, <1>2, <1>3, WriteKind, LineFacts

LEMMA FirmwareFails ==
    ASSUME UplinkFacts, SampleFails, UNCHANGED npc, npc # "delaying"
    PROVE  Frame /\ Kinds
<1>1. /\ client' = FALSE /\ issued' = issued /\ UNCHANGED gateway
      /\ Carried => faults < MaxFaults
      /\ faults' = IF Carried THEN faults + 1 ELSE faults
      /\ fpc' = "delay"
  BY DEF SampleFails
<1>2. CASE conns' = conns
  <2>1. faults' \in Nat /\ faults <= faults' /\ faults' <= MaxFaults
    BY <1>1 DEF UplinkFacts
  <2>2. Frame /\ Idles
    BY <1>1, <1>2, <2>1, QuietKind
  <2> QED  BY <2>2 DEF Kinds
<1>3. ASSUME Carried, NEW tail \in {<< >>, << CutLine >>, << Line >>},
             conns' = Cut(Newest, conns[Newest].lines \o tail)
      PROVE  Frame /\ Kinds
  <2>1. Newest \in DOMAIN conns /\ Newest = Len(conns) /\ Len(conns) > 0
    BY <1>3, ConnectionFacts DEF UplinkFacts, Carried, Newest
  <2>2. conns[Newest].lines \in Seq(LineType)
    BY <2>1, ConnectionFacts DEF UplinkFacts
  <2>3. faults' \in Nat /\ faults <= faults' /\ faults' <= MaxFaults /\ faults' > 0
    BY <1>1, <1>3 DEF UplinkFacts
  <2> DEFINE new == [lines |-> conns[Newest].lines \o tail, up |-> FALSE]
  <2>4. conns' = [conns EXCEPT ![Newest] = new]
    BY <1>3 DEF Cut
  <2>5. CASE tail = << >>
    <3>1. new.lines = conns[Newest].lines /\ new \in Connection
      BY <2>2, <2>5, ConcatEmptySeq DEF Connection
    <3> HIDE DEF new
    <3>2. Part(new.lines, conns[Newest].lines)
      BY <2>2, <3>1, PartSame
    <3>6. conns \in Seq(Connection)
      BY DEF UplinkFacts
    <3>3. Shrunk(conns', conns) /\ Len(conns') = Len(conns)
      <4>1. Shrunk([conns EXCEPT ![Newest] = new], conns)
        BY ONLY <2>1, <3>1, <3>2, <3>6, ShrunkOne
      <4>2. Len([conns EXCEPT ![Newest] = new]) = Len(conns)
        BY ONLY <2>1, <3>1, <3>6, ReplaceConnection
      <4> QED  BY <2>4, <4>1, <4>2
    <3>4. Frame
      BY <1>1, <2>3, <3>3 DEF UplinkFacts, Frame
    <3>5. Idles
      BY <1>1, <3>3, Zenon DEF Idles
    <3> QED  BY <3>4, <3>5 DEF Kinds
  <2>6. ASSUME NEW l \in {CutLine, Line}, tail = << l >>
        PROVE  Frame /\ Kinds
    <3>1. l \in LineType /\ l.boot = Boot /\ l.sequence = Sequence
      BY <2>6, LineFacts
    <3>2. new.lines = Append(conns[Newest].lines, l) /\ new \in Connection
      <4>1. Append(conns[Newest].lines, l) = conns[Newest].lines \o << l >>
        BY <2>2, <3>1, AppendIsConcat
      <4>2. Append(conns[Newest].lines, l) \in Seq(LineType)
        BY <2>2, <3>1, AppendProperties
      <4> QED  BY <2>6, <4>1, <4>2 DEF Connection
    <3> HIDE DEF new
    <3>3. Appended(conns', conns, l) /\ Len(conns') = Len(conns)
      BY <1>3, <2>4, <3>1, <3>2, LineKind
    <3>4. Frame
      BY <1>1, <2>3, <3>3 DEF UplinkFacts, Frame
    <3>5. SendsLine(l)
      <4>1. Physical'
        BY <1>1 DEF Physical, Off
      <4> QED  BY <1>1, <2>3, <3>1, <3>3, <4>1 DEF SendsLine
    <3> QED  BY <3>4, <3>5 DEF Kinds, Sends
  <2> QED  BY <1>3, <2>5, <2>6
<1> QED  BY <1>2, <1>3 DEF SampleFails

LEMMA FirmwareKinds ==
    ASSUME UplinkFacts, Physical, FirmwareStep, UNCHANGED npc, npc # "delaying"
    PROVE  Frame /\ Kinds /\ Physical'
<1>1. CASE \/ Setup \/ ServiceSensor \/ WifiConnected \/ TcpServed \/ SampleSkipped
           \/ SampleInvalid \/ PassEnds
  <2>1. UNCHANGED uplink /\ fpc' # "off"
    BY <1>1 DEF Setup, ServiceSensor, WifiConnected, TcpServed, SampleSkipped,
                SampleInvalid, PassEnds
  <2> QED  BY <2>1, QuietStep DEF Kinds, Physical, Off
<1>2. CASE WifiDown \/ TcpWaits \/ \E d \in 0 .. ConnectTimeout : TcpFails(d)
  <2>1. /\ conns' = conns /\ UNCHANGED <<issued, gateway>>
        /\ client' \in {FALSE, client} /\ faults' = faults /\ fpc' # "off"
    BY <1>2 DEF WifiDown, DropClient, TcpWaits, TcpFails
  <2>4. faults' \in Nat /\ faults <= faults' /\ faults' <= MaxFaults
    BY <2>1 DEF UplinkFacts
  <2>2. Frame /\ Idles
    BY <2>1, <2>4, QuietKind
  <2> QED  BY <2>1, <2>2 DEF Kinds, Physical, Off
<1>3. CASE SampleSent
  <2>1. fpc' # "off"
    BY <1>3 DEF SampleSent
  <2> QED  BY <1>3, <2>1, FirmwareSends DEF Physical, Off
<1>4. CASE SampleFails
  <2>1. fpc' # "off"
    BY <1>4 DEF SampleFails
  <2> QED  BY <1>4, <2>1, FirmwareFails DEF Physical, Off
<1>5. CASE \E d \in 0 .. ConnectTimeout : TcpConnects(d)
  <2>1. /\ conns' = Open /\ Newest < MaxConnections /\ client' = TRUE
        /\ UNCHANGED <<issued, faults, gateway>> /\ fpc' # "off"
    BY <1>5 DEF TcpConnects
  <2>2. Frame /\ Idles
    BY <2>1, OpenKind
  <2> QED  BY <2>1, <2>2 DEF Kinds, Physical, Off
<1>6. CASE WifiAssociates
  <2>1. UNCHANGED uplink /\ fpc' # "off"
    BY <1>6 DEF WifiAssociates, Off
  <2> QED  BY <2>1, QuietStep DEF Kinds, Physical, Off
<1>7. CASE WifiLost
  <2>1. /\ conns' = conns /\ UNCHANGED <<issued, gateway>>
        /\ client' \in {FALSE, client} /\ faults' = faults + 1 /\ faults < MaxFaults
    BY <1>7 DEF WifiLost
  <2>4. faults' \in Nat /\ faults <= faults' /\ faults' <= MaxFaults
    BY <2>1 DEF UplinkFacts
  <2>2. Frame /\ Idles
    BY <2>1, <2>4, QuietKind
  <2>3. Physical'
    BY <1>7 DEF WifiLost, Physical, Off
  <2> QED  BY <2>2, <2>3 DEF Kinds
<1>8. CASE Reboot
  <2>1. Restarts
    BY <1>8 DEF Reboot, Restarts
  <2>2. client' = FALSE /\ conns' = conns /\ faults' = faults
    BY <1>8 DEF Reboot
  <2>5. client' \in BOOLEAN /\ ~client'
    BY <2>2
  <2>4. Frame
    BY <2>2, <2>5 DEF Frame, UplinkFacts
  <2>3. fpc' # "off"
    BY <1>8 DEF Reboot
  <2> QED  BY <2>1, <2>3, <2>4 DEF Kinds, Physical, Off
<1> QED
  BY <1>1, <1>2, <1>3, <1>4, <1>5, <1>6, <1>7, <1>8 DEF FirmwareStep, LoopStep

LEMMA NumberUsed ==
    ASSUME UplinkFacts, MoreSamples, issued' = NextSequence,
           UNCHANGED <<conns, client, faults, gateway>>
    PROVE  Frame /\ Uses
<1>1. Uses
  BY DEF Uses, MoreSamples
<1>2. Frame
  BY DEF UplinkFacts, Frame
<1> QED  BY <1>1, <1>2

LEMMA VirtualWrites ==
    ASSUME UplinkFacts, NodeWrites, npc = "delaying" => Sequence > 0
    PROVE  Frame /\ Kinds
<1> DEFINE l == [Line EXCEPT !.sequence = Sequence - 1]
<1>1. /\ npc = "delaying" /\ npc' = "draining" /\ conns' = Write(l)
      /\ client' = client /\ issued' = issued /\ faults' = faults /\ UNCHANGED gateway
  BY DEF NodeWrites
<1>2. l \in LineType /\ l.boot = Boot /\ l.sequence = Sequence - 1
  BY <1>1, LineFacts
<1> HIDE DEF l
<1>3. CASE conns' = conns
  <2>1. Idles
    BY <1>1, <1>3, ShrunkSame DEF Idles, UplinkFacts
  <2>2. Frame
    BY <1>1, <1>3 DEF UplinkFacts, Frame
  <2> QED  BY <2>1, <2>2 DEF Kinds
<1>4. CASE Appended(conns', conns, l) /\ Len(conns') = Len(conns) /\ Len(conns) > 0
  <2>1. SendsLine(l)
    BY <1>1, <1>2, <1>4 DEF SendsLine
  <2>2. Frame
    BY <1>1, <1>4 DEF UplinkFacts, Frame
  <2> QED  BY <2>1, <2>2 DEF Kinds, Sends
<1> QED  BY <1>1, <1>2, <1>3, <1>4, WriteKind

LEMMA CancelledKind ==
    ASSUME UplinkFacts, Cancelled, npc # "off"
    PROVE  Frame /\ Idles /\ npc' # "off"
<1>1. /\ conns' = conns /\ UNCHANGED <<issued, gateway>>
      /\ client' \in {FALSE, client} /\ faults' = faults
      /\ npc' # "off" /\ npc' # "delaying"
  BY DEF Cancelled
<1>2. faults' \in Nat /\ faults <= faults' /\ faults' <= MaxFaults
  BY <1>1 DEF UplinkFacts
<1> QED  BY <1>1, <1>2, QuietKind

LEMMA VirtualKinds ==
    ASSUME UplinkFacts, VirtualStep, npc # "off", npc = "delaying" => Sequence > 0
    PROVE  Frame /\ Kinds /\ npc' # "off"
<1>1. CASE NodeConnects
  <2>1. /\ conns' = Open /\ Newest < MaxConnections /\ client' = TRUE
        /\ UNCHANGED <<issued, faults, gateway>> /\ npc' = "sampling"
    BY <1>1 DEF NodeConnects
  <2> QED  BY <2>1, OpenKind DEF Kinds
<1>2. CASE \/ NodeConnectFails \/ NodeDrained \/ NodeDrainFails \/ NodeEnds
           \/ MeasurementStarts \/ WriteStats
  <2>1. /\ UNCHANGED uplink /\ (npc' = "delaying" => npc = "delaying")
        /\ npc' # "off"
    BY <1>2 DEF NodeConnectFails, NodeDrained, NodeDrainFails, NodeEnds,
                MeasurementStarts, WriteStats
  <2> QED  BY <2>1, QuietStep DEF Kinds
<1>3. CASE NodeDrops \/ NodeSends
  <2>1. /\ MoreSamples /\ issued' = NextSequence
        /\ UNCHANGED <<conns, client, faults, gateway>> /\ npc' # "off"
    BY <1>3 DEF NodeDrops, NodeSends
  <2> QED  BY <2>1, NumberUsed DEF Kinds
<1>4. CASE NodeWrites
  <2>1. npc' # "off"
    BY <1>4 DEF NodeWrites
  <2> QED  BY <1>4, <2>1, VirtualWrites
<1>5. CASE NodeReconnects
  <2>1. /\ conns' = conns /\ UNCHANGED <<issued, gateway>>
        /\ client' \in {FALSE, client} /\ faults' = faults
        /\ npc' # "off" /\ npc' # "delaying"
    BY <1>5 DEF NodeReconnects
  <2>2. faults' \in Nat /\ faults <= faults' /\ faults' <= MaxFaults
    BY <2>1 DEF UplinkFacts
  <2> QED  BY <2>1, <2>2, QuietKind DEF Kinds
<1>6. CASE FailureInjected \/ StopAll
  <2>1. Cancelled
    BY <1>6 DEF FailureInjected, StopAll
  <2> QED  BY <2>1, CancelledKind DEF Kinds
<1>7. CASE MeasurementEnds
  <2>1. CASE Cancelled
    BY <2>1, CancelledKind DEF Kinds
  <2>2. CASE UNCHANGED <<npc, uplink>>
    BY <2>2, QuietStep DEF Kinds
  <2> QED  BY <1>7, <2>1, <2>2 DEF MeasurementEnds
<1>8. CASE NodeRecovers
  <2>1. /\ Boot < MaxIncarnations /\ issued' = Append(issued, 0)
        /\ npc' = "connecting" /\ UNCHANGED <<conns, gateway>>
        /\ UNCHANGED <<client, faults>>
    BY <1>8 DEF NodeRecovers
  <2>2. Restarts
    BY <2>1 DEF Restarts
  <2>3. Frame
    BY <2>1 DEF UplinkFacts, Frame
  <2> QED  BY <2>1, <2>2, <2>3 DEF Kinds
<1> QED
  BY <1>1, <1>2, <1>3, <1>4, <1>5, <1>6, <1>7, <1>8
  DEF VirtualStep, NodeStep, SimulatorStep

\* Every step is of one of the kinds, and a node stays what it is.
LEMMA StepKinds ==
    ASSUME UplinkTypeOK, NodeInv, [Next]_vars
    PROVE  Frame /\ Kinds /\ (Physical' <=> Physical) /\ (Physical' <=> npc' = "off")
<1>1. UplinkFacts
  BY UplinkFactsHold
<1>2. /\ Physical <=> npc = "off"
      /\ npc = "delaying" => Sequence > 0
  BY DEF NodeInv
<1>3. CASE UplinkStep /\ UNCHANGED <<firmware, vnode>>
  <2>1. fpc' = fpc /\ npc' = npc
    BY <1>3 DEF firmware, vnode
  <2>2. Frame /\ Kinds
    BY <1>1, <1>3, <2>1, UplinkKinds
  <2> QED  BY <1>2, <2>1, <2>2 DEF Physical, Off
<1>4. CASE Physical /\ FirmwareStep /\ UNCHANGED vnode
  <2>1. npc' = npc /\ npc = "off"
    BY <1>2, <1>4 DEF vnode
  <2>2. Frame /\ Kinds /\ Physical'
    BY <1>1, <1>4, <2>1, FirmwareKinds
  <2> QED  BY <1>4, <2>1, <2>2
<1>5. CASE ~Physical /\ VirtualStep /\ UNCHANGED firmware
  <2>1. fpc' = fpc
    BY <1>5 DEF firmware
  <2>2. Frame /\ Kinds /\ npc' # "off"
    BY <1>1, <1>2, <1>5, VirtualKinds
  <2>3. ~Physical'
    BY <1>5, <2>1 DEF Physical, Off
  <2> QED  BY <1>5, <2>2, <2>3
<1>6. CASE UNCHANGED vars
  <2>1. fpc' = fpc /\ npc' = npc /\ UNCHANGED uplink
    BY <1>6 DEF vars, firmware, vnode
  <2>2. Frame /\ Idles
    BY <1>1, <2>1, QuietStep
  <2> QED  BY <1>2, <2>1, <2>2 DEF Kinds, Physical, Off
<1> QED  BY <1>3, <1>4, <1>5, <1>6 DEF Next

-----------------------------------------------------------------------------
(* The numbers that were used                                               *)

LEMMA NextFacts ==
    ASSUME NEW iss \in Seq(Nat), Len(iss) > 0
    PROVE  LET new == [iss EXCEPT ![Len(iss)] = @ + 1]
           IN  /\ new \in Seq(Nat) /\ Len(new) = Len(iss)
               /\ new[Len(iss)] = iss[Len(iss)] + 1
               /\ \A b \in 1 .. Len(iss) : b # Len(iss) => new[b] = iss[b]
<1>1. Len(iss) \in 1 .. Len(iss) /\ iss[Len(iss)] \in Nat
  OBVIOUS
<1> QED  BY <1>1, ExceptSeq

LEMMA RestartFacts ==
    ASSUME NEW iss \in Seq(Nat)
    PROVE  LET new == Append(iss, 0)
           IN  /\ new \in Seq(Nat) /\ Len(new) = Len(iss) + 1
               /\ new[Len(iss) + 1] = 0
               /\ \A b \in 1 .. Len(iss) : new[b] = iss[b]
BY AppendProperties

\* What a step does to the counters.
Issuing ==
    /\ issued' \in Seq(Nat) /\ Boot' \in Nat
    /\ \/ issued' = issued /\ Boot' = Boot
       \/ /\ Boot' = Boot /\ Sequence < MaxSequence
          /\ issued'[Boot] = issued[Boot] + 1
          /\ \A b \in 1 .. Boot : b # Boot => issued'[b] = issued[b]
       \/ /\ Boot' = Boot + 1 /\ Boot < MaxIncarnations
          /\ issued'[Boot + 1] = 0
          /\ \A b \in 1 .. Boot : issued'[b] = issued[b]

LEMMA IssuingHolds ==
    ASSUME UplinkFacts, Kinds
    PROVE  Issuing
<1>1. CASE issued' = issued
  BY <1>1 DEF UplinkFacts, Issuing, Boot
<1>2. CASE issued' = NextSequence /\ Sequence < MaxSequence
  <2>1. /\ issued' \in Seq(Nat) /\ Len(issued') = Len(issued)
        /\ issued'[Len(issued)] = issued[Len(issued)] + 1
        /\ \A b \in 1 .. Len(issued) : b # Len(issued) => issued'[b] = issued[b]
    BY <1>2, NextFacts DEF UplinkFacts, NextSequence, Boot
  <2> QED  BY <1>2, <2>1 DEF Issuing, Boot, UplinkFacts
<1>3. CASE issued' = Append(issued, 0) /\ Boot < MaxIncarnations
  <2>1. /\ issued' \in Seq(Nat) /\ Len(issued') = Len(issued) + 1
        /\ issued'[Len(issued) + 1] = 0
        /\ \A b \in 1 .. Len(issued) : issued'[b] = issued[b]
    BY <1>3, RestartFacts DEF UplinkFacts
  <2> QED  BY <1>3, <2>1 DEF Issuing, Boot, UplinkFacts
<1>4. \/ issued' = issued
      \/ issued' = NextSequence /\ Sequence < MaxSequence
      \/ issued' = Append(issued, 0) /\ Boot < MaxIncarnations
  BY DEF Kinds, Idles, Uses, Restarts, Sends, SendsLine, Reads, ReadLine
<1> QED  BY <1>1, <1>2, <1>3, <1>4

\* Counters never go back, and stay in their bound.
LEMMA IssuingFacts ==
    ASSUME UplinkFacts, Issuing, \A b \in 1 .. Boot : issued[b] \in 0 .. MaxSequence
    PROVE  /\ Boot <= Boot' /\ Boot' <= MaxIncarnations
           /\ \A b \in 1 .. Boot : issued[b] <= issued'[b]
           /\ \A b \in 1 .. Boot' : issued'[b] \in 0 .. MaxSequence
<1>1. /\ Boot \in Nat /\ Boot > 0 /\ Boot <= MaxIncarnations /\ Boot' \in Nat
      /\ MaxSequence \in Nat /\ MaxIncarnations \in Nat
  BY DEF UplinkFacts, Issuing
<1>2. CASE issued' = issued /\ Boot' = Boot
  BY <1>1, <1>2
<1>3. CASE /\ Boot' = Boot /\ Sequence < MaxSequence
           /\ issued'[Boot] = issued[Boot] + 1
           /\ \A b \in 1 .. Boot : b # Boot => issued'[b] = issued[b]
  <2>1. issued[Boot] \in 0 .. MaxSequence /\ issued[Boot] < MaxSequence
    BY <1>1, <1>3 DEF Sequence
  <2> QED  BY <1>1, <1>3, <2>1
<1>4. CASE /\ Boot' = Boot + 1 /\ Boot < MaxIncarnations
           /\ issued'[Boot + 1] = 0
           /\ \A b \in 1 .. Boot : issued'[b] = issued[b]
  BY <1>1, <1>4
<1> QED  BY <1>2, <1>3, <1>4 DEF Issuing

\* The unread numbers.
LEMMA UnreadElement ==
    ASSUME NEW cs \in Seq(Connection), NEW c \in 1 .. Len(cs),
           NEW i \in 1 .. Len(cs[c].lines)
    PROVE  <<cs[c].lines[i].boot, cs[c].lines[i].sequence>> \in Unread(cs)
<1>1. c \in DOMAIN cs /\ i \in DOMAIN cs[c].lines
  BY ConnectionFacts
<1> QED  BY <1>1 DEF Unread

LEMMA UnreadPick ==
    ASSUME NEW cs \in Seq(Connection), NEW p \in Unread(cs)
    PROVE  \E c \in 1 .. Len(cs) : \E i \in 1 .. Len(cs[c].lines) :
              p = <<cs[c].lines[i].boot, cs[c].lines[i].sequence>>
<1>1. PICK c \in DOMAIN cs :
         p \in {<<cs[c].lines[i].boot, cs[c].lines[i].sequence>> :
                  i \in DOMAIN cs[c].lines}
  BY DEF Unread
<1>2. PICK i \in DOMAIN cs[c].lines :
         p = <<cs[c].lines[i].boot, cs[c].lines[i].sequence>>
  BY <1>1
<1>3. c \in 1 .. Len(cs) /\ i \in 1 .. Len(cs[c].lines)
  BY ConnectionFacts
<1> QED  BY <1>2, <1>3

\* Where a line that is left was before.
Moved(new, old, k) ==
    \A i \in 1 .. Len(new) : i + k \in 1 .. Len(old) /\ new[i] = old[i + k]

LEMMA ShrunkPlaces ==
    ASSUME NEW old \in Seq(Connection), NEW new, Shrunk(new, old),
           NEW c \in 1 .. Len(new), Len(new[c].lines) > 0
    PROVE  /\ c \in 1 .. Len(old)
           /\ \E k \in Nat : Moved(new[c].lines, old[c].lines, k)
<1>1. new \in Seq(Connection)
  BY DEF Shrunk
<1>2. c \in 1 .. Len(old)
  <2> SUFFICES ASSUME c \notin DOMAIN old  PROVE FALSE
    BY ConnectionFacts
  <2>1. new[c].lines = << >>
    BY <1>1, ConnectionFacts DEF Shrunk
  <2> QED  BY <2>1
<1>3. Part(new[c].lines, old[c].lines)
  BY <1>2, ConnectionFacts DEF Shrunk
<1>4. Len(new[c].lines) \in Nat /\ Len(old[c].lines) \in Nat
  BY <1>1, <1>2, ConnectionFacts
<1>5. PICK k \in Nat : /\ Len(new[c].lines) + k <= Len(old[c].lines)
                       /\ \A i \in 1 .. Len(new[c].lines) :
                             new[c].lines[i] = old[c].lines[i + k]
  BY <1>3 DEF Part
<1>6. \A i \in 1 .. Len(new[c].lines) : i + k \in 1 .. Len(old[c].lines)
  BY <1>4, <1>5
<1>7. Moved(new[c].lines, old[c].lines, k)
  BY <1>5, <1>6 DEF Moved
<1> QED  BY <1>2, <1>7

LEMMA UnreadShrunk ==
    ASSUME NEW old \in Seq(Connection), NEW new, Shrunk(new, old)
    PROVE  Unread(new) \subseteq Unread(old)
<1> SUFFICES ASSUME NEW p \in Unread(new)  PROVE p \in Unread(old)
  OBVIOUS
<1>1. new \in Seq(Connection)
  BY DEF Shrunk
<1>0. PICK c \in 1 .. Len(new) : \E i \in 1 .. Len(new[c].lines) :
         p = <<new[c].lines[i].boot, new[c].lines[i].sequence>>
  BY <1>1, UnreadPick
<1>2. PICK i \in 1 .. Len(new[c].lines) :
         p = <<new[c].lines[i].boot, new[c].lines[i].sequence>>
  BY <1>0
<1>3. Len(new[c].lines) > 0
  BY <1>1, ConnectionFacts
<1>4. c \in 1 .. Len(old)
  BY <1>3, ShrunkPlaces
<1>5. PICK k \in Nat : Moved(new[c].lines, old[c].lines, k)
  BY <1>3, ShrunkPlaces
<1>6. i + k \in 1 .. Len(old[c].lines) /\ new[c].lines[i] = old[c].lines[i + k]
  BY <1>5 DEF Moved
<1> QED  BY <1>2, <1>4, <1>6, UnreadElement

LEMMA AppendedPlaces ==
    ASSUME NEW old \in Seq(Connection), NEW new, NEW l, Appended(new, old, l),
           NEW c \in 1 .. Len(new), NEW i \in 1 .. Len(new[c].lines)
    PROVE  /\ c \in 1 .. Len(old)
           /\ \/ i \in 1 .. Len(old[c].lines) /\ new[c].lines[i] = old[c].lines[i]
              \/ /\ c = Len(old) /\ i = Len(old[c].lines) + 1
                 /\ new[c].lines[i] = l
<1>1. /\ Len(new) = Len(old) /\ Len(old) > 0 /\ l \in LineType
      /\ new[Len(old)].lines = Append(old[Len(old)].lines, l)
      /\ \A d \in 1 .. Len(old) - 1 : new[d].lines = old[d].lines
  BY DEF Appended
<1>2. c \in 1 .. Len(old) /\ old[c].lines \in Seq(LineType) /\ Len(old) \in Nat
  BY <1>1, ConnectionFacts
<1>3. CASE c = Len(old)
  <2>1. PICK x : x = old[c].lines
    OBVIOUS
  <2>2. x \in Seq(LineType) /\ new[c].lines = Append(x, l)
    BY <1>1, <1>2, <1>3, <2>1
  <2>3. /\ Len(x) \in Nat /\ Len(Append(x, l)) = Len(x) + 1
        /\ Append(x, l)[Len(x) + 1] = l
        /\ \A j \in 1 .. Len(x) : Append(x, l)[j] = x[j]
    BY ONLY <1>1, <2>2, AppendProperties
  <2>4. PICK y : y = Append(x, l)
    OBVIOUS
  <2>5. i \in 1 .. Len(x) + 1
    BY <2>2, <2>3
  <2>6. \/ i \in 1 .. Len(x) /\ y[i] = x[i]
        \/ i = Len(x) + 1 /\ y[i] = l
    BY ONLY <2>3, <2>4, <2>5
  <2> QED  BY <1>2, <1>3, <2>1, <2>2, <2>4, <2>6
<1>4. CASE c # Len(old)
  BY <1>1, <1>2, <1>4
<1> QED  BY <1>2, <1>3, <1>4

LEMMA UnreadAppended ==
    ASSUME NEW old \in Seq(Connection), NEW new, NEW l, Appended(new, old, l)
    PROVE  Unread(new) \subseteq Unread(old) \cup {<<l.boot, l.sequence>>}
<1> SUFFICES ASSUME NEW p \in Unread(new)
             PROVE  p \in Unread(old) \cup {<<l.boot, l.sequence>>}
  OBVIOUS
<1>1. new \in Seq(Connection)
  BY DEF Appended
<1>0. PICK c \in 1 .. Len(new) : \E i \in 1 .. Len(new[c].lines) :
         p = <<new[c].lines[i].boot, new[c].lines[i].sequence>>
  BY <1>1, UnreadPick
<1>2. PICK i \in 1 .. Len(new[c].lines) :
         p = <<new[c].lines[i].boot, new[c].lines[i].sequence>>
  BY <1>0
<1>3. /\ c \in 1 .. Len(old)
      /\ \/ i \in 1 .. Len(old[c].lines) /\ new[c].lines[i] = old[c].lines[i]
         \/ new[c].lines[i] = l
  BY <1>2, AppendedPlaces
<1> QED  BY <1>2, <1>3, UnreadElement

\* The line that is read.
LEMMA ReadFacts ==
    ASSUME UplinkFacts, NEW c \in DOMAIN conns, ReadLine(c)
    PROVE  /\ c \in 1 .. Len(conns) /\ 1 \in 1 .. Len(conns[c].lines)
           /\ conns[c].lines[1] \in LineType
           /\ Head(conns[c].lines) = conns[c].lines[1]
           /\ conns' \in Seq(Connection) /\ Len(conns') = Len(conns)
           /\ Shrunk(conns', conns)
           /\ \A d \in 1 .. Len(conns') : \A i \in 1 .. Len(conns'[d].lines) :
                 \E j \in 1 .. Len(conns[d].lines) :
                    conns'[d].lines[i] = conns[d].lines[j] /\ (d = c => j > 1)
<1>1. /\ c \in 1 .. Len(conns) /\ conns[c] \in Connection
      /\ conns[c].lines \in Seq(LineType) /\ Len(conns[c].lines) \in Nat
  BY ConnectionFacts DEF UplinkFacts
<1>2. /\ conns[c].lines # << >>
      /\ conns' = [conns EXCEPT ![c] = [conns[c] EXCEPT !.lines = Tail(@)]]
  BY DEF ReadLine
<1>3. PICK x : x = conns[c].lines
  OBVIOUS
<1>4. /\ Head(x) = x[1] /\ Tail(x) \in Seq(LineType) /\ Len(Tail(x)) = Len(x) - 1
      /\ \A i \in 1 .. Len(Tail(x)) : Tail(x)[i] = x[i + 1]
      /\ Len(x) \in Nat /\ Len(x) > 0
  BY <1>1, <1>2, <1>3, HeadTailProperties, EmptySeq
<1>5. PICK new : new = [conns[c] EXCEPT !.lines = Tail(@)]
  OBVIOUS
<1>6. new \in Connection /\ new.lines = Tail(x)
  BY <1>1, <1>3, <1>4, <1>5 DEF Connection
<1>7. /\ conns' \in Seq(Connection) /\ Len(conns') = Len(conns)
      /\ conns'[c] = new /\ \A d \in DOMAIN conns : d # c => conns'[d] = conns[d]
  BY <1>2, <1>5, <1>6, ReplaceConnection DEF UplinkFacts
<1>8. Part(Tail(x), x)
  <2>1. /\ 1 \in Nat /\ Len(Tail(x)) + 1 <= Len(x)
        /\ \A i \in 1 .. Len(Tail(x)) : Tail(x)[i] = x[i + 1]
    BY <1>4
  <2> QED  BY <2>1 DEF Part
<1>9. Shrunk(conns', conns)
  <2>1. conns \in Seq(Connection) /\ conns' = [conns EXCEPT ![c] = new]
    BY <1>2, <1>5 DEF UplinkFacts
  <2>2. Part(new.lines, conns[c].lines)
    BY <1>3, <1>6, <1>8
  <2> QED  BY ONLY <1>6, <2>1, <2>2, ShrunkOne, c \in DOMAIN conns
<1>10. ASSUME NEW d \in 1 .. Len(conns'), NEW i \in 1 .. Len(conns'[d].lines)
       PROVE  \E j \in 1 .. Len(conns[d].lines) :
                 conns'[d].lines[i] = conns[d].lines[j] /\ (d = c => j > 1)
  <2>1. CASE d = c
    <3>1. conns'[d].lines = Tail(x) /\ conns[d].lines = x
      BY <1>3, <1>6, <1>7, <2>1
    <3>2. i \in 1 .. Len(Tail(x))
      BY <3>1
    <3>3. i + 1 \in 1 .. Len(x) /\ Tail(x)[i] = x[i + 1] /\ i + 1 > 1
      BY <1>4, <3>2
    <3> QED  BY <3>1, <3>3
  <2>2. CASE d # c
    <3>1. conns'[d] = conns[d]
      BY <1>7, <2>2, ConnectionFacts DEF UplinkFacts
    <3> QED  BY <2>2, <3>1
  <2> QED  BY <2>1, <2>2
<1>11. conns[c].lines[1] \in LineType /\ 1 \in 1 .. Len(conns[c].lines)
  BY <1>1, <1>3, <1>4
<1> QED  BY <1>1, <1>3, <1>4, <1>7, <1>9, <1>10, <1>11

\* Once a number may be written twice, that stays so.
LEMMA StrictFacts ==
    ASSUME UplinkFacts, Frame, Physical' <=> Physical
    PROVE  Strict' => Strict
BY DEF UplinkFacts, Frame, Strict

\* A number that may have been written is still such after a step.
LEMMA WrittenKept ==
    ASSUME UplinkFacts, Issuing, Strict' => Strict,
           \/ issued' = issued /\ (npc' = "delaying" => npc = "delaying")
           \/ npc' # "delaying"
           \/ Strict /\ Boot' = Boot /\ issued'[Boot] = issued[Boot] + 1,
           NEW b, NEW s, Written(issued, npc, Strict, b, s)
    PROVE  Written(issued', npc', Strict', b, s)
<1>1. /\ Boot \in Nat /\ Boot > 0 /\ Boot' \in Nat
      /\ issued \in Seq(Nat) /\ issued' \in Seq(Nat)
  BY DEF UplinkFacts, Issuing
<1>2. /\ b \in 1 .. Boot /\ s \in 0 .. issued[b]
      /\ Strict => s < issued[b]
      /\ npc = "delaying" /\ b = Boot => s < issued[b] - 1
  BY DEF Written, Boot
<1>3. /\ \A d \in 1 .. Boot : issued[d] \in Nat
      /\ \A d \in 1 .. Boot' : issued'[d] \in Nat
  <2>1. Boot = Len(issued) /\ Boot' = Len(issued')
    BY DEF Boot
  <2>2. \A iss \in Seq(Nat) : \A d \in 1 .. Len(iss) : iss[d] \in Nat
    BY ElementOfSeq
  <2> QED  BY <1>1, <2>1, <2>2
<1>4. /\ b \in 1 .. Boot' /\ s \in 0 .. issued'[b]
      /\ Strict' => s < issued'[b]
  <2>1. b \in 1 .. Boot' /\ issued[b] <= issued'[b]
    <3>1. Boot <= Boot'
      BY <1>1 DEF Issuing
    <3>2. issued'[b] = issued[b] \/ issued'[b] = issued[b] + 1
      BY <1>1, <1>2 DEF Issuing
    <3> QED  BY <1>1, <1>2, <1>3, <3>1, <3>2
  <2>2. issued[b] \in Nat /\ issued'[b] \in Nat
    BY <1>2, <1>3, <2>1
  <2> QED  BY <1>2, <2>1, <2>2
<1>5. ASSUME npc' = "delaying", b = Boot'  PROVE s < issued'[b] - 1
  <2>1. CASE issued' = issued /\ npc = "delaying"
    <3>1. Boot' = Boot
      BY <2>1 DEF Boot
    <3> QED  BY <1>2, <1>5, <2>1, <3>1
  <2>2. CASE Strict /\ Boot' = Boot /\ issued'[Boot] = issued[Boot] + 1
    <3>1. s < issued[Boot] /\ issued[Boot] \in Nat /\ s \in Int
      BY <1>1, <1>2, <1>3, <1>5, <2>2
    <3> QED  BY <1>5, <2>2, <3>1
  <2> QED  BY <1>5, <2>1, <2>2
<1> QED  BY <1>4, <1>5 DEF Written, Boot

\* The step writes the number (b, s).
LEMMA WrittenNow ==
    ASSUME UplinkFacts, Issuing, NEW l, SendsLine(l), npc = "delaying" => Sequence > 0
    PROVE  Written(issued', npc', Strict', l.boot, l.sequence)
<1>1. /\ Boot \in Nat /\ Boot > 0 /\ Boot' = Boot /\ l.boot = Boot
      /\ Sequence = issued[Boot] /\ Sequence \in Nat /\ npc' # "delaying"
  <2>1. Boot' = Boot
    BY NextFacts DEF SendsLine, UplinkFacts, NextSequence, Boot
  <2> QED  BY <2>1 DEF UplinkFacts, SendsLine, Sequence
<1>2. CASE l.sequence = Sequence /\ issued' = NextSequence
  <2>1. issued'[Boot] = issued[Boot] + 1
    BY <1>2, NextFacts DEF UplinkFacts, NextSequence, Boot
  <2> QED  BY <1>1, <1>2, <2>1 DEF Written, Boot
<1>3. CASE l.sequence = Sequence /\ issued' = issued /\ Physical' /\ faults' > 0
  <2>1. ~Strict'
    BY <1>3 DEF Strict, SendsLine
  <2> QED  BY <1>1, <1>3, <2>1 DEF Written, Boot
<1>4. CASE l.sequence = Sequence - 1 /\ issued' = issued /\ npc = "delaying"
  BY <1>1, <1>4 DEF Written, Boot
<1> QED  BY <1>2, <1>3, <1>4 DEF SendsLine

\* A step from a state of the right types.
Stepping ==
    /\ UplinkFacts /\ Frame /\ Kinds /\ Issuing
    /\ Physical' <=> Physical
    /\ Physical' <=> npc' = "off"
    /\ Strict' => Strict
    /\ npc = "delaying" => Sequence > 0

LEMMA SteppingHolds == UplinkTypeOK /\ NodeInv /\ [Next]_vars => Stepping
<1> SUFFICES ASSUME UplinkTypeOK, NodeInv, [Next]_vars  PROVE Stepping
  OBVIOUS
<1>1. Frame /\ Kinds /\ (Physical' <=> Physical) /\ (Physical' <=> npc' = "off")
  BY StepKinds
<1>2. UplinkFacts
  BY UplinkFactsHold
<1>3. Issuing
  BY <1>1, <1>2, IssuingHolds
<1>4. Strict' => Strict
  BY <1>1, <1>2, StrictFacts
<1>5. npc = "delaying" => Sequence > 0
  BY DEF NodeInv
<1> QED  BY <1>1, <1>2, <1>3, <1>4, <1>5 DEF Stepping

LEMMA WrittenStep ==
    ASSUME Stepping, WrittenInv
    PROVE  WrittenInv'
<1>1. /\ UplinkFacts /\ Issuing /\ (Strict' => Strict)
      /\ npc = "delaying" => Sequence > 0
      /\ conns \in Seq(Connection)
  BY DEF Stepping, UplinkFacts
<1>2. \/ issued' = issued /\ (npc' = "delaying" => npc = "delaying")
      \/ npc' # "delaying"
      \/ Strict /\ Boot' = Boot /\ issued'[Boot] = issued[Boot] + 1
  <2>1. CASE Uses
    <3>1. Boot' = Boot /\ issued'[Boot] = issued[Boot] + 1
      BY <2>1, <1>1, NextFacts DEF Uses, NextSequence, Boot, UplinkFacts
    <3>2. npc' = "delaying" => Strict
      BY DEF Stepping, Strict
    <3> QED  BY <3>1, <3>2
  <2>2. CASE ~Uses
    BY <2>2 DEF Stepping, Kinds, Idles, Restarts, Sends, SendsLine, Reads, ReadLine
  <2> QED  BY <2>1, <2>2
<1>3. ASSUME NEW p \in delivered \cup Unread(conns)
      PROVE  Written(issued', npc', Strict', p[1], p[2])
  <2>1. Written(issued, npc, Strict, p[1], p[2])
    BY DEF WrittenInv
  <2> QED  BY <1>1, <1>2, <2>1, WrittenKept
<1>4. CASE Reads
  <2>1. PICK c \in DOMAIN conns : ReadLine(c)
    BY <1>4 DEF Reads
  <2>2. /\ c \in 1 .. Len(conns) /\ 1 \in 1 .. Len(conns[c].lines)
        /\ Head(conns[c].lines) = conns[c].lines[1] /\ Shrunk(conns', conns)
    BY <1>1, <2>1, ReadFacts
  <2>3. delivered' = delivered \cup {<<conns[c].lines[1].boot, conns[c].lines[1].sequence>>}
    BY <2>1, <2>2 DEF ReadLine
  <2>4. <<conns[c].lines[1].boot, conns[c].lines[1].sequence>> \in Unread(conns)
    BY <1>1, <2>2, UnreadElement
  <2>5. Unread(conns') \subseteq Unread(conns)
    BY <1>1, <2>2, UnreadShrunk
  <2>6. delivered' \cup Unread(conns') \subseteq delivered \cup Unread(conns)
    BY <2>3, <2>4, <2>5
  <2> QED  BY <1>3, <2>6 DEF WrittenInv
<1>5. CASE Sends
  <2>1. PICK l : SendsLine(l)
    BY <1>5 DEF Sends
  <2>2. Unread(conns') \subseteq Unread(conns) \cup {<<l.boot, l.sequence>>}
    BY <1>1, <2>1, UnreadAppended DEF SendsLine
  <2>3. delivered' = delivered
    BY <2>1 DEF SendsLine, gateway
  <2>4. Written(issued', npc', Strict', l.boot, l.sequence)
    BY <1>1, <2>1, WrittenNow
  <2>5. ASSUME NEW p \in delivered' \cup Unread(conns')
        PROVE  Written(issued', npc', Strict', p[1], p[2])
    <3>1. CASE p \in delivered \cup Unread(conns)
      BY <1>3, <3>1
    <3>2. CASE p = <<l.boot, l.sequence>>
      <4>1. p[1] = l.boot /\ p[2] = l.sequence
        BY <3>2
      <4> QED  BY <2>4, <4>1
    <3> QED  BY <2>2, <2>3, <3>1, <3>2
  <2> QED  BY <2>5 DEF WrittenInv
<1>6. CASE Idles \/ Uses \/ Restarts
  <2>1. delivered' = delivered
    BY <1>6 DEF Idles, Uses, Restarts, gateway
  <2>2. Shrunk(conns', conns)
    BY <1>1, <1>6, ShrunkSame DEF Idles, Uses, Restarts
  <2>3. delivered' \cup Unread(conns') \subseteq delivered \cup Unread(conns)
    BY <1>1, <2>1, <2>2, UnreadShrunk
  <2> QED  BY <1>3, <2>3 DEF WrittenInv
<1> QED  BY <1>4, <1>5, <1>6 DEF Stepping, Kinds

-----------------------------------------------------------------------------
(* What the registry makes of a number                                      *)

LEMMA StatusCases ==
    ASSUME NEW r \in Registry!NodeRecord, NEW seq \in Nat
    PROVE  LET status == Registry!SequenceStatus(r, seq)
               last == r.lastSequence
           IN  /\ ~Registry!Known(r) => status = "FIRST"
               /\ Registry!Known(r) /\ seq = last => status = "DUPLICATE"
               /\ Registry!Known(r) /\ seq = last + 1 => status = "IN_ORDER"
               /\ Registry!Known(r) /\ seq > last + 1 => status = "GAP"
               /\ Registry!Known(r) /\ seq < last /\ seq = 0 => status = "RESET"
               /\ Registry!Known(r) /\ seq < last /\ seq # 0 => status = "OUT_OF_ORDER"
BY DEF Registry!SequenceStatus, Registry!Known, Registry!NodeRecord

LEMMA RecordFields ==
    ASSUME NEW r \in Registry!NodeRecord
    PROVE  /\ r.messagesReceived \in Nat /\ r.lastSequence \in Nat
           /\ r.estimatedMissing \in Nat /\ r.sequenceResets \in Nat
           /\ r.duplicates \in Nat /\ r.outOfOrder \in Nat
BY DEF Registry!NodeRecord

LEMMA RecordAssignment ==
    ASSUME NEW r \in Registry!NodeRecord, NEW n \in Nat
    PROVE  /\ [r EXCEPT !.messagesReceived = n] \in Registry!NodeRecord
           /\ [r EXCEPT !.lastSequence = n] \in Registry!NodeRecord
           /\ [r EXCEPT !.estimatedMissing = n] \in Registry!NodeRecord
           /\ [r EXCEPT !.duplicates = n] \in Registry!NodeRecord
           /\ [r EXCEPT !.outOfOrder = n] \in Registry!NodeRecord
           /\ [r EXCEPT !.sequenceResets = n] \in Registry!NodeRecord
BY DEF Registry!NodeRecord

\* The sequence fields after an observation.
LEMMA ObserveResult ==
    ASSUME NEW r \in Registry!NodeRecord, NEW seq \in Nat
    PROVE  LET o == Registry!Observe(r, seq, 0)
               status == Registry!SequenceStatus(r, seq)
           IN  /\ o \in Registry!NodeRecord
               /\ o.messagesReceived = r.messagesReceived + 1
               /\ o.lastSequence = IF status \in {"DUPLICATE", "OUT_OF_ORDER"}
                                   THEN r.lastSequence ELSE seq
               /\ o.estimatedMissing = IF status = "GAP"
                                       THEN r.estimatedMissing + (seq - r.lastSequence - 1)
                                       ELSE r.estimatedMissing
               /\ o.sequenceResets = IF status = "RESET" THEN r.sequenceResets + 1
                                                         ELSE r.sequenceResets
<1> DEFINE status == Registry!SequenceStatus(r, seq)
           a == IF status \in {"DUPLICATE", "OUT_OF_ORDER"} THEN r.lastSequence ELSE seq
           b == IF status = "GAP" THEN r.estimatedMissing + Registry!Missing(r, seq)
                                  ELSE r.estimatedMissing
           c == r.duplicates + Registry!Count(status = "DUPLICATE")
           d == r.outOfOrder + Registry!Count(status = "OUT_OF_ORDER")
           e == r.sequenceResets + Registry!Count(status = "RESET")
           m == r.messagesReceived + 1
           k == [r EXCEPT !.lastSequence = a, !.estimatedMissing = b,
                          !.duplicates = c, !.outOfOrder = d, !.sequenceResets = e]
<1>1. /\ status = "GAP" => Registry!Missing(r, seq) \in Nat
      /\ Registry!Missing(r, seq) = seq - r.lastSequence - 1
  BY DEF Registry!SequenceStatus, Registry!Known, Registry!NodeRecord, Registry!Missing
<1>2. a \in Nat /\ b \in Nat /\ c \in Nat /\ d \in Nat /\ e \in Nat /\ m \in Nat
  BY <1>1, RecordFields DEF Registry!Count
<1>3. Registry!ClassifySequence(r, seq) = k
  BY DEF Registry!ClassifySequence, Registry!NodeRecord
<1>4. e = IF status = "RESET" THEN r.sequenceResets + 1 ELSE r.sequenceResets
  BY RecordFields DEF Registry!Count
<1> HIDE DEF a, b, c, d, e
<1>5. k \in Registry!NodeRecord
  BY <1>2, RecordAssignment
<1>6. /\ k.lastSequence = a /\ k.estimatedMissing = b /\ k.sequenceResets = e
      /\ k.messagesReceived = r.messagesReceived
  BY DEF Registry!NodeRecord
<1> HIDE DEF k, m
<1>7. Registry!Observe(r, seq, 0) =
         [k EXCEPT !.messagesReceived = @ + 1, !.lastSeen = 0, !.health = "ONLINE"]
  BY <1>3, Zenon DEF Registry!Observe
<1>9. k.messagesReceived + 1 = m
  BY <1>6 DEF m
<1>8. /\ Registry!Observe(r, seq, 0) \in Registry!NodeRecord
      /\ Registry!Observe(r, seq, 0).messagesReceived = m
      /\ Registry!Observe(r, seq, 0).lastSequence = a
      /\ Registry!Observe(r, seq, 0).estimatedMissing = b
      /\ Registry!Observe(r, seq, 0).sequenceResets = e
  <2>1. PICK n : n = k.messagesReceived + 1
    OBVIOUS
  <2>2. n = m /\ n \in Nat
    BY <1>2, <1>9, <2>1
  <2>3. Registry!Observe(r, seq, 0) =
           [k EXCEPT !.messagesReceived = n, !.lastSeen = 0, !.health = "ONLINE"]
    BY <1>7, <2>1
  <2>4. [k EXCEPT !.messagesReceived = n, !.lastSeen = 0, !.health = "ONLINE"]
           \in Registry!NodeRecord
    BY <1>5, <2>2 DEF Registry!NodeRecord, Registry!HealthStatus
  <2>5. LET o == [k EXCEPT !.messagesReceived = n, !.lastSeen = 0, !.health = "ONLINE"]
        IN  /\ o.messagesReceived = n /\ o.lastSequence = k.lastSequence
            /\ o.estimatedMissing = k.estimatedMissing
            /\ o.sequenceResets = k.sequenceResets
    BY <1>5 DEF Registry!NodeRecord
  <2> QED  BY <1>6, <2>2, <2>3, <2>4, <2>5
<1> QED  BY <1>1, <1>4, <1>8 DEF a, b, m

-----------------------------------------------------------------------------
(* Types                                                                    *)

LEMMA ConnectionsTyped ==
    ASSUME Stepping
    PROVE  conns' \in Seq(Connection) /\ Len(conns') \in Nat /\ Len(conns) <= Len(conns')
<1>1. UplinkFacts /\ conns \in Seq(Connection) /\ Len(conns) \in Nat
  BY DEF Stepping, UplinkFacts
<1>2. CASE Idles
  BY <1>1, <1>2 DEF Idles, Shrunk
<1>3. CASE Uses \/ Restarts
  BY <1>1, <1>3 DEF Uses, Restarts
<1>4. CASE Sends
  BY <1>1, <1>4 DEF Sends, SendsLine, Appended
<1>5. CASE Reads
  <2>1. PICK c \in DOMAIN conns : ReadLine(c)
    BY <1>5 DEF Reads
  <2> QED  BY <1>1, <2>1, ReadFacts
<1> QED  BY <1>2, <1>3, <1>4, <1>5 DEF Stepping, Kinds

LEMMA IssuedTyped ==
    ASSUME Stepping, \A b \in 1 .. Boot : issued[b] \in 0 .. MaxSequence
    PROVE  /\ issued' \in Seq(0 .. MaxSequence)
           /\ Boot' \in 1 .. MaxIncarnations
<1>1. UplinkFacts /\ Issuing
  BY DEF Stepping
<1>2. /\ Boot <= Boot' /\ Boot' <= MaxIncarnations
      /\ \A b \in 1 .. Boot' : issued'[b] \in 0 .. MaxSequence
  BY <1>1, IssuingFacts
<1>3. issued' \in Seq(Nat) /\ Boot' \in Nat /\ Boot' = Len(issued')
  BY <1>1 DEF Issuing, Boot
<1>4. issued' \in [1 .. Len(issued') -> 0 .. MaxSequence]
  BY <1>2, <1>3
<1>5. issued' \in Seq(0 .. MaxSequence)
  <2>1. \A S : \A n \in Nat : \A f \in [1 .. n -> S] : f \in Seq(S)
    OBVIOUS
  <2>2. Len(issued') \in Nat
    BY <1>3
  <2> QED  BY ONLY <1>4, <2>1, <2>2, Zenon
<1>6. Boot' \in 1 .. MaxIncarnations
  BY <1>1, <1>2, <1>3 DEF UplinkFacts
<1> QED  BY <1>5, <1>6

\* The gateway's part of the state.
LEMMA GatewayTyped ==
    ASSUME Stepping, WrittenInv, newest \in 0 .. Len(conns),
           record \in Registry!NodeRecord, overtaken \in BOOLEAN,
           delivered \subseteq (1 .. MaxIncarnations) \X (0 .. MaxSequence),
           \A b \in 1 .. Boot : issued[b] \in 0 .. MaxSequence
    PROVE  /\ newest' \in 0 .. Len(conns')
           /\ record' \in Registry!NodeRecord /\ overtaken' \in BOOLEAN
           /\ delivered' \subseteq (1 .. MaxIncarnations) \X (0 .. MaxSequence)
<1>1. /\ UplinkFacts /\ conns \in Seq(Connection) /\ Len(conns) \in Nat
      /\ Boot \in Nat /\ Boot <= MaxIncarnations
      /\ MaxIncarnations \in Nat /\ MaxSequence \in Nat
  BY DEF Stepping, UplinkFacts
<1>2. CASE UNCHANGED gateway
  <2>1. newest' = newest /\ record' = record /\ overtaken' = overtaken
        /\ delivered' = delivered
    BY <1>2 DEF gateway
  <2>2. Len(conns') \in Nat /\ Len(conns) <= Len(conns')
    BY ConnectionsTyped
  <2>3. newest' \in 0 .. Len(conns')
    BY <1>1, <2>1, <2>2
  <2> QED  BY <2>1, <2>3
<1>3. CASE Reads
  <2>1. PICK c \in DOMAIN conns : ReadLine(c)
    BY <1>3 DEF Reads
  <2>2. /\ c \in 1 .. Len(conns) /\ 1 \in 1 .. Len(conns[c].lines)
        /\ conns[c].lines[1] \in LineType /\ Len(conns') = Len(conns)
        /\ Head(conns[c].lines) = conns[c].lines[1]
    BY <1>1, <2>1, ReadFacts
  <2>3. PICK l : l = conns[c].lines[1]
    OBVIOUS
  <2>4. /\ delivered' = delivered \cup {<<l.boot, l.sequence>>}
        /\ record' = Registry!Observe(record, l.sequence, 0)
        /\ newest' = IF c > newest THEN c ELSE newest
        /\ overtaken' = (overtaken \/ c < newest)
    BY <2>1, <2>2, <2>3 DEF ReadLine
  <2>5. l.sequence \in Nat
    BY <2>2, <2>3 DEF LineType
  <2>6. <<l.boot, l.sequence>> \in Unread(conns)
    BY <1>1, <2>2, <2>3, UnreadElement
  <2>7. Written(issued, npc, Strict, l.boot, l.sequence)
    BY <2>6 DEF WrittenInv
  <2>8. l.boot \in 1 .. Boot /\ l.sequence \in 0 .. issued[l.boot]
    BY <2>7 DEF Written, Boot
  <2>9. l.boot \in 1 .. MaxIncarnations /\ l.sequence \in 0 .. MaxSequence
    BY <1>1, <2>5, <2>8
  <2>10. record' \in Registry!NodeRecord
    BY <2>4, <2>5, ObserveResult
  <2>11. newest' \in 0 .. Len(conns')
    BY <1>1, <2>2, <2>4
  <2>12. overtaken' \in BOOLEAN
    BY <2>4
  <2> QED  BY <2>4, <2>9, <2>10, <2>11, <2>12
<1> QED  BY <1>2, <1>3 DEF Stepping, Kinds, Idles, Uses, Restarts, Sends, SendsLine

LEMMA UplinkTypeStep ==
    ASSUME Stepping, UplinkTypeOK, NodeInv, WrittenInv
    PROVE  UplinkTypeOK' /\ NodeInv'
<1>1. \A b \in 1 .. Boot : issued[b] \in 0 .. MaxSequence
  <2>1. issued \in Seq(0 .. MaxSequence) /\ Boot = Len(issued)
    BY DEF UplinkTypeOK, Boot
  <2> QED  BY ONLY <2>1, ElementOfSeq
<1>2. conns' \in Seq(Connection) /\ Len(conns') \in Nat
  BY ConnectionsTyped
<1>3. issued' \in Seq(0 .. MaxSequence) /\ Boot' \in 1 .. MaxIncarnations
  BY <1>1, IssuedTyped
<1>4. newest \in 0 .. Len(conns) /\ Len(conns) \in Nat
  BY DEF UplinkTypeOK, NodeInv, Newest, Stepping, UplinkFacts
<1>5. /\ newest' \in 0 .. Len(conns')
      /\ record' \in Registry!NodeRecord /\ overtaken' \in BOOLEAN
      /\ delivered' \subseteq (1 .. MaxIncarnations) \X (0 .. MaxSequence)
  BY <1>1, <1>4, GatewayTyped DEF UplinkTypeOK
<1>6. /\ Len(conns') <= MaxConnections /\ client' \in BOOLEAN
      /\ client' => Len(conns') > 0
      /\ faults' \in 0 .. MaxFaults /\ MaxConnections \in Nat
  BY DEF Stepping, Frame, UplinkFacts
<1>7. UplinkTypeOK'
  <2>1. conns' \in Seq([lines : Seq([boot : Nat, sequence : Nat, whole : BOOLEAN]),
                        up : BOOLEAN])
    BY <1>2 DEF Connection, LineType
  <2>2. newest' \in 0 .. MaxConnections
    BY <1>2, <1>5, <1>6
  <2> QED  BY <1>3, <1>5, <1>6, <2>1, <2>2 DEF UplinkTypeOK, Newest
<1>8. ASSUME npc' = "delaying"  PROVE Sequence' > 0
  <2>1. CASE UNCHANGED issued /\ npc = "delaying"
    BY <2>1 DEF NodeInv, Sequence, Boot
  <2>2. CASE Uses
    <3>1. Boot' = Boot /\ issued'[Boot] = issued[Boot] + 1 /\ issued[Boot] \in Nat
      BY <2>2, NextFacts DEF Uses, NextSequence, Boot, Sequence, UplinkFacts, Stepping
    <3> QED  BY <3>1 DEF Sequence
  <2> QED
    BY <1>8, <2>1, <2>2
    DEF Stepping, Kinds, Idles, Restarts, Sends, SendsLine, Reads, ReadLine
<1>9. NodeInv'
  BY <1>2, <1>5, <1>6, <1>8 DEF NodeInv, Stepping, Newest
<1> QED  BY <1>7, <1>9

\* Delays and backoffs stay between the configured limits, doubling included.
LEMMA BackoffFacts ==
    /\ \A x \in Initial .. Maximum : NextBackoff(x) \in Initial .. Maximum
    /\ \A b \in {0} \cup Initial .. Maximum : Delay(b) \in Initial .. Maximum
<1>1. Initial \in Nat \ {0} /\ Maximum \in Nat \ {0} /\ Maximum >= Initial
  BY FirmwareAssumption
<1>2. ASSUME NEW x \in Initial .. Maximum  PROVE NextBackoff(x) \in Initial .. Maximum
  <2>1. CASE x >= Maximum \/ x > Maximum \div 2
    <3>1. ~(x < Initial) /\ ~(x \in Initial .. (Maximum \div 2) /\ x < Maximum)
      BY <1>1, <2>1
    <3>2. NextBackoff(x) = Maximum
      BY <2>1, <3>1 DEF NextBackoff
    <3> QED  BY <1>1, <3>2
  <2>2. CASE ~(x >= Maximum \/ x > Maximum \div 2)
    <3>1. x \in Initial .. (Maximum \div 2) /\ x < Maximum /\ ~(x < Initial)
      BY <1>1, <2>2
    <3>2. NextBackoff(x) = x * 2
      BY <2>2, <3>1 DEF NextBackoff
    <3>3. x * 2 <= Maximum /\ x * 2 >= Initial /\ x * 2 \in Int
      BY <1>1, <3>1
    <3> QED  BY <1>1, <3>2, <3>3
  <2> QED  BY <2>1, <2>2
<1>3. \A b \in {0} \cup Initial .. Maximum : Delay(b) \in Initial .. Maximum
  BY <1>1 DEF Delay
<1> QED  BY <1>2, <1>3

Timers == [wifi : 0 .. Maximum, tcp : 0 .. Maximum,
           sensor : 0 .. SensorRetry, sample : 0 .. Interval]

LEMMA TimerFacts ==
    ASSUME NEW t \in Timers
    PROVE  /\ \A n \in 0 .. Maximum : /\ [t EXCEPT !.wifi = n] \in Timers
                                      /\ [t EXCEPT !.tcp = n] \in Timers
           /\ [t EXCEPT !.sensor = SensorRetry] \in Timers
           /\ [t EXCEPT !.sample = 0] \in Timers
           /\ [t EXCEPT !.sample = Interval] \in Timers
           /\ \A d \in Nat : Elapsed(t, d) \in Timers
           /\ t.tcp \in 0 .. Maximum
<1>1. Maximum \in Nat /\ SensorRetry \in Nat /\ Interval \in Nat
  BY FirmwareAssumption
<1>2. ASSUME NEW d \in Nat  PROVE Elapsed(t, d) \in Timers
  <2>1. \A m \in Nat : \A n \in 0 .. m : Remaining(n, d) \in 0 .. m
    BY DEF Remaining
  <2>2. DOMAIN t = {"wifi", "tcp", "sensor", "sample"}
    BY DEF Timers
  <2>3. Elapsed(t, d) = [k \in {"wifi", "tcp", "sensor", "sample"} |-> Remaining(t[k], d)]
    BY <2>2 DEF Elapsed
  <2>4. /\ Remaining(t["wifi"], d) \in 0 .. Maximum /\ Remaining(t["tcp"], d) \in 0 .. Maximum
        /\ Remaining(t["sensor"], d) \in 0 .. SensorRetry
        /\ Remaining(t["sample"], d) \in 0 .. Interval
    BY <1>1, <2>1 DEF Timers
  <2> QED  BY <2>3, <2>4 DEF Timers
<1> QED  BY <1>1, <1>2 DEF Timers

LEMMA AgedFacts ==
    ASSUME age \in 0 .. WifiTimeout, NEW d \in Nat
    PROVE  Aged(d) \in 0 .. WifiTimeout
BY FirmwareAssumption DEF Aged

\* The parts of the type that a step can change.
FirmwareParts ==
    /\ fpc \in {"off", "setup", "sensor", "wifi", "tcp", "sample", "delay"}
    /\ equipped \in [i2c : BOOLEAN, network : BOOLEAN]
    /\ sensorReady \in BOOLEAN /\ wifi \in BOOLEAN /\ attempting \in BOOLEAN
    /\ wifiWas \in BOOLEAN /\ tcpWas \in BOOLEAN
    /\ wifiBackoff \in {0} \cup Initial .. Maximum
    /\ tcpBackoff \in {0} \cup Initial .. Maximum
    /\ age \in 0 .. WifiTimeout
    /\ timer \in Timers

LEMMA FirmwarePartsType == FirmwareTypeOK <=> FirmwareParts
BY DEF FirmwareTypeOK, FirmwareParts, Timers

LEMMA LoopTypes ==
    ASSUME FirmwareParts,
           \/ Setup \/ ServiceSensor \/ WifiConnected \/ TcpServed \/ TcpWaits
           \/ SampleSkipped \/ SampleInvalid \/ SampleSent \/ PassEnds
           \/ WifiAssociates \/ WifiLost \/ Reboot
    PROVE  FirmwareParts'
<1>1. /\ WifiTimeout \in Nat /\ 0 \in 0 .. WifiTimeout /\ SensorRetry \in Nat
      /\ Maximum \in Nat /\ Interval \in Nat
  BY FirmwareAssumption
<1>2. CASE Setup
  <2>1. PICK i2c \in BOOLEAN, sensor \in BOOLEAN :
           SetupMemory(i2c, sensor, equipped.network)
    BY <1>2 DEF Setup
  <2>2. NoTimers \in Timers
    BY <1>1 DEF NoTimers, Timers
  <2>3. timer' \in Timers
    <3>1. (IF i2c /\ ~sensor THEN SensorRetry ELSE 0) \in 0 .. SensorRetry
      BY <1>1
    <3> QED  BY <2>1, <2>2, <3>1 DEF SetupMemory, Timers
  <2>4. equipped' \in [i2c : BOOLEAN, network : BOOLEAN] /\ sensorReady' \in BOOLEAN
    BY <2>1, Zenon DEF SetupMemory, FirmwareParts
  <2> QED  BY <1>1, <1>2, <2>1, <2>3, <2>4 DEF Setup, SetupMemory, FirmwareParts
<1>3. CASE ServiceSensor
  <2>1. timer' \in Timers
    BY <1>3, TimerFacts DEF ServiceSensor, FirmwareParts
  <2>2. sensorReady' \in BOOLEAN
    BY <1>3 DEF ServiceSensor, FirmwareParts
  <2> QED  BY <1>3, <2>1, <2>2 DEF ServiceSensor, FirmwareParts
<1>4. CASE WifiConnected
  BY <1>4 DEF WifiConnected, FirmwareParts
<1>5. CASE TcpServed
  <2>1. timer' \in Timers
    BY <1>5, TimerFacts DEF TcpServed, FirmwareParts
  <2>2. tcpWas' \in BOOLEAN /\ tcpBackoff' \in {0} \cup Initial .. Maximum
    BY <1>5 DEF TcpServed, FirmwareParts
  <2> QED  BY <1>5, <2>1, <2>2 DEF TcpServed, FirmwareParts
<1>6. CASE TcpWaits
  BY <1>6 DEF TcpWaits, FirmwareParts
<1>7. CASE SampleSkipped
  <2>1. timer' \in Timers
    BY <1>7, TimerFacts DEF SampleSkipped, Sampled, FirmwareParts
  <2> QED  BY <1>7, <2>1 DEF SampleSkipped, FirmwareParts
<1>8. CASE SampleInvalid
  <2>1. Sampled \in Timers
    BY TimerFacts DEF Sampled, FirmwareParts
  <2>2. timer' \in Timers
    BY <1>8, <2>1, TimerFacts DEF SampleInvalid
  <2> QED  BY <1>8, <2>2 DEF SampleInvalid, FirmwareParts
<1>9. CASE SampleSent
  <2>1. timer' \in Timers
    BY <1>9, TimerFacts DEF SampleSent, Sampled, FirmwareParts
  <2> QED  BY <1>9, <2>1 DEF SampleSent, FirmwareParts
<1>10. CASE PassEnds
  <2>1. timer' \in Timers /\ age' \in 0 .. WifiTimeout
    BY <1>10, TimerFacts, AgedFacts DEF PassEnds, FirmwareParts
  <2> QED  BY <1>10, <2>1 DEF PassEnds, FirmwareParts
<1>11. CASE WifiAssociates
  BY <1>11 DEF WifiAssociates, FirmwareParts, ram
<1>12. CASE WifiLost
  BY <1>12 DEF WifiLost, FirmwareParts, ram
<1>13. CASE Reboot
  BY <1>13 DEF Reboot, FirmwareParts, ram
<1> QED
  BY <1>2, <1>3, <1>4, <1>5, <1>6, <1>7, <1>8, <1>9, <1>10, <1>11, <1>12, <1>13

\* The steps that schedule a retry.
LEMMA RetryTypes ==
    ASSUME FirmwareParts,
           \/ WifiDown \/ SampleFails
           \/ \E d \in 0 .. ConnectTimeout : TcpFails(d) \/ TcpConnects(d)
    PROVE  FirmwareParts'
<1>1. /\ WifiTimeout \in Nat /\ 0 \in 0 .. WifiTimeout /\ ConnectTimeout \in Nat
      /\ Maximum \in Nat /\ Initial \in Nat /\ 0 \in 0 .. Maximum
  BY FirmwareAssumption
<1>2. /\ \A x \in Initial .. Maximum : x \in 0 .. Maximum
      /\ \A x \in Initial .. Maximum : \A d \in Nat : Remaining(x, d) \in 0 .. Maximum
  BY <1>1 DEF Remaining
<1>3. /\ timer \in Timers /\ age \in 0 .. WifiTimeout
      /\ wifiBackoff \in {0} \cup Initial .. Maximum
      /\ tcpBackoff \in {0} \cup Initial .. Maximum
  BY DEF FirmwareParts
<1>4. CASE WifiDown
  <2>1. TcpNow \in 0 .. Maximum
    BY <1>1, <1>3, TimerFacts DEF TcpNow
  <2>2. [timer EXCEPT !.tcp = TcpNow] \in Timers
    BY <1>3, <2>1, TimerFacts
  <2>3. [timer EXCEPT !.wifi = Delay(wifiBackoff), !.tcp = TcpNow] \in Timers
    <3>1. Delay(wifiBackoff) \in 0 .. Maximum
      BY <1>2, <1>3, BackoffFacts
    <3>2. [timer EXCEPT !.wifi = Delay(wifiBackoff)] \in Timers
      BY <1>3, <3>1, TimerFacts
    <3> QED  BY <1>3, <2>1, <3>1 DEF Timers
  <2>4. NextBackoff(Delay(wifiBackoff)) \in Initial .. Maximum
    BY <1>3, BackoffFacts
  <2>5. /\ timer' \in Timers /\ wifiBackoff' \in {0} \cup Initial .. Maximum
        /\ attempting' \in BOOLEAN /\ age' \in 0 .. WifiTimeout
    <3>1. CASE WifiTimesOut
      BY <1>3, <2>3, <2>4, <3>1 DEF WifiTimesOut
    <3>2. CASE WifiBegins
      BY <1>1, <1>3, <2>2, <3>2 DEF WifiBegins
    <3>3. CASE WifiWaits
      BY <1>3, <2>2, <3>3 DEF WifiWaits, FirmwareParts
    <3> QED  BY <1>4, <3>1, <3>2, <3>3 DEF WifiDown
  <2>6. wifiWas' \in BOOLEAN /\ tcpWas' \in BOOLEAN
    BY <1>4 DEF WifiDown, DropClient, FirmwareParts
  <2> QED  BY <1>4, <2>5, <2>6 DEF WifiDown, FirmwareParts
<1>5. CASE SampleFails
  <2>1. Sampled \in Timers
    BY <1>3, TimerFacts DEF Sampled
  <2>2. Delay(tcpBackoff) \in 0 .. Maximum
    BY <1>2, <1>3, BackoffFacts
  <2>3. timer' \in Timers
    BY <1>5, <2>1, <2>2, TimerFacts DEF SampleFails
  <2>4. tcpBackoff' \in Initial .. Maximum
    BY <1>3, <1>5, BackoffFacts DEF SampleFails
  <2> QED  BY <1>5, <2>3, <2>4 DEF SampleFails, FirmwareParts
<1>6. ASSUME NEW d \in 0 .. ConnectTimeout, TcpFails(d)  PROVE FirmwareParts'
  <2>1. d \in Nat
    BY <1>1
  <2>2. Elapsed(timer, d) \in Timers
    BY <1>3, <2>1, TimerFacts
  <2>3. Remaining(Delay(tcpBackoff), d) \in 0 .. Maximum
    BY <1>2, <1>3, <2>1, BackoffFacts
  <2>4. timer' \in Timers
    BY <1>6, <2>2, <2>3, TimerFacts DEF TcpFails
  <2>5. tcpBackoff' \in Initial .. Maximum
    BY <1>3, <1>6, BackoffFacts DEF TcpFails
  <2>6. age' \in 0 .. WifiTimeout
    BY <1>3, <1>6, <2>1, AgedFacts DEF TcpFails
  <2> QED  BY <1>6, <2>4, <2>5, <2>6 DEF TcpFails, FirmwareParts
<1>7. ASSUME NEW d \in 0 .. ConnectTimeout, TcpConnects(d)  PROVE FirmwareParts'
  <2>1. d \in Nat
    BY <1>1
  <2>2. Elapsed(timer, d) \in Timers
    BY <1>3, <2>1, TimerFacts
  <2>3. timer' \in Timers
    BY <1>7, <2>2, TimerFacts DEF TcpConnects
  <2>4. age' \in 0 .. WifiTimeout
    BY <1>3, <1>7, <2>1, AgedFacts DEF TcpConnects
  <2> QED  BY <1>7, <2>3, <2>4 DEF TcpConnects, FirmwareParts
<1> QED  BY <1>4, <1>5, <1>6, <1>7

LEMMA FirmwareTypeStep ==
    ASSUME FirmwareTypeOK, FirmwareStep \/ UNCHANGED firmware
    PROVE  FirmwareTypeOK'
<1>1. FirmwareParts
  BY FirmwarePartsType
<1>2. FirmwareTypeOK' <=> FirmwareParts'
  BY DEF FirmwareTypeOK, FirmwareParts, Timers
<1>3. CASE FirmwareStep
  BY <1>1, <1>2, <1>3, LoopTypes, RetryTypes DEF FirmwareStep, LoopStep
<1>4. CASE UNCHANGED firmware
  BY <1>1, <1>2, <1>4 DEF firmware, ram, FirmwareParts
<1> QED  BY <1>3, <1>4

-----------------------------------------------------------------------------
(* The simulator's counters                                                 *)

Counts == [Counters -> Nat]

LEMMA CountersAre == Counters = {"samples", "attempts", "sent", "drops"}
BY DEF Counters, NoCounts

LEMMA NoCountsFacts ==
    /\ NoCounts \in Counts
    /\ \A k \in Counters : NoCounts[k] = 0
BY CountersAre DEF Counts, NoCounts

\* Incrementing counters.
LEMMA CountsFacts ==
    ASSUME NEW c \in Counts
    PROVE  /\ c.samples \in Nat /\ c.attempts \in Nat /\ c.sent \in Nat /\ c.drops \in Nat
           /\ [c EXCEPT !.samples = @ + 1, !.drops = @ + 1] \in Counts
           /\ [c EXCEPT !.samples = @ + 1, !.attempts = @ + 1] \in Counts
           /\ [c EXCEPT !.sent = @ + 1] \in Counts
<1>1. /\ c \in [{"samples", "attempts", "sent", "drops"} -> Nat]
      /\ Counts = [{"samples", "attempts", "sent", "drops"} -> Nat]
  BY CountersAre DEF Counts
<1>2. /\ c.samples \in Nat /\ c.attempts \in Nat /\ c.sent \in Nat /\ c.drops \in Nat
      /\ c.samples + 1 \in Nat /\ c.attempts + 1 \in Nat /\ c.sent + 1 \in Nat
      /\ c.drops + 1 \in Nat
  BY <1>1
<1>3. [c EXCEPT !.samples = @ + 1, !.drops = @ + 1] \in Counts
  BY <1>1, <1>2
<1>4. [c EXCEPT !.samples = @ + 1, !.attempts = @ + 1] \in Counts
  BY <1>1, <1>2
<1>5. [c EXCEPT !.sent = @ + 1] \in Counts
  BY <1>1, <1>2
<1> QED  BY <1>2, <1>3, <1>4, <1>5

LEMMA TotalsFacts ==
    ASSUME past \in Counts, counts \in Counts
    PROVE  /\ Totals \in Counts
           /\ \A k \in Counters : Totals[k] = past[k] + counts[k]
BY DEF Totals, Counts

VirtualParts ==
    /\ npc \in {"off", "connecting", "sampling", "delaying", "draining",
                "backoff", "closing", "ended"}
    /\ sim \in {"warmup", "measuring", "ending", "stopping", "done"}
    /\ sequence \in {"none", "pending", "stopping", "recovered"}
    /\ counts \in Counts /\ past \in Counts /\ baseline \in Counts
    /\ row \in [Counters -> Int]

LEMMA VirtualPartsType ==
    (VirtualTypeOK <=> VirtualParts) /\ (VirtualTypeOK' <=> VirtualParts')
BY DEF VirtualTypeOK, VirtualParts, Counts

LEMMA VirtualTypeStep ==
    ASSUME VirtualTypeOK, VirtualStep \/ UNCHANGED vnode
    PROVE  VirtualTypeOK'
<1>1. VirtualParts
  BY VirtualPartsType
<1>2. counts \in Counts /\ past \in Counts /\ baseline \in Counts /\ Totals \in Counts
  BY <1>1, TotalsFacts DEF VirtualParts
<1>3. CASE NodeConnects \/ NodeStep
  <2>1. counts' \in Counts
    BY <1>2, <1>3, CountsFacts
    DEF NodeConnects, NodeStep, NodeConnectFails, NodeDrops, NodeSends, NodeWrites,
        NodeDrained, NodeDrainFails, NodeReconnects
  <2> QED
    BY <1>1, <1>3, <2>1, VirtualPartsType
    DEF NodeConnects, NodeStep, NodeConnectFails, NodeDrops, NodeSends, NodeWrites,
        NodeDrained, NodeDrainFails, NodeReconnects, VirtualParts
<1>4. CASE \/ NodeEnds \/ MeasurementStarts \/ FailureInjected \/ NodeRecovers
           \/ MeasurementEnds \/ StopAll
  <2>1. /\ counts' \in Counts /\ past' \in Counts /\ baseline' \in Counts
        /\ row' = row
    BY <1>2, <1>4, NoCountsFacts
    DEF NodeEnds, MeasurementStarts, FailureInjected, NodeRecovers, MeasurementEnds,
        StopAll
  <2>2. /\ npc' \in {"off", "connecting", "sampling", "delaying", "draining",
                     "backoff", "closing", "ended"}
        /\ sim' \in {"warmup", "measuring", "ending", "stopping", "done"}
        /\ sequence' \in {"none", "pending", "stopping", "recovered"}
    BY <1>1, <1>4
    DEF NodeEnds, MeasurementStarts, FailureInjected, NodeRecovers, MeasurementEnds,
        StopAll, Cancelled, VirtualParts
  <2> QED  BY <1>1, <2>1, <2>2, VirtualPartsType DEF VirtualParts
<1>5. CASE WriteStats
  <2>1. row' \in [Counters -> Int]
    BY <1>2, <1>5 DEF WriteStats, Counts
  <2> QED  BY <1>1, <1>5, <2>1, VirtualPartsType DEF WriteStats, VirtualParts
<1>6. CASE UNCHANGED vnode
  BY <1>1, <1>6, VirtualPartsType DEF vnode, VirtualParts
<1> QED  BY <1>3, <1>4, <1>5, <1>6 DEF VirtualStep, SimulatorStep

\* What a step of a virtual node does to the totals and the reading under way.
Counting ==
    \/ Totals' = Totals /\ baseline' = baseline /\ Busy' <= Busy
    \/ /\ baseline' = baseline /\ Busy' = Busy
       /\ Totals' = [Totals EXCEPT !.samples = @ + 1, !.drops = @ + 1]
    \/ /\ baseline' = baseline /\ Busy = 0 /\ Busy' = 1
       /\ Totals' = [Totals EXCEPT !.samples = @ + 1, !.attempts = @ + 1]
    \/ /\ baseline' = baseline /\ Busy = 1 /\ Busy' = 0
       /\ Totals' = [Totals EXCEPT !.sent = @ + 1]
    \/ Totals' = Totals /\ baseline' = Totals /\ Busy' = Busy

LEMMA BusyFacts == Busy \in {0, 1} /\ Busy' \in {0, 1}
BY DEF Busy

\* Equal sums.
LEMMA TotalsSame ==
    ASSUME past' = past, counts' = counts
    PROVE  Totals' = Totals
BY DEF Totals

LEMMA TotalsCounted ==
    ASSUME past \in Counts, counts \in Counts, past' = past, counts' \in Counts
    PROVE  /\ counts' = [counts EXCEPT !.samples = @ + 1, !.drops = @ + 1]
                 => Totals' = [Totals EXCEPT !.samples = @ + 1, !.drops = @ + 1]
           /\ counts' = [counts EXCEPT !.samples = @ + 1, !.attempts = @ + 1]
                 => Totals' = [Totals EXCEPT !.samples = @ + 1, !.attempts = @ + 1]
           /\ counts' = [counts EXCEPT !.sent = @ + 1]
                 => Totals' = [Totals EXCEPT !.sent = @ + 1]
<1>1. /\ past \in [{"samples", "attempts", "sent", "drops"} -> Nat]
      /\ counts \in [{"samples", "attempts", "sent", "drops"} -> Nat]
      /\ Totals = [k \in {"samples", "attempts", "sent", "drops"} |-> past[k] + counts[k]]
      /\ Totals' = [k \in {"samples", "attempts", "sent", "drops"} |-> past[k] + counts'[k]]
  BY CountersAre DEF Counts, Totals
<1>2. ASSUME counts' = [counts EXCEPT !.samples = @ + 1, !.drops = @ + 1]
      PROVE  Totals' = [Totals EXCEPT !.samples = @ + 1, !.drops = @ + 1]
  <2>1. PICK new : new = [Totals EXCEPT !.samples = @ + 1, !.drops = @ + 1]
    OBVIOUS
  <2>2. /\ counts'["samples"] = counts["samples"] + 1
        /\ counts'["drops"] = counts["drops"] + 1
        /\ counts'["attempts"] = counts["attempts"] /\ counts'["sent"] = counts["sent"]
    BY <1>1, <1>2
  <2>3. /\ new["samples"] = past["samples"] + counts["samples"] + 1
        /\ new["drops"] = past["drops"] + counts["drops"] + 1
        /\ new["attempts"] = past["attempts"] + counts["attempts"]
        /\ new["sent"] = past["sent"] + counts["sent"]
    BY <1>1, <2>1
  <2>4. DOMAIN new = {"samples", "attempts", "sent", "drops"}
        /\ new = [k \in DOMAIN new |-> new[k]]
    BY <1>1, <2>1
  <2>5. \A k \in {"samples", "attempts", "sent", "drops"} : new[k] = past[k] + counts'[k]
    BY <1>1, <2>2, <2>3
  <2> QED  BY <1>1, <2>1, <2>4, <2>5
<1>3. ASSUME counts' = [counts EXCEPT !.samples = @ + 1, !.attempts = @ + 1]
      PROVE  Totals' = [Totals EXCEPT !.samples = @ + 1, !.attempts = @ + 1]
  <2>1. PICK new : new = [Totals EXCEPT !.samples = @ + 1, !.attempts = @ + 1]
    OBVIOUS
  <2>2. /\ counts'["samples"] = counts["samples"] + 1
        /\ counts'["attempts"] = counts["attempts"] + 1
        /\ counts'["drops"] = counts["drops"] /\ counts'["sent"] = counts["sent"]
    BY <1>1, <1>3
  <2>3. /\ new["samples"] = past["samples"] + counts["samples"] + 1
        /\ new["attempts"] = past["attempts"] + counts["attempts"] + 1
        /\ new["drops"] = past["drops"] + counts["drops"]
        /\ new["sent"] = past["sent"] + counts["sent"]
    BY <1>1, <2>1
  <2>4. DOMAIN new = {"samples", "attempts", "sent", "drops"}
        /\ new = [k \in DOMAIN new |-> new[k]]
    BY <1>1, <2>1
  <2>5. \A k \in {"samples", "attempts", "sent", "drops"} : new[k] = past[k] + counts'[k]
    BY <1>1, <2>2, <2>3
  <2> QED  BY <1>1, <2>1, <2>4, <2>5
<1>4. ASSUME counts' = [counts EXCEPT !.sent = @ + 1]
      PROVE  Totals' = [Totals EXCEPT !.sent = @ + 1]
  BY <1>1, <1>4
<1> QED  BY <1>2, <1>3, <1>4

LEMMA CountingHolds ==
    ASSUME VirtualParts, VirtualParts', VirtualStep \/ UNCHANGED vnode
    PROVE  Counting
<1>1. counts \in Counts /\ past \in Counts /\ counts' \in Counts /\ past' \in Counts
  BY DEF VirtualParts
<1>2. CASE \/ NodeConnects \/ NodeConnectFails \/ NodeWrites \/ NodeDrainFails
           \/ NodeReconnects \/ NodeEnds \/ FailureInjected \/ MeasurementEnds
           \/ StopAll \/ WriteStats \/ UNCHANGED vnode
  <2>1. past' = past /\ counts' = counts /\ baseline' = baseline
    BY <1>2
    DEF NodeConnects, NodeConnectFails, NodeWrites, NodeDrainFails, NodeReconnects,
        NodeEnds, FailureInjected, MeasurementEnds, StopAll, WriteStats, vnode
  <2>2. npc' \in {"delaying", "draining"} => npc \in {"delaying", "draining"}
    BY <1>2
    DEF NodeConnects, NodeConnectFails, NodeWrites, NodeDrainFails, NodeReconnects,
        NodeEnds, FailureInjected, MeasurementEnds, StopAll, WriteStats, vnode,
        Cancelled
  <2>3. Busy' <= Busy
    BY <2>2 DEF Busy
  <2> QED  BY <2>1, <2>3, TotalsSame DEF Counting
<1>3. CASE NodeDrops
  <2>1. Totals' = [Totals EXCEPT !.samples = @ + 1, !.drops = @ + 1]
    BY <1>1, <1>3, TotalsCounted DEF NodeDrops
  <2> QED  BY <1>3, <2>1 DEF NodeDrops, Counting, Busy
<1>4. CASE NodeSends
  <2>1. Totals' = [Totals EXCEPT !.samples = @ + 1, !.attempts = @ + 1]
    BY <1>1, <1>4, TotalsCounted DEF NodeSends
  <2> QED  BY <1>4, <2>1 DEF NodeSends, Counting, Busy
<1>5. CASE NodeDrained
  <2>1. Totals' = [Totals EXCEPT !.sent = @ + 1]
    BY <1>1, <1>5, TotalsCounted DEF NodeDrained
  <2> QED  BY <1>5, <2>1 DEF NodeDrained, Counting, Busy
<1>6. CASE MeasurementStarts
  <2>1. Totals' = Totals /\ baseline' = Totals /\ Busy' = Busy
    BY <1>6, TotalsSame DEF MeasurementStarts, Busy
  <2> QED  BY <2>1 DEF Counting
<1>7. CASE NodeRecovers
  <2>1. past' = Totals /\ counts' = NoCounts /\ baseline' = baseline /\ npc' = "connecting"
    BY <1>7 DEF NodeRecovers
  <2>2. \A k \in Counters : past'[k] + counts'[k] = past[k] + counts[k]
    BY <1>1, <2>1, TotalsFacts, NoCountsFacts DEF Counts
  <2>3. Totals' = Totals
    BY <2>2 DEF Totals
  <2>4. Busy' <= Busy
    BY <2>1 DEF Busy
  <2> QED  BY <2>1, <2>3, <2>4 DEF Counting
<1> QED
  BY <1>2, <1>3, <1>4, <1>5, <1>6, <1>7 DEF VirtualStep, NodeStep, SimulatorStep

\* The inequalities of CounterInv.
Consistent(t, b, busy) ==
    /\ Balanced(t) /\ Balanced(b)
    /\ \A k \in Counters : b[k] <= t[k]
    /\ t.sent + busy <= t.attempts
    /\ t.sent + b.attempts + busy <= t.attempts + b.sent + 1

LEMMA ConsistentKept ==
    ASSUME NEW t \in Counts, NEW b \in Counts, NEW busy \in {0, 1},
           Consistent(t, b, busy)
    PROVE  /\ \A y \in {0, 1} : y <= busy => Consistent(t, b, y)
           /\ Consistent([t EXCEPT !.samples = @ + 1, !.drops = @ + 1], b, busy)
           /\ busy = 0 =>
                 Consistent([t EXCEPT !.samples = @ + 1, !.attempts = @ + 1], b, 1)
           /\ busy = 1 => Consistent([t EXCEPT !.sent = @ + 1], b, 0)
           /\ Consistent(t, t, busy)
<1>1. /\ t \in [{"samples", "attempts", "sent", "drops"} -> Nat]
      /\ b \in [{"samples", "attempts", "sent", "drops"} -> Nat]
  BY CountersAre DEF Counts
<1>2. /\ t.samples = t.attempts + t.drops /\ b.samples = b.attempts + b.drops
      /\ \A k \in {"samples", "attempts", "sent", "drops"} : b[k] <= t[k]
      /\ t.sent + busy <= t.attempts
      /\ t.sent + b.attempts + busy <= t.attempts + b.sent + 1
  BY CountersAre DEF Consistent, Balanced
<1>3. \A y \in {0, 1} : y <= busy => Consistent(t, b, y)
  BY <1>1, <1>2, CountersAre DEF Consistent, Balanced
<1>4. Consistent([t EXCEPT !.samples = @ + 1, !.drops = @ + 1], b, busy)
  BY <1>1, <1>2, CountersAre DEF Consistent, Balanced
<1>5. busy = 0 => Consistent([t EXCEPT !.samples = @ + 1, !.attempts = @ + 1], b, 1)
  BY <1>1, <1>2, CountersAre DEF Consistent, Balanced
<1>6. busy = 1 => Consistent([t EXCEPT !.sent = @ + 1], b, 0)
  BY <1>1, <1>2, CountersAre DEF Consistent, Balanced
<1>7. Consistent(t, t, busy)
  BY <1>1, <1>2, CountersAre DEF Consistent, Balanced
<1> QED  BY <1>3, <1>4, <1>5, <1>6, <1>7

LEMMA CounterStep ==
    ASSUME VirtualParts, Counting, CounterInv
    PROVE  CounterInv'
<1>1. Totals \in Counts /\ baseline \in Counts /\ Busy \in {0, 1} /\ Busy' \in {0, 1}
  BY TotalsFacts, BusyFacts DEF VirtualParts
<1>2. Consistent(Totals, baseline, Busy)
  BY DEF CounterInv, Consistent
<1>3. Consistent(Totals', baseline', Busy')
  BY <1>1, <1>2, ConsistentKept DEF Counting
<1> QED  BY <1>3 DEF CounterInv, Consistent

\* The row is written from the counters, once, and not changed afterwards.
LEMMA StatsStep ==
    ASSUME VirtualParts, CounterInv, StatsRowBalanced, VirtualStep \/ UNCHANGED vnode
    PROVE  StatsRowBalanced'
<1>1. CASE WriteStats
  <2>1. Totals \in Counts /\ baseline \in Counts /\ Busy \in {0, 1}
    BY TotalsFacts, BusyFacts DEF VirtualParts
  <2>2. PICK t, b : t = Totals /\ b = baseline
    OBVIOUS
  <2>3. row' = [k \in {"samples", "attempts", "sent", "drops"} |-> t[k] - b[k]]
    BY <1>1, <2>2, CountersAre DEF WriteStats
  <2>4. /\ t \in [{"samples", "attempts", "sent", "drops"} -> Nat]
        /\ b \in [{"samples", "attempts", "sent", "drops"} -> Nat]
    BY <2>1, <2>2, CountersAre DEF Counts
  <2>5. /\ t.samples = t.attempts + t.drops /\ b.samples = b.attempts + b.drops
        /\ \A k \in {"samples", "attempts", "sent", "drops"} : b[k] <= t[k]
        /\ t.sent + b.attempts + Busy <= t.attempts + b.sent + 1
    BY <2>2, CountersAre DEF CounterInv, Balanced
  <2>6. /\ row'.samples = t.samples - b.samples /\ row'.attempts = t.attempts - b.attempts
        /\ row'.sent = t.sent - b.sent /\ row'.drops = t.drops - b.drops
    BY <2>3
  <2>7. /\ \A k \in {"samples", "attempts", "sent", "drops"} : row'[k] >= 0
        /\ row'.samples = row'.attempts + row'.drops
        /\ row'.sent <= row'.attempts + 1
    BY <2>1, <2>4, <2>5, <2>6
  <2> QED  BY <2>7, CountersAre DEF StatsRowBalanced
<1>2. CASE ~WriteStats
  <2>1. row' = row /\ (sim' = "done" => sim = "done")
    BY <1>2
    DEF VirtualStep, NodeStep, SimulatorStep, NodeConnects, NodeConnectFails, NodeDrops,
        NodeSends, NodeWrites, NodeDrained, NodeDrainFails, NodeReconnects, NodeEnds,
        MeasurementStarts, FailureInjected, NodeRecovers, MeasurementEnds, StopAll, vnode
  <2> QED  BY <2>1 DEF StatsRowBalanced
<1> QED  BY <1>1, <1>2

-----------------------------------------------------------------------------
(* The order of the lines                                                   *)

LEMMA OrderedShrunk ==
    ASSUME NEW old \in Seq(Connection), NEW new, Shrunk(new, old),
           NEW s \in BOOLEAN, NEW t \in BOOLEAN, t => s, Ordered(old, s)
    PROVE  Ordered(new, t)
<1>1. new \in Seq(Connection)
  BY DEF Shrunk
<1>2. ASSUME NEW c \in 1 .. Len(new), NEW d \in 1 .. Len(new),
             NEW i \in 1 .. Len(new[c].lines), NEW j \in 1 .. Len(new[d].lines),
             FirstPlace(c, i, d, j)
      PROVE  InOrder(new[c].lines[i], new[d].lines[j], t)
  <2>1. Len(new[c].lines) > 0 /\ Len(new[d].lines) > 0
    BY <1>1, ConnectionFacts
  <2>2. c \in 1 .. Len(old) /\ d \in 1 .. Len(old)
    BY <2>1, ShrunkPlaces
  <2>3. PICK k \in Nat : Moved(new[c].lines, old[c].lines, k)
    BY <2>1, ShrunkPlaces
  <2>4. PICK m \in Nat : (c = d => m = k) /\ Moved(new[d].lines, old[d].lines, m)
    <3>1. CASE c = d
      BY <2>3, <3>1
    <3>2. CASE c # d
      <4>1. PICK m \in Nat : Moved(new[d].lines, old[d].lines, m)
        BY <2>1, ShrunkPlaces
      <4> QED  BY <3>2, <4>1
    <3> QED  BY <3>1, <3>2
  <2>5. /\ i + k \in 1 .. Len(old[c].lines) /\ j + m \in 1 .. Len(old[d].lines)
        /\ new[c].lines[i] = old[c].lines[i + k]
        /\ new[d].lines[j] = old[d].lines[j + m]
    BY <2>3, <2>4 DEF Moved
  <2>6. Len(new[c].lines) \in Nat /\ Len(new[d].lines) \in Nat
    BY <1>1, ConnectionFacts
  <2>7. FirstPlace(c, i + k, d, j + m)
    <3>1. i \in Int /\ j \in Int /\ k \in Int /\ (c = d => m = k)
      BY <2>4, <2>6
    <3> QED  BY ONLY <1>2, <3>1 DEF FirstPlace
  <2>8. InOrder(old[c].lines[i + k], old[d].lines[j + m], s)
    BY <2>2, <2>5, <2>7 DEF Ordered
  <2> QED  BY <2>5, <2>8 DEF InOrder
<1> QED  BY <1>1, <1>2 DEF Ordered

LEMMA OrderedAppended ==
    ASSUME NEW old \in Seq(Connection), NEW new, NEW l, Appended(new, old, l),
           NEW s \in BOOLEAN, NEW t \in BOOLEAN, t => s, Ordered(old, s),
           \A p \in Unread(old) :
              /\ NotAfter(p[1], p[2], l.boot, l.sequence)
              /\ t => Before(p[1], p[2], l.boot, l.sequence)
    PROVE  Ordered(new, t)
<1>1. new \in Seq(Connection)
  BY DEF Appended
<1>2. ASSUME NEW c \in 1 .. Len(new), NEW d \in 1 .. Len(new),
             NEW i \in 1 .. Len(new[c].lines), NEW j \in 1 .. Len(new[d].lines),
             FirstPlace(c, i, d, j)
      PROVE  InOrder(new[c].lines[i], new[d].lines[j], t)
  <2>1. /\ c \in 1 .. Len(old) /\ d \in 1 .. Len(old)
        /\ Len(old) \in Nat /\ Len(old[c].lines) \in Nat /\ Len(old[d].lines) \in Nat
    <3>1. c \in 1 .. Len(old) /\ d \in 1 .. Len(old)
      BY AppendedPlaces
    <3> QED  BY <3>1, ConnectionFacts
  <2>2. i \in 1 .. Len(old[c].lines) /\ new[c].lines[i] = old[c].lines[i]
    <3> SUFFICES ASSUME c = Len(old), i = Len(old[c].lines) + 1  PROVE FALSE
      BY AppendedPlaces
    <3>1. c = d /\ i < j
      BY <1>2, <2>1 DEF FirstPlace
    <3>2. j \in 1 .. Len(old[d].lines) \/ j = Len(old[d].lines) + 1
      BY AppendedPlaces
    <3> QED  BY <2>1, <3>1, <3>2
  <2>3. CASE j \in 1 .. Len(old[d].lines) /\ new[d].lines[j] = old[d].lines[j]
    <3>1. InOrder(old[c].lines[i], old[d].lines[j], s)
      BY <1>2, <2>1, <2>2, <2>3 DEF Ordered
    <3> QED  BY <2>2, <2>3, <3>1 DEF InOrder
  <2>4. CASE new[d].lines[j] = l
    <3>1. <<old[c].lines[i].boot, old[c].lines[i].sequence>> \in Unread(old)
      BY <2>1, <2>2, UnreadElement
    <3>2. /\ NotAfter(old[c].lines[i].boot, old[c].lines[i].sequence, l.boot, l.sequence)
          /\ t => Before(old[c].lines[i].boot, old[c].lines[i].sequence, l.boot, l.sequence)
      BY <3>1
    <3> QED  BY <2>2, <2>4, <3>2 DEF InOrder
  <2> QED  BY <2>3, <2>4, AppendedPlaces
<1> QED  BY <1>1, <1>2 DEF Ordered

\* What is written comes after everything that was written before.
LEMMA WritesLast ==
    ASSUME Stepping, WrittenInv, NEW l, SendsLine(l),
           NEW p \in delivered \cup Unread(conns)
    PROVE  /\ NotAfter(p[1], p[2], l.boot, l.sequence)
           /\ Strict' => Before(p[1], p[2], l.boot, l.sequence)
<1>1. /\ p[1] \in 1 .. Boot /\ p[2] \in 0 .. issued[p[1]]
      /\ Strict => p[2] < issued[p[1]]
      /\ npc = "delaying" /\ p[1] = Boot => p[2] < issued[p[1]] - 1
  BY DEF WrittenInv, Written, Boot
<1>2. /\ Boot \in Nat /\ Sequence \in Nat /\ Sequence = issued[Boot] /\ l.boot = Boot
      /\ Strict' => Strict
  BY DEF Stepping, UplinkFacts, Sequence, SendsLine
<1>3. \/ l.sequence = Sequence
      \/ l.sequence = Sequence - 1 /\ npc = "delaying"
  BY DEF SendsLine
<1>4. CASE p[1] < Boot
  BY <1>2, <1>4 DEF NotAfter, Before
<1>5. CASE p[1] = Boot
  BY <1>1, <1>2, <1>3, <1>5 DEF NotAfter, Before
<1> QED  BY <1>1, <1>2, <1>4, <1>5

\* Nothing comes before itself.
LEMMA BeforeIsStrict ==
    ASSUME NEW b \in Int, NEW s \in Int
    PROVE  ~Before(b, s, b, s)
BY DEF Before

LEMMA StrictType == Strict \in BOOLEAN /\ Strict' \in BOOLEAN
BY DEF Strict

LEMMA OrderStep ==
    ASSUME Stepping, WrittenInv, OrderInv
    PROVE  OrderInv'
<1>1. /\ UplinkFacts /\ conns \in Seq(Connection) /\ (Strict' => Strict)
      /\ Strict \in BOOLEAN /\ Strict' \in BOOLEAN
  BY StrictType DEF Stepping, UplinkFacts
<1>2. CASE Shrunk(conns', conns)
  BY <1>1, <1>2, OrderedShrunk DEF OrderInv
<1>3. CASE Sends
  <2>1. PICK l : SendsLine(l)
    BY <1>3 DEF Sends
  <2>2. Appended(conns', conns, l)
    BY <2>1 DEF SendsLine
  <2>3. \A p \in Unread(conns) :
           /\ NotAfter(p[1], p[2], l.boot, l.sequence)
           /\ Strict' => Before(p[1], p[2], l.boot, l.sequence)
    BY <2>1, WritesLast
  <2> QED  BY <1>1, <2>2, <2>3, OrderedAppended DEF OrderInv
<1>4. Shrunk(conns', conns) \/ Sends
  <2>1. CASE Idles
    BY <2>1 DEF Idles
  <2>2. CASE Uses \/ Restarts
    BY <1>1, <2>2, ShrunkSame DEF Uses, Restarts
  <2>3. CASE Reads
    <3>1. PICK c \in DOMAIN conns : ReadLine(c)
      BY <2>3 DEF Reads
    <3> QED  BY <1>1, <3>1, ReadFacts
  <2> QED  BY <2>1, <2>2, <2>3 DEF Stepping, Kinds
<1> QED  BY <1>2, <1>3, <1>4

\* A line that is read is not left behind a second time.
LEMMA HeadDistinct ==
    ASSUME Stepping, WrittenInv, OrderInv, Strict, NEW c \in DOMAIN conns, ReadLine(c)
    PROVE  <<conns[c].lines[1].boot, conns[c].lines[1].sequence>> \notin Unread(conns')
<1> DEFINE h == conns[c].lines[1]
<1> SUFFICES ASSUME <<h.boot, h.sequence>> \in Unread(conns')  PROVE FALSE
  OBVIOUS
<1>1. UplinkFacts /\ conns \in Seq(Connection)
  BY DEF Stepping, UplinkFacts
<1>2. /\ c \in 1 .. Len(conns) /\ 1 \in 1 .. Len(conns[c].lines) /\ h \in LineType
      /\ conns' \in Seq(Connection) /\ Len(conns') = Len(conns)
      /\ \A d \in 1 .. Len(conns') : \A i \in 1 .. Len(conns'[d].lines) :
            \E j \in 1 .. Len(conns[d].lines) :
               conns'[d].lines[i] = conns[d].lines[j] /\ (d = c => j > 1)
  BY <1>1, ReadFacts
<1>3. PICK d \in 1 .. Len(conns') : \E i \in 1 .. Len(conns'[d].lines) :
         <<h.boot, h.sequence>> = <<conns'[d].lines[i].boot, conns'[d].lines[i].sequence>>
  BY <1>2, UnreadPick
<1>4. PICK i \in 1 .. Len(conns'[d].lines) :
         <<h.boot, h.sequence>> = <<conns'[d].lines[i].boot, conns'[d].lines[i].sequence>>
  BY <1>3
<1>5. PICK j \in 1 .. Len(conns[d].lines) :
         conns'[d].lines[i] = conns[d].lines[j] /\ (d = c => j > 1)
  BY <1>2
<1>6. PICK k : k = conns[d].lines[j]
  OBVIOUS
<1>7. k.boot = h.boot /\ k.sequence = h.sequence
  BY <1>4, <1>5, <1>6
<1>8. h.boot \in Int /\ h.sequence \in Int /\ d \in 1 .. Len(conns)
  BY <1>2 DEF LineType
<1>9. CASE FirstPlace(c, 1, d, j)
  <2>1. InOrder(h, k, Strict)
    BY <1>1, <1>2, <1>5, <1>6, <1>8, <1>9 DEF OrderInv, Ordered
  <2> QED  BY <1>7, <1>8, <2>1, BeforeIsStrict DEF InOrder
<1>10. CASE FirstPlace(d, j, c, 1)
  <2>1. InOrder(k, h, Strict)
    BY <1>1, <1>2, <1>5, <1>6, <1>8, <1>10 DEF OrderInv, Ordered
  <2> QED  BY <1>7, <1>8, <2>1, BeforeIsStrict DEF InOrder
<1>11. FirstPlace(c, 1, d, j) \/ FirstPlace(d, j, c, 1)
  <2>1. Len(conns) \in Nat
    BY <1>1, ConnectionFacts
  <2> QED  BY <1>2, <1>5, <1>8, <2>1 DEF FirstPlace
<1> QED  BY <1>9, <1>10, <1>11

\* What a step does to the sets of numbers: nothing is observed, or the head of
\* a connection.
NumberSets ==
    \/ UNCHANGED <<delivered, record>> /\ Unread(conns') \subseteq Unread(conns)
    \/ /\ UNCHANGED <<delivered, record>>
       /\ \E l : SendsLine(l) /\ Unread(conns') \subseteq
                                    Unread(conns) \cup {<<l.boot, l.sequence>>}
    \/ \E p \in Unread(conns) :
          /\ delivered' = delivered \cup {p}
          /\ record'.messagesReceived = record.messagesReceived + 1
          /\ Unread(conns') \subseteq Unread(conns)
          /\ Strict => p \notin Unread(conns')

LEMMA NumberSetsHold ==
    ASSUME Stepping, WrittenInv, OrderInv, record \in Registry!NodeRecord
    PROVE  NumberSets
<1>1. UplinkFacts /\ conns \in Seq(Connection)
  BY DEF Stepping, UplinkFacts
<1>2. CASE Idles \/ Uses \/ Restarts
  <2>1. UNCHANGED <<delivered, record>>
    BY <1>2 DEF Idles, Uses, Restarts, gateway
  <2>2. Shrunk(conns', conns)
    BY <1>1, <1>2, ShrunkSame DEF Idles, Uses, Restarts
  <2> QED  BY <1>1, <2>1, <2>2, UnreadShrunk DEF NumberSets
<1>3. CASE Sends
  <2>1. PICK l : SendsLine(l)
    BY <1>3 DEF Sends
  <2>2. Unread(conns') \subseteq Unread(conns) \cup {<<l.boot, l.sequence>>}
    BY <1>1, <2>1, UnreadAppended DEF SendsLine
  <2>3. UNCHANGED <<delivered, record>>
    BY <2>1 DEF SendsLine, gateway
  <2> QED  BY <2>1, <2>2, <2>3 DEF NumberSets
<1>4. CASE Reads
  <2>1. PICK c \in DOMAIN conns : ReadLine(c)
    BY <1>4 DEF Reads
  <2>2. /\ c \in 1 .. Len(conns) /\ 1 \in 1 .. Len(conns[c].lines)
        /\ conns[c].lines[1] \in LineType
        /\ Head(conns[c].lines) = conns[c].lines[1] /\ Shrunk(conns', conns)
    BY <1>1, <2>1, ReadFacts
  <2>3. PICK p : p = <<conns[c].lines[1].boot, conns[c].lines[1].sequence>>
    OBVIOUS
  <2>4. /\ delivered' = delivered \cup {p}
        /\ record' = Registry!Observe(record, conns[c].lines[1].sequence, 0)
    BY <2>1, <2>2, <2>3 DEF ReadLine
  <2>5. record'.messagesReceived = record.messagesReceived + 1
    BY <2>2, <2>4, ObserveResult DEF LineType
  <2>6. p \in Unread(conns) /\ Unread(conns') \subseteq Unread(conns)
    BY <1>1, <2>2, <2>3, UnreadElement, UnreadShrunk
  <2>7. Strict => p \notin Unread(conns')
    BY <2>1, <2>3, HeadDistinct
  <2> QED  BY <2>4, <2>5, <2>6, <2>7 DEF NumberSets
<1> QED  BY <1>2, <1>3, <1>4 DEF Stepping, Kinds

\* What is written now was not observed before.
LEMMA WrittenIsFresh ==
    ASSUME Stepping, WrittenInv, Strict', NEW l, SendsLine(l)
    PROVE  <<l.boot, l.sequence>> \notin delivered
<1> SUFFICES ASSUME <<l.boot, l.sequence>> \in delivered  PROVE FALSE
  OBVIOUS
<1>1. Before(l.boot, l.sequence, l.boot, l.sequence)
  BY WritesLast
<1>2. l.boot \in Int /\ l.sequence \in Int
  BY DEF SendsLine, Appended, LineType
<1> QED  BY <1>1, <1>2, BeforeIsStrict

LEMMA FreshStep ==
    ASSUME Stepping, WrittenInv, FreshInv, NumberSets
    PROVE  FreshInv'
<1> SUFFICES ASSUME Strict'  PROVE Unread(conns') \cap delivered' = {}
  BY DEF FreshInv
<1>1. Strict /\ Unread(conns) \cap delivered = {}
  BY DEF Stepping, FreshInv
<1>2. CASE delivered' = delivered /\ Unread(conns') \subseteq Unread(conns)
  BY <1>1, <1>2
<1>3. ASSUME NEW l, SendsLine(l), delivered' = delivered,
             Unread(conns') \subseteq Unread(conns) \cup {<<l.boot, l.sequence>>}
      PROVE  Unread(conns') \cap delivered' = {}
  <2>1. <<l.boot, l.sequence>> \notin delivered
    BY <1>3, WrittenIsFresh
  <2> QED  BY <1>1, <1>3, <2>1
<1>4. ASSUME NEW p \in Unread(conns), delivered' = delivered \cup {p},
             Unread(conns') \subseteq Unread(conns), Strict => p \notin Unread(conns')
      PROVE  Unread(conns') \cap delivered' = {}
  BY <1>1, <1>4
<1> QED  BY <1>2, <1>3, <1>4 DEF NumberSets

-----------------------------------------------------------------------------
(* Counting what arrives                                                    *)

\* The registry's record after a line was read.
LEMMA ReadRecord ==
    ASSUME Stepping, WrittenInv, record \in Registry!NodeRecord,
           NEW c \in DOMAIN conns, ReadLine(c)
    PROVE  LET h == conns[c].lines[1]
           IN  /\ h.boot \in 1 .. Boot /\ h.sequence \in 0 .. issued[h.boot]
               /\ h.boot \in Nat /\ h.sequence \in Nat
               /\ record' = Registry!Observe(record, h.sequence, 0)
               /\ delivered' = delivered \cup {<<h.boot, h.sequence>>}
               /\ newest' = IF c > newest THEN c ELSE newest
               /\ overtaken' = (overtaken \/ c < newest)
               /\ issued' = issued
<1>1. UplinkFacts /\ conns \in Seq(Connection)
  BY DEF Stepping, UplinkFacts
<1>2. /\ c \in 1 .. Len(conns) /\ 1 \in 1 .. Len(conns[c].lines)
      /\ conns[c].lines[1] \in LineType
      /\ Head(conns[c].lines) = conns[c].lines[1]
  BY <1>1, ReadFacts
<1>3. PICK h : h = conns[c].lines[1]
  OBVIOUS
<1>4. /\ record' = Registry!Observe(record, h.sequence, 0)
      /\ delivered' = delivered \cup {<<h.boot, h.sequence>>}
      /\ newest' = IF c > newest THEN c ELSE newest
      /\ overtaken' = (overtaken \/ c < newest)
      /\ issued' = issued
  BY <1>2, <1>3 DEF ReadLine
<1>5. <<h.boot, h.sequence>> \in Unread(conns)
  BY <1>1, <1>2, <1>3, UnreadElement
<1>6. h.boot \in 1 .. Boot /\ h.sequence \in 0 .. issued[h.boot]
  BY <1>5 DEF WrittenInv, Written, Boot
<1>7. h.boot \in Nat /\ h.sequence \in Nat
  BY <1>2, <1>3 DEF LineType
<1> QED  BY <1>3, <1>4, <1>6, <1>7

LEMMA LastStep ==
    ASSUME Stepping, WrittenInv, LastInv, record \in Registry!NodeRecord,
           \A b \in 1 .. Boot : issued[b] \in 0 .. MaxSequence
    PROVE  LastInv'
<1>1. Boot \in Nat /\ Boot' \in Nat /\ Boot <= Boot'
  BY IssuingFacts DEF Stepping, UplinkFacts, Issuing
<1>2. CASE UNCHANGED gateway
  <2>1. record' = record /\ delivered' = delivered
    BY <1>2 DEF gateway
  <2>2. Registry!Known(record') <=> Registry!Known(record)
    BY <2>1
  <2> QED  BY <1>1, <2>1, <2>2 DEF LastInv
<1>3. CASE Reads
  <2>1. PICK c \in DOMAIN conns : ReadLine(c)
    BY <1>3 DEF Reads
  <2>2. PICK h : h = conns[c].lines[1]
    OBVIOUS
  <2>3. /\ h.boot \in 1 .. Boot /\ h.sequence \in Nat
        /\ record' = Registry!Observe(record, h.sequence, 0)
        /\ delivered' = delivered \cup {<<h.boot, h.sequence>>}
    BY <2>1, <2>2, ReadRecord
  <2>0. PICK status : status = Registry!SequenceStatus(record, h.sequence)
    OBVIOUS
  <2>4. /\ record'.messagesReceived = record.messagesReceived + 1
        /\ record'.lastSequence = IF status \in {"DUPLICATE", "OUT_OF_ORDER"}
                                  THEN record.lastSequence ELSE h.sequence
    BY <2>0, <2>3, ObserveResult
  <2>5. Registry!Known(record')
    BY <2>4, RecordFields DEF Registry!Known
  <2>6. \/ record'.lastSequence = h.sequence
        \/ record'.lastSequence = record.lastSequence /\ Registry!Known(record)
    <3>1. CASE ~Registry!Known(record)
      <4>1. status = "FIRST"
        BY <2>0, <2>3, <3>1, StatusCases
      <4> QED  BY <2>4, <4>1
    <3>2. CASE Registry!Known(record)
      BY <2>4, <3>2
    <3> QED  BY <3>1, <3>2
  <2>7. \E b \in 1 .. Boot : <<b, record'.lastSequence>> \in delivered'
    <3>1. CASE record'.lastSequence = h.sequence
      BY <2>3, <3>1
    <3>2. CASE record'.lastSequence = record.lastSequence /\ Registry!Known(record)
      BY <2>3, <3>2 DEF LastInv
    <3> QED  BY <2>6, <3>1, <3>2
  <2>8. \E b \in 1 .. Boot' : <<b, record'.lastSequence>> \in delivered'
    BY <1>1, <2>7
  <2> QED  BY <2>5, <2>8 DEF LastInv
<1> QED  BY <1>2, <1>3 DEF Stepping, Kinds, Idles, Uses, Restarts, Sends, SendsLine

\* All numbers are within the bounds, so the sets of them are finite.
LEMMA NumbersFinite ==
    ASSUME UplinkFacts, WrittenInv,
           delivered \subseteq (1 .. MaxIncarnations) \X (0 .. MaxSequence),
           \A b \in 1 .. Boot : issued[b] \in 0 .. MaxSequence
    PROVE  /\ IsFiniteSet(delivered) /\ IsFiniteSet(delivered \cup Unread(conns))
           /\ Cardinality(delivered) \in Nat
           /\ Cardinality(delivered \cup Unread(conns)) \in Nat
<1>1. /\ MaxIncarnations \in Nat /\ MaxSequence \in Nat /\ conns \in Seq(Connection)
      /\ Boot \in Nat /\ Boot <= MaxIncarnations
  BY DEF UplinkFacts
<1>2. IsFiniteSet((1 .. MaxIncarnations) \X (0 .. MaxSequence))
  <2>1. IsFiniteSet(1 .. MaxIncarnations) /\ IsFiniteSet(0 .. MaxSequence)
    BY <1>1, FS_Interval
  <2> QED  BY <2>1, FS_Product
<1>3. ASSUME NEW p \in Unread(conns)
      PROVE  p \in (1 .. MaxIncarnations) \X (0 .. MaxSequence)
  <2>1. PICK c \in 1 .. Len(conns) : \E i \in 1 .. Len(conns[c].lines) :
           p = <<conns[c].lines[i].boot, conns[c].lines[i].sequence>>
    BY <1>1, UnreadPick
  <2>2. PICK b, s : p = <<b, s>>
    BY <2>1
  <2>3. Written(issued, npc, Strict, b, s)
    BY <2>2 DEF WrittenInv
  <2>4. b \in 1 .. Boot /\ s \in 0 .. issued[b]
    BY <2>3 DEF Written, Boot
  <2>5. b \in 1 .. MaxIncarnations /\ s \in 0 .. MaxSequence
    BY <1>1, <2>4
  <2> QED  BY <2>2, <2>5
<1>4. delivered \cup Unread(conns) \subseteq (1 .. MaxIncarnations) \X (0 .. MaxSequence)
  BY <1>3
<1> QED  BY <1>2, <1>4, FS_Subset, FS_CardinalityType

\* A reading comes under way only with its attempt.
LEMMA AttemptStep ==
    ASSUME VirtualParts, VirtualParts', VirtualStep \/ UNCHANGED vnode
    PROVE  /\ Totals.attempts <= Totals'.attempts
           /\ Totals.attempts \in Nat /\ Totals'.attempts \in Nat
           /\ npc' = "delaying" /\ npc # "delaying" =>
                 Totals'.attempts = Totals.attempts + 1
<1>1. /\ Totals \in Counts /\ Totals' \in Counts
      /\ counts \in Counts /\ past \in Counts /\ counts' \in Counts
  <2>1. Totals' \in Counts
    BY DEF VirtualParts, Totals, Counts
  <2> QED  BY <2>1, TotalsFacts DEF VirtualParts
<1>2. Counting
  BY CountingHolds
<1>3. Totals.attempts \in Nat /\ Totals'.attempts \in Nat
  BY <1>1, CountsFacts
<1>4. PICK t, u : t = Totals /\ u = Totals'
  OBVIOUS
<1>5. t \in [{"samples", "attempts", "sent", "drops"} -> Nat]
  BY <1>1, <1>4, CountersAre DEF Counts
<1>6. \/ u = t
      \/ u = [t EXCEPT !.samples = @ + 1, !.drops = @ + 1]
      \/ u = [t EXCEPT !.samples = @ + 1, !.attempts = @ + 1]
      \/ u = [t EXCEPT !.sent = @ + 1]
  BY <1>2, <1>4 DEF Counting
<1>7. t.attempts <= u.attempts
  <2>1. t.attempts \in Nat
    BY <1>5
  <2>2. u.attempts = t.attempts \/ u.attempts = t.attempts + 1
    <3>1. CASE u = t
      BY <3>1
    <3>2. CASE u = [t EXCEPT !.samples = @ + 1, !.drops = @ + 1]
      BY <1>5, <3>2
    <3>3. CASE u = [t EXCEPT !.samples = @ + 1, !.attempts = @ + 1]
      BY <1>5, <3>3
    <3>4. CASE u = [t EXCEPT !.sent = @ + 1]
      BY <1>5, <3>4
    <3> QED  BY <1>6, <3>1, <3>2, <3>3, <3>4
  <2> QED  BY <2>1, <2>2
<1>8. ASSUME npc' = "delaying", npc # "delaying"
      PROVE  Totals'.attempts = Totals.attempts + 1
  <2>1. NodeSends
    BY <1>8
    DEF VirtualStep, NodeStep, SimulatorStep, NodeConnects, NodeConnectFails, NodeDrops,
        NodeWrites, NodeDrained, NodeDrainFails, NodeReconnects, NodeEnds, WriteStats,
        MeasurementStarts, FailureInjected, NodeRecovers, MeasurementEnds, StopAll,
        vnode, Cancelled
  <2>2. Totals' = [Totals EXCEPT !.samples = @ + 1, !.attempts = @ + 1]
    BY <1>1, <2>1, TotalsCounted DEF NodeSends
  <2> QED  BY <1>4, <1>5, <2>2
<1> QED  BY <1>3, <1>4, <1>7, <1>8

LEMMA CardinalityAdd ==
    ASSUME NEW S, IsFiniteSet(S), NEW p
    PROVE  /\ IsFiniteSet(S \cup {p}) /\ Cardinality(S \cup {p}) \in Nat
           /\ Cardinality(S) \in Nat /\ Cardinality(S \cup {p}) <= Cardinality(S) + 1
<1>1. /\ IsFiniteSet(S \cup {p})
      /\ Cardinality(S \cup {p}) = Cardinality(S) \/ Cardinality(S \cup {p}) = Cardinality(S) + 1
  BY FS_AddElement
<1>2. Cardinality(S \cup {p}) \in Nat /\ Cardinality(S) \in Nat
  BY <1>1, FS_CardinalityType
<1> QED  BY <1>1, <1>2

LEMMA CoverStep ==
    ASSUME Stepping, WrittenInv, FreshInv, NumberSets, CoverInv,
           delivered \subseteq (1 .. MaxIncarnations) \X (0 .. MaxSequence),
           \A b \in 1 .. Boot : issued[b] \in 0 .. MaxSequence,
           VirtualParts, VirtualParts', VirtualStep \/ UNCHANGED vnode
    PROVE  CoverInv'
<1> SUFFICES ASSUME ~Physical'  PROVE CoverInv'
  BY DEF CoverInv
<1> DEFINE D == delivered
           all == delivered \cup Unread(conns)
           waits == IF npc = "delaying" THEN 1 ELSE 0
<1>1. ~Physical /\ Strict /\ UplinkFacts
  BY DEF Stepping, Strict
<1>2. /\ record.messagesReceived = Cardinality(D)
      /\ Cardinality(all) + waits <= Totals.attempts
  BY <1>1 DEF CoverInv
<1>3. /\ IsFiniteSet(D) /\ IsFiniteSet(all)
      /\ Cardinality(D) \in Nat /\ Cardinality(all) \in Nat
  BY <1>1, NumbersFinite
<1>4. /\ Totals.attempts <= Totals'.attempts
      /\ Totals.attempts \in Nat /\ Totals'.attempts \in Nat
      /\ npc' = "delaying" /\ npc # "delaying" => Totals'.attempts = Totals.attempts + 1
  BY AttemptStep
<1>5. Unread(conns) \cap D = {}
  BY <1>1 DEF FreshInv
<1> DEFINE all2 == delivered' \cup Unread(conns')
           waits2 == IF npc' = "delaying" THEN 1 ELSE 0
<1>6. waits2 <= waits \/ (waits = 0 /\ waits2 = 1 /\ npc' = "delaying" /\ npc # "delaying")
  OBVIOUS
<1>7. waits \in Nat /\ waits2 \in Nat
  OBVIOUS
<1> SUFFICES /\ record'.messagesReceived = Cardinality(delivered')
             /\ Cardinality(all2) + waits2 <= Totals'.attempts
  BY DEF CoverInv
<1>8. ASSUME all2 \subseteq all  PROVE Cardinality(all2) + waits2 <= Totals'.attempts
  <2>1. Cardinality(all2) \in Nat /\ Cardinality(all2) <= Cardinality(all)
    BY <1>3, <1>8, FS_Subset, FS_CardinalityType
  <2> QED  BY <1>2, <1>3, <1>4, <1>6, <1>7, <2>1
<1>9. CASE UNCHANGED <<delivered, record>> /\ Unread(conns') \subseteq Unread(conns)
  <2>1. all2 \subseteq all
    BY <1>9
  <2> QED  BY <1>2, <1>8, <1>9, <2>1
<1>10. ASSUME NEW l, SendsLine(l), UNCHANGED <<delivered, record>>,
              Unread(conns') \subseteq Unread(conns) \cup {<<l.boot, l.sequence>>}
       PROVE  /\ record'.messagesReceived = Cardinality(delivered')
              /\ Cardinality(all2) + waits2 <= Totals'.attempts
  <2>1. npc = "delaying" /\ npc' # "delaying"
    BY <1>10 DEF SendsLine
  <2>2. all2 \subseteq all \cup {<<l.boot, l.sequence>>}
    BY <1>10
  <2>3. /\ IsFiniteSet(all \cup {<<l.boot, l.sequence>>})
        /\ Cardinality(all \cup {<<l.boot, l.sequence>>}) <= Cardinality(all) + 1
        /\ Cardinality(all \cup {<<l.boot, l.sequence>>}) \in Nat
    BY <1>3, CardinalityAdd
  <2>4. /\ Cardinality(all2) \in Nat
        /\ Cardinality(all2) <= Cardinality(all \cup {<<l.boot, l.sequence>>})
    BY <2>2, <2>3, FS_Subset, FS_CardinalityType
  <2>5. waits = 1 /\ waits2 = 0
    BY <2>1
  <2>6. Cardinality(all2) + waits2 <= Totals'.attempts
    BY <1>2, <1>3, <1>4, <2>3, <2>4, <2>5
  <2> QED  BY <1>2, <1>10, <2>6
<1>11. ASSUME NEW p \in Unread(conns), delivered' = delivered \cup {p},
              record'.messagesReceived = record.messagesReceived + 1,
              Unread(conns') \subseteq Unread(conns)
       PROVE  /\ record'.messagesReceived = Cardinality(delivered')
              /\ Cardinality(all2) + waits2 <= Totals'.attempts
  <2>1. p \notin D
    BY <1>5
  <2>2. Cardinality(delivered \cup {p}) = Cardinality(delivered) + 1
    BY <1>3, <2>1, FS_AddElement
  <2>3. all2 \subseteq all
    BY <1>11
  <2> QED  BY <1>2, <1>8, <1>11, <2>2, <2>3
<1> QED  BY <1>9, <1>10, <1>11 DEF NumberSets

-----------------------------------------------------------------------------
(* The last number observed                                                 *)

LEMMA PassedElement ==
    ASSUME NEW iss, NEW del, NEW b, NEW s, NEW a, NEW r
    PROVE  <<a, r>> \in Passed(iss, del, b, s) <=>
              /\ a \in 1 .. Len(iss) /\ r \in 0 .. MaxSequence
              /\ r < iss[a] /\ <<a, r>> \notin del /\ Before(a, r, b, s)
BY DEF Passed

LEMMA PassedPair ==
    ASSUME NEW iss, NEW del, NEW b, NEW s, NEW p \in Passed(iss, del, b, s)
    PROVE  \E a \in 1 .. Len(iss), r \in 0 .. MaxSequence : p = <<a, r>>
BY DEF Passed

LEMMA PassedFinite ==
    ASSUME NEW iss, Len(iss) \in Nat, NEW del, NEW b, NEW s
    PROVE  /\ IsFiniteSet(Passed(iss, del, b, s))
           /\ Cardinality(Passed(iss, del, b, s)) \in Nat
<1>1. MaxSequence \in Nat
  BY UplinkAssumption
<1>2. IsFiniteSet(1 .. Len(iss)) /\ IsFiniteSet(0 .. MaxSequence)
  BY <1>1, FS_Interval
<1>3. IsFiniteSet((1 .. Len(iss)) \X (0 .. MaxSequence))
  BY <1>2, FS_Product
<1>4. Passed(iss, del, b, s) \subseteq (1 .. Len(iss)) \X (0 .. MaxSequence)
  BY DEF Passed
<1>5. IsFiniteSet(Passed(iss, del, b, s))
  BY <1>3, <1>4, FS_Subset
<1> QED  BY <1>5, FS_CardinalityType

\* What was passed stays passed when more numbers are used ...
LEMMA PassedKept ==
    ASSUME NEW iss \in Seq(Nat), NEW new \in Seq(Nat), Len(iss) <= Len(new),
           \A d \in 1 .. Len(iss) : iss[d] <= new[d], NEW del, NEW b, NEW s
    PROVE  Cardinality(Passed(iss, del, b, s)) <= Cardinality(Passed(new, del, b, s))
<1>1. MaxSequence \in Nat /\ Len(iss) \in Nat /\ Len(new) \in Nat
  BY UplinkAssumption
<1>2. ASSUME NEW p \in Passed(iss, del, b, s)  PROVE p \in Passed(new, del, b, s)
  <2>1. PICK a \in 1 .. Len(iss), r \in 0 .. MaxSequence : p = <<a, r>>
    BY PassedPair
  <2>2. r < iss[a] /\ <<a, r>> \notin del /\ Before(a, r, b, s)
    BY <2>1, PassedElement
  <2>3. iss[a] \in Nat /\ new[a] \in Nat /\ iss[a] <= new[a] /\ a \in 1 .. Len(new)
    BY <1>1, ElementOfSeq
  <2>4. r < new[a]
    BY <1>1, <2>2, <2>3
  <2> QED  BY <2>1, <2>2, <2>3, <2>4, PassedElement
<1>3. IsFiniteSet(Passed(new, del, b, s))
  BY <1>1, PassedFinite
<1> QED  BY <1>2, <1>3, FS_Subset

\* ... and when a later number is observed.
LEMMA PassedAdvances ==
    ASSUME NEW iss \in Seq(Nat), NEW del, NEW a \in Nat, NEW r \in Nat,
           NEW b \in Nat, NEW s \in Nat, NotAfter(a, r, b, s)
    PROVE  Passed(iss, del, a, r) \subseteq Passed(iss, del \cup {<<b, s>>}, b, s)
<1> SUFFICES ASSUME NEW p \in Passed(iss, del, a, r)
             PROVE  p \in Passed(iss, del \cup {<<b, s>>}, b, s)
  OBVIOUS
<1>1. MaxSequence \in Nat /\ Len(iss) \in Nat
  BY UplinkAssumption
<1>2. PICK c \in 1 .. Len(iss), t \in 0 .. MaxSequence : p = <<c, t>>
  BY PassedPair
<1>3. t < iss[c] /\ <<c, t>> \notin del /\ Before(c, t, a, r)
  BY <1>2, PassedElement
<1>4. c \in Int /\ t \in Int
  BY <1>1
<1>5. Before(c, t, b, s)
  BY <1>3, <1>4 DEF NotAfter, Before
<1>6. <<c, t>> # <<b, s>>
  BY <1>4, <1>5, BeforeIsStrict
<1> QED  BY <1>2, <1>3, <1>5, <1>6, PassedElement

\* A gap skips numbers that were used, were not observed, and come after what
\* was passed before.
LEMMA PassedGap ==
    ASSUME NEW iss \in Seq(Nat), NEW del, NEW a \in Nat, NEW r \in Nat,
           NEW b \in 1 .. Len(iss), NEW s \in Nat, NotAfter(a, r, b, s),
           \A p \in del : NotAfter(p[1], p[2], a, r),
           s <= iss[b], iss[b] <= MaxSequence, NEW last \in Nat, r <= last, last + 1 < s
    PROVE  Cardinality(Passed(iss, del, a, r)) + (s - last - 1)
              <= Cardinality(Passed(iss, del \cup {<<b, s>>}, b, s))
<1> DEFINE old == Passed(iss, del, a, r)
           new == Passed(iss, del \cup {<<b, s>>}, b, s)
           skipped == {b} \X (last + 1 .. s - 1)
<1>1. MaxSequence \in Nat /\ Len(iss) \in Nat /\ b \in Nat /\ iss[b] \in Nat
  BY UplinkAssumption, ElementOfSeq
<1>2. /\ IsFiniteSet(old) /\ Cardinality(old) \in Nat
      /\ IsFiniteSet(new) /\ Cardinality(new) \in Nat
  BY <1>1, PassedFinite
<1>3. IsFiniteSet(skipped) /\ Cardinality(skipped) = s - last - 1
  <2>1. IsFiniteSet({b}) /\ Cardinality({b}) = 1
    BY FS_Singleton
  <2>2. /\ IsFiniteSet(last + 1 .. s - 1)
        /\ Cardinality(last + 1 .. s - 1) = s - last - 1
    <3>1. last + 1 \in Int /\ s - 1 \in Int /\ ~(last + 1 > s - 1)
          /\ (s - 1) - (last + 1) + 1 = s - last - 1
      OBVIOUS
    <3> QED  BY <3>1, FS_Interval
  <2>3. /\ IsFiniteSet(skipped)
        /\ Cardinality(skipped) = Cardinality({b}) * Cardinality(last + 1 .. s - 1)
    BY <2>1, <2>2, FS_Product
  <2> QED  BY <2>1, <2>2, <2>3
<1>4. ASSUME NEW x \in last + 1 .. s - 1
      PROVE  <<b, x>> \in new /\ <<b, x>> \notin old
  <2>1. x \in Nat /\ x > r /\ x < s /\ x < iss[b] /\ x \in 0 .. MaxSequence
    BY <1>1
  <2>2. ~NotAfter(b, x, a, r)
    BY <1>1, <2>1 DEF NotAfter
  <2>3. ~Before(b, x, a, r) /\ Before(b, x, b, s)
    BY <2>1, <2>2 DEF Before, NotAfter
  <2>4. <<b, x>> \notin del
    BY <2>2
  <2>5. <<b, x>> # <<b, s>>
    BY <2>1
  <2>6. <<b, x>> \in new
    <3>1. PICK e : e = del \cup {<<b, s>>}
      OBVIOUS
    <3>2. <<b, x>> \notin e
      BY <2>4, <2>5, <3>1
    <3>3. <<b, x>> \in Passed(iss, e, b, s)
      BY ONLY <2>1, <2>3, <3>2, b \in 1 .. Len(iss), PassedElement
    <3> QED  BY <3>1, <3>3
  <2>7. <<b, x>> \notin old
    BY <2>3, PassedElement
  <2> QED  BY <2>6, <2>7
<1>5. skipped \subseteq new /\ skipped \cap old = {}
  <2>1. \A p \in skipped : \E x \in last + 1 .. s - 1 : p = <<b, x>>
    OBVIOUS
  <2> HIDE DEF skipped, old, new
  <2> QED  BY <1>4, <2>1
<1>6. old \subseteq new
  BY <1>1, PassedAdvances
<1> HIDE DEF old, new, skipped
<1>7. /\ IsFiniteSet(old \cup skipped)
      /\ Cardinality(old \cup skipped) =
            Cardinality(old) + Cardinality(skipped) - Cardinality(old \cap skipped)
  BY <1>2, <1>3, FS_Union
<1>8. old \cap skipped = {} /\ Cardinality(old \cap skipped) = 0
  BY <1>5, FS_EmptySet
<1>9. Cardinality(old \cup skipped) <= Cardinality(new)
  BY <1>2, <1>5, <1>6, FS_Subset
<1>10. Cardinality(old) + (s - last - 1) <= Cardinality(new)
  BY <1>2, <1>3, <1>7, <1>8, <1>9
<1> QED  BY <1>10 DEF old, new

\* The lines that are left, and the one that is written, are after the last
\* number observed.
LEMMA LinesKept ==
    ASSUME Stepping, WrittenInv, ~Reads, NEW b, NEW s, <<b, s>> \in delivered,
           NEW nw, LinesAfter(conns, nw, b, s)
    PROVE  LinesAfter(conns', nw, b, s)
<1> SUFFICES ASSUME NEW c \in 1 .. Len(conns'), c >= nw,
                    NEW i \in 1 .. Len(conns'[c].lines)
             PROVE  NotAfter(b, s, conns'[c].lines[i].boot, conns'[c].lines[i].sequence)
  BY DEF LinesAfter
<1>1. UplinkFacts /\ conns \in Seq(Connection) /\ conns' \in Seq(Connection)
  BY ConnectionsTyped DEF Stepping, UplinkFacts
<1>2. ASSUME Shrunk(conns', conns)
      PROVE  \E j \in 1 .. Len(conns[c].lines) :
                c \in 1 .. Len(conns) /\ conns'[c].lines[i] = conns[c].lines[j]
  <2>1. Len(conns'[c].lines) > 0
    BY <1>1, ConnectionFacts
  <2>2. PICK k \in Nat : Moved(conns'[c].lines, conns[c].lines, k)
    BY <1>1, <1>2, <2>1, ShrunkPlaces
  <2>3. c \in 1 .. Len(conns)
    BY <1>1, <1>2, <2>1, ShrunkPlaces
  <2> QED  BY <2>2, <2>3 DEF Moved
<1>3. CASE Idles \/ Uses \/ Restarts
  <2>1. Shrunk(conns', conns)
    BY <1>1, <1>3, ShrunkSame DEF Idles, Uses, Restarts
  <2> QED  BY <1>2, <2>1 DEF LinesAfter
<1>4. CASE Sends
  <2>1. PICK l : SendsLine(l)
    BY <1>4 DEF Sends
  <2>2. NotAfter(b, s, l.boot, l.sequence)
    BY <2>1, WritesLast
  <2>3. Appended(conns', conns, l)
    BY <2>1 DEF SendsLine
  <2>4. \/ /\ c \in 1 .. Len(conns) /\ i \in 1 .. Len(conns[c].lines)
           /\ conns'[c].lines[i] = conns[c].lines[i]
        \/ conns'[c].lines[i] = l
    BY <1>1, <2>3, AppendedPlaces
  <2> QED  BY <2>2, <2>4 DEF LinesAfter
<1> QED  BY <1>3, <1>4 DEF Stepping, Kinds

LEMMA MarkKept ==
    ASSUME Stepping, WrittenInv, ~Reads, record \in Registry!NodeRecord,
           \A d \in 1 .. Boot : issued[d] \in 0 .. MaxSequence,
           NEW b, NEW s, Mark(conns, newest, record, delivered, issued, b, s)
    PROVE  Mark(conns', newest', record', delivered', issued', b, s)
<1>1. UNCHANGED gateway
  BY DEF Stepping, Kinds, Idles, Uses, Restarts, Sends, SendsLine
<1>2. record' = record /\ delivered' = delivered /\ newest' = newest
  BY <1>1 DEF gateway
<1>3. LinesAfter(conns', newest, b, s)
  BY LinesKept DEF Mark
<1>4. Cardinality(Passed(issued, delivered, b, s))
         <= Cardinality(Passed(issued', delivered, b, s))
  <2>1. issued \in Seq(Nat) /\ issued' \in Seq(Nat) /\ Len(issued) <= Len(issued')
        /\ \A d \in 1 .. Len(issued) : issued[d] <= issued'[d]
    BY IssuingFacts DEF Stepping, UplinkFacts, Issuing, Boot
  <2> QED  BY <2>1, PassedKept
<1>5. /\ record.estimatedMissing \in Nat
      /\ Cardinality(Passed(issued, delivered, b, s)) \in Nat
      /\ Cardinality(Passed(issued', delivered, b, s)) \in Nat
  <2>1. Len(issued) \in Nat /\ Len(issued') \in Nat
    BY DEF Stepping, UplinkFacts, Issuing, Boot
  <2> QED  BY <2>1, RecordFields, PassedFinite
<1>6. Follows(record, delivered, issued', b, s)
  BY <1>4, <1>5 DEF Mark, Follows
<1> QED  BY <1>2, <1>3, <1>6 DEF Mark

\* The line that is read was sent before all that are left in its connection
\* and in newer ones.
LEMMA HeadIsNext ==
    ASSUME Stepping, OrderInv, NEW c \in DOMAIN conns, ReadLine(c)
    PROVE  LinesAfter(conns', c, conns[c].lines[1].boot, conns[c].lines[1].sequence)
<1>1. UplinkFacts /\ conns \in Seq(Connection) /\ Len(conns) \in Nat
  BY DEF Stepping, UplinkFacts
<1>2. /\ c \in 1 .. Len(conns) /\ 1 \in 1 .. Len(conns[c].lines)
      /\ conns' \in Seq(Connection) /\ Len(conns') = Len(conns)
      /\ \A d \in 1 .. Len(conns') : \A i \in 1 .. Len(conns'[d].lines) :
            \E j \in 1 .. Len(conns[d].lines) :
               conns'[d].lines[i] = conns[d].lines[j] /\ (d = c => j > 1)
  BY <1>1, ReadFacts
<1> SUFFICES ASSUME NEW d \in 1 .. Len(conns'), d >= c,
                    NEW i \in 1 .. Len(conns'[d].lines)
             PROVE  NotAfter(conns[c].lines[1].boot, conns[c].lines[1].sequence,
                             conns'[d].lines[i].boot, conns'[d].lines[i].sequence)
  BY DEF LinesAfter
<1>3. PICK j \in 1 .. Len(conns[d].lines) :
         conns'[d].lines[i] = conns[d].lines[j] /\ (d = c => j > 1)
  BY <1>2
<1>4. FirstPlace(c, 1, d, j) /\ d \in 1 .. Len(conns)
  BY <1>1, <1>2, <1>3 DEF FirstPlace
<1>5. InOrder(conns[c].lines[1], conns[d].lines[j], Strict)
  BY <1>1, <1>2, <1>3, <1>4 DEF OrderInv, Ordered
<1> QED  BY <1>3, <1>5 DEF InOrder

\* The observation of (b, s), the first of all.
LEMMA FollowsFirst ==
    ASSUME NEW iss \in Seq(Nat), NEW b \in Nat, b > 0, NEW s \in Nat
    PROVE  Follows(Registry!Observe(Registry!Unseen, s, 0), {<<b, s>>}, iss, b, s)
<1>1. /\ Registry!Unseen \in Registry!NodeRecord /\ ~Registry!Known(Registry!Unseen)
      /\ Registry!Unseen.estimatedMissing = 0 /\ Registry!Unseen.sequenceResets = 0
  BY DEF Registry!Unseen, Registry!NodeRecord, Registry!HealthStatus, Registry!Known
<1>2. PICK u, status : u = Registry!Unseen /\ status = Registry!SequenceStatus(u, s)
  OBVIOUS
<1>3. status = "FIRST"
  BY <1>1, <1>2, StatusCases
<1>4. PICK o : o = Registry!Observe(u, s, 0)
  OBVIOUS
<1>5. o.lastSequence = s /\ o.estimatedMissing = 0 /\ o.sequenceResets = 0
  BY <1>1, <1>2, <1>3, <1>4, ObserveResult
<1>6. Cardinality(Passed(iss, {<<b, s>>}, b, s)) \in Nat
  BY PassedFinite
<1>7. Follows(o, {<<b, s>>}, iss, b, s)
  BY <1>5, <1>6 DEF Follows
<1> QED  BY <1>2, <1>4, <1>7

\* The observation of (b, s) after (a, r).  A reset is a new incarnation: in the
\* same one, only the number 0 itself comes before the number 0, and the
\* registry is not ahead of it.
LEMMA FollowsNext ==
    ASSUME NEW rec \in Registry!NodeRecord, Registry!Known(rec),
           NEW iss \in Seq(Nat), NEW del, NEW a \in Nat, NEW r \in Nat,
           NEW b \in 1 .. Len(iss), NEW s \in Nat, NotAfter(a, r, b, s),
           <<a, r>> \in del, \A p \in del : NotAfter(p[1], p[2], a, r),
           s <= iss[b], iss[b] <= MaxSequence, Follows(rec, del, iss, a, r)
    PROVE  Follows(Registry!Observe(rec, s, 0), del \cup {<<b, s>>}, iss, b, s)
<1>1. PICK last, resets, missing : /\ last = rec.lastSequence
                                   /\ resets = rec.sequenceResets
                                   /\ missing = rec.estimatedMissing
  OBVIOUS
<1>2. PICK status, o : /\ status = Registry!SequenceStatus(rec, s)
                       /\ o = Registry!Observe(rec, s, 0)
  OBVIOUS
<1>3. /\ last \in Nat /\ resets \in Nat /\ missing \in Nat
      /\ resets < a /\ last >= r /\ (<<a, 0>> \in del => last = r)
      /\ missing <= Cardinality(Passed(iss, del, a, r))
      /\ b \in Nat /\ Len(iss) \in Nat
  BY <1>1, RecordFields DEF Follows
<1>4. /\ s = last => status = "DUPLICATE"
      /\ s = last + 1 => status = "IN_ORDER"
      /\ s > last + 1 => status = "GAP"
      /\ s < last /\ s = 0 => status = "RESET"
      /\ s < last /\ s # 0 => status = "OUT_OF_ORDER"
  BY <1>1, <1>2, StatusCases
<1>5. /\ o.lastSequence = IF status \in {"DUPLICATE", "OUT_OF_ORDER"} THEN last ELSE s
      /\ o.estimatedMissing = IF status = "GAP" THEN missing + (s - last - 1)
                                                ELSE missing
      /\ o.sequenceResets = IF status = "RESET" THEN resets + 1 ELSE resets
  BY <1>1, <1>2, ObserveResult
<1>6. a < b \/ (a = b /\ r <= s)
  BY DEF NotAfter
<1>7. o.lastSequence >= s
  BY <1>3, <1>4, <1>5
<1>8. o.sequenceResets < b
  <2>1. CASE status # "RESET"
    BY <1>3, <1>5, <1>6, <2>1
  <2>2. CASE status = "RESET"
    <3>1. s = 0 /\ 0 < last
      BY <1>3, <1>4, <2>2
    <3>2. a < b
      <4> SUFFICES ASSUME a = b, r <= s  PROVE FALSE
        BY <1>6
      <4>1. r = 0
        BY <3>1
      <4>2. last = 0
        BY <1>3, <4>1
      <4> QED  BY <3>1, <4>2
    <3> QED  BY <1>3, <1>5, <2>2, <3>2
  <2> QED  BY <2>1, <2>2
<1>9. ASSUME <<b, 0>> \in del \cup {<<b, s>>}  PROVE o.lastSequence = s
  <2>1. CASE <<b, 0>> \in del
    <3>1. NotAfter(b, 0, a, r)
      BY <2>1
    <3>2. a = b
      BY <1>3, <1>6, <3>1 DEF NotAfter
    <3>3. last = r /\ r <= s
      BY <1>3, <1>6, <2>1, <3>2
    <3> QED  BY <1>3, <1>4, <1>5, <3>3
  <2>2. CASE <<b, 0>> = <<b, s>>
    <3>1. s = 0
      BY <2>2
    <3> QED  BY <1>3, <1>4, <1>5, <3>1
  <2> QED  BY <1>9, <2>1, <2>2
<1>10. PICK x, y : /\ x = Cardinality(Passed(iss, del, a, r))
                   /\ y = Cardinality(Passed(iss, del \cup {<<b, s>>}, b, s))
  OBVIOUS
<1>11. x \in Nat /\ y \in Nat /\ x <= y
  <2>1. Passed(iss, del, a, r) \subseteq Passed(iss, del \cup {<<b, s>>}, b, s)
    BY <1>3, PassedAdvances
  <2>2. /\ IsFiniteSet(Passed(iss, del \cup {<<b, s>>}, b, s))
        /\ x \in Nat /\ y \in Nat
    BY <1>3, <1>10, PassedFinite
  <2> QED  BY <1>10, <2>1, <2>2, FS_Subset
<1>12. o.estimatedMissing <= y
  <2>1. CASE status # "GAP"
    BY <1>3, <1>5, <1>10, <1>11, <2>1
  <2>2. CASE status = "GAP"
    <3>1. last + 1 < s
      BY <1>3, <1>4, <2>2
    <3>2. x + (s - last - 1) <= y
      BY <1>3, <1>10, <3>1, PassedGap
    <3> QED  BY <1>3, <1>5, <1>10, <1>11, <2>2, <3>2
  <2> QED  BY <2>1, <2>2
<1>13. Follows(o, del \cup {<<b, s>>}, iss, b, s)
  BY <1>7, <1>8, <1>9, <1>10, <1>12 DEF Follows
<1> QED  BY <1>2, <1>13

\* The number that is read becomes the last one.
LEMMA MarkRead ==
    ASSUME Stepping, WrittenInv, OrderInv, LastInv, MarkInv,
           record \in Registry!NodeRecord, ~overtaken', newest \in Nat,
           \A d \in 1 .. Boot : issued[d] \in 0 .. MaxSequence,
           NEW c \in DOMAIN conns, ReadLine(c)
    PROVE  LET h == conns[c].lines[1]
           IN  Mark(conns', newest', record', delivered', issued', h.boot, h.sequence)
<1>1. PICK h, b, s : h = conns[c].lines[1] /\ b = h.boot /\ s = h.sequence
  OBVIOUS
<1>2. /\ b \in 1 .. Boot /\ s \in 0 .. issued[b] /\ b \in Nat /\ s \in Nat
      /\ record' = Registry!Observe(record, s, 0)
      /\ delivered' = delivered \cup {<<b, s>>}
      /\ newest' = IF c > newest THEN c ELSE newest
      /\ overtaken' = (overtaken \/ c < newest)
      /\ issued' = issued
  BY <1>1, ReadRecord
<1>3. UplinkFacts /\ conns \in Seq(Connection) /\ issued \in Seq(Nat)
      /\ Boot \in Nat /\ Boot = Len(issued) /\ MaxSequence \in Nat
  BY DEF Stepping, UplinkFacts, Boot
<1>4. c \in 1 .. Len(conns) /\ 1 \in 1 .. Len(conns[c].lines) /\ c \in Nat
  <2>1. c \in 1 .. Len(conns) /\ 1 \in 1 .. Len(conns[c].lines)
    BY <1>3, ReadFacts
  <2> QED  BY <2>1
<1>5. ~overtaken /\ c >= newest /\ newest' = c
  <2>1. ~(overtaken \/ c < newest)
    BY <1>2, Zenon
  <2>2. ~(c < newest)
    BY <2>1
  <2> QED  BY <1>2, <1>4, <2>1, <2>2
<1>6. LinesAfter(conns', newest', b, s)
  BY <1>1, <1>5, HeadIsNext
<1>7. issued[b] \in Nat /\ s <= issued[b] /\ issued[b] <= MaxSequence
  BY <1>2, <1>3
<1>8. CASE ~Registry!Known(record)
  <2>1. record = Registry!Unseen /\ delivered = {}
    BY <1>8 DEF LastInv
  <2>2. delivered' = {<<b, s>>}
    BY <1>2, <2>1
  <2>3. Follows(record', delivered', issued', b, s)
    BY <1>2, <1>3, <2>1, <2>2, FollowsFirst
  <2>4. NotAfter(b, s, b, s)
    BY <1>2 DEF NotAfter
  <2> QED  BY <1>1, <1>6, <2>2, <2>3, <2>4 DEF Mark
<1>9. CASE Registry!Known(record)
  <2>1. PICK a \in 1 .. Boot : \E r \in 0 .. MaxSequence :
           Mark(conns, newest, record, delivered, issued, a, r)
    BY <1>5, <1>9 DEF MarkInv
  <2>2. PICK r \in 0 .. MaxSequence :
           Mark(conns, newest, record, delivered, issued, a, r)
    BY <2>1
  <2>3. /\ <<a, r>> \in delivered /\ \A p \in delivered : NotAfter(p[1], p[2], a, r)
        /\ LinesAfter(conns, newest, a, r)
        /\ Follows(record, delivered, issued, a, r)
    BY <2>2 DEF Mark
  <2>4. a \in Nat /\ r \in Nat
    BY <1>3
  <2>5. NotAfter(a, r, b, s)
    BY <1>1, <1>4, <1>5, <2>3 DEF LinesAfter
  <2>6. Follows(record', delivered', issued', b, s)
    BY <1>2, <1>3, <1>7, <1>9, <2>3, <2>4, <2>5, FollowsNext
  <2>7. ASSUME NEW p \in delivered'  PROVE NotAfter(p[1], p[2], b, s)
    <3>1. CASE p \in delivered
      <4>1. p[1] \in 1 .. Boot /\ p[2] \in 0 .. issued[p[1]]
        BY <3>1 DEF WrittenInv, Written, Boot
      <4>2. p[1] \in Int /\ p[2] \in Int
        BY <1>3, <4>1
      <4>3. NotAfter(p[1], p[2], a, r)
        BY <2>3, <3>1
      <4> QED  BY <1>2, <2>4, <2>5, <4>2, <4>3 DEF NotAfter
    <3>2. CASE p = <<b, s>>
      <4>1. p[1] = b /\ p[2] = s
        BY <3>2
      <4> QED  BY <1>2, <4>1 DEF NotAfter
    <3> QED  BY <1>2, <3>1, <3>2
  <2>8. <<b, s>> \in delivered'
    BY <1>2
  <2> QED  BY <1>1, <1>6, <2>6, <2>7, <2>8 DEF Mark
<1> QED  BY <1>8, <1>9

LEMMA MarkStep ==
    ASSUME Stepping, WrittenInv, OrderInv, LastInv, MarkInv,
           record \in Registry!NodeRecord, newest \in Nat,
           \A d \in 1 .. Boot : issued[d] \in 0 .. MaxSequence
    PROVE  MarkInv'
<1> SUFFICES ASSUME ~overtaken', Registry!Known(record')
             PROVE  \E b \in 1 .. Boot', s \in 0 .. MaxSequence :
                       Mark(conns', newest', record', delivered', issued', b, s)
  BY DEF MarkInv
<1>1. Boot \in Nat /\ Boot' \in Nat /\ Boot <= Boot' /\ MaxSequence \in Nat
  BY IssuingFacts DEF Stepping, UplinkFacts, Issuing
<1>2. CASE Reads
  <2>1. PICK c \in DOMAIN conns : ReadLine(c)
    BY <1>2 DEF Reads
  <2>2. PICK h : h = conns[c].lines[1]
    OBVIOUS
  <2>3. Mark(conns', newest', record', delivered', issued', h.boot, h.sequence)
    BY <2>1, <2>2, MarkRead
  <2>4. h.boot \in 1 .. Boot /\ h.sequence \in 0 .. issued[h.boot]
    BY <2>1, <2>2, ReadRecord
  <2>5. h.boot \in 1 .. Boot' /\ h.sequence \in 0 .. MaxSequence
    BY <1>1, <2>4
  <2> QED  BY <2>3, <2>5
<1>3. CASE ~Reads
  <2>1. UNCHANGED gateway
    BY <1>3 DEF Stepping, Kinds, Idles, Uses, Restarts, Sends, SendsLine
  <2>2. overtaken' = overtaken /\ record' = record
    BY <2>1 DEF gateway
  <2>3. ~overtaken /\ Registry!Known(record)
    BY <2>2
  <2>4. PICK b \in 1 .. Boot : \E s \in 0 .. MaxSequence :
           Mark(conns, newest, record, delivered, issued, b, s)
    BY <2>3 DEF MarkInv
  <2>5. PICK s \in 0 .. MaxSequence :
           Mark(conns, newest, record, delivered, issued, b, s)
    BY <2>4
  <2>6. Mark(conns', newest', record', delivered', issued', b, s)
    BY <1>3, <2>5, MarkKept
  <2>7. b \in 1 .. Boot'
    BY <1>1
  <2> QED  BY <2>6, <2>7
<1> QED  BY <1>2, <1>3

-----------------------------------------------------------------------------
(* The invariant                                                            *)

LEMMA UnseenFacts ==
    /\ Registry!Unseen \in Registry!NodeRecord /\ ~Registry!Known(Registry!Unseen)
    /\ Registry!Unseen.messagesReceived = 0 /\ Registry!Unseen.sequenceResets = 0
    /\ Registry!Unseen.estimatedMissing = 0
BY DEF Registry!Unseen, Registry!NodeRecord, Registry!HealthStatus, Registry!Known

LEMMA InitTypes == Init => TypeOK
<1> SUFFICES ASSUME Init  PROVE TypeOK
  OBVIOUS
<1>1. /\ MaxConnections \in Nat /\ MaxFaults \in Nat /\ MaxSequence \in Nat
      /\ MaxIncarnations \in Nat /\ MaxIncarnations > 0
  BY UplinkAssumption
<1>2. UplinkTypeOK
  <2>1. conns = << >> /\ issued = << 0 >> /\ UplinkInit
    BY DEF Init, UplinkInit
  <2>2. /\ conns \in Seq([lines : Seq([boot : Nat, sequence : Nat, whole : BOOLEAN]),
                          up : BOOLEAN])
        /\ Len(conns) = 0
    BY <2>1
  <2>3. issued \in Seq(0 .. MaxSequence) /\ Len(issued) = 1
    BY <1>1, <2>1
  <2>4. record \in Registry!NodeRecord
    BY <2>1, UnseenFacts DEF UplinkInit
  <2>5. client \in BOOLEAN /\ overtaken \in BOOLEAN
    BY <2>1, Zenon DEF UplinkInit
  <2>6. /\ faults \in 0 .. MaxFaults /\ newest \in 0 .. MaxConnections
        /\ delivered \subseteq (1 .. MaxIncarnations) \X (0 .. MaxSequence)
    BY <1>1, <2>1 DEF UplinkInit
  <2>7. Newest <= MaxConnections /\ Boot \in 1 .. MaxIncarnations
    BY <1>1, <2>2, <2>3 DEF Newest, Boot
  <2> QED  BY <2>2, <2>3, <2>4, <2>5, <2>6, <2>7, Zenon DEF UplinkTypeOK
<1>3. FirmwareTypeOK
  <2>1. /\ Initial \in Nat /\ Maximum \in Nat /\ Interval \in Nat
        /\ WifiTimeout \in Nat /\ SensorRetry \in Nat
    BY FirmwareAssumption
  <2>2. equipped \in [i2c : BOOLEAN, network : BOOLEAN]
    BY DEF Init, FirmwareInit
  <2>3. NoTimers \in [wifi : 0 .. Maximum, tcp : 0 .. Maximum,
                      sensor : 0 .. SensorRetry, sample : 0 .. Interval]
    BY <2>1 DEF NoTimers
  <2>4. /\ sensorReady = FALSE /\ wifi = FALSE /\ attempting = FALSE
        /\ wifiWas = FALSE /\ tcpWas = FALSE
    BY DEF Init, FirmwareInit
  <2>5. {sensorReady, wifi, attempting, wifiWas, tcpWas} \subseteq BOOLEAN
    BY <2>4, Zenon
  <2>6. /\ wifiBackoff = 0 /\ tcpBackoff = 0 /\ age \in 0 .. WifiTimeout
        /\ fpc \in {"off", "setup"} /\ timer = NoTimers
    BY <2>1 DEF Init, FirmwareInit
  <2> QED  BY <2>2, <2>3, <2>5, <2>6 DEF FirmwareTypeOK
<1>4. VirtualTypeOK
  <2>1. NoCounts \in Counts /\ Counts \subseteq [Counters -> Int]
    BY NoCountsFacts DEF Counts
  <2> QED  BY <2>1 DEF Init, VirtualInit, VirtualTypeOK, Counts
<1> QED  BY <1>2, <1>3, <1>4 DEF TypeOK

LEMMA InitInvariant == Init => IInv
<1> SUFFICES ASSUME Init  PROVE IInv
  OBVIOUS
<1>1. TypeOK
  BY InitTypes
<1>2. /\ conns = << >> /\ client = FALSE /\ issued = << 0 >> /\ delivered = {}
      /\ newest = 0 /\ record = Registry!Unseen
      /\ counts = NoCounts /\ past = NoCounts /\ baseline = NoCounts
      /\ npc \in {"off", "connecting"} /\ sim = "warmup"
  BY DEF Init, UplinkInit, VirtualInit
<1>3. NodeInv
  <2>1. Physical <=> npc = "off"
    BY DEF Init, Physical, Off
  <2> QED  BY <1>2, <2>1 DEF NodeInv, Newest
<1>4. Unread(conns) = {}
  BY <1>2 DEF Unread
<1>5. WrittenInv /\ FreshInv
  BY <1>2, <1>4 DEF WrittenInv, FreshInv
<1>6. OrderInv
  BY <1>2 DEF OrderInv, Ordered
<1>7. MarkInv /\ LastInv
  BY <1>2, UnseenFacts DEF MarkInv, LastInv
<1>8. Totals \in Counts /\ \A k \in Counters : Totals[k] = 0 /\ baseline[k] = 0
  BY <1>2, TotalsFacts, NoCountsFacts
<1>9. /\ Totals.samples = 0 /\ Totals.attempts = 0 /\ Totals.sent = 0 /\ Totals.drops = 0
      /\ baseline.samples = 0 /\ baseline.attempts = 0 /\ baseline.sent = 0
      /\ baseline.drops = 0
  BY <1>8, CountersAre
<1>10. CounterInv
  BY <1>2, <1>8, <1>9 DEF CounterInv, Balanced, Busy
<1>11. CoverInv
  <2>1. Cardinality(delivered) = 0 /\ Cardinality(delivered \cup Unread(conns)) = 0
    BY <1>2, <1>4, FS_EmptySet
  <2> QED  BY <1>2, <1>9, <2>1, UnseenFacts DEF CoverInv
<1>12. StatsRowBalanced
  BY <1>2 DEF StatsRowBalanced
<1> QED  BY <1>1, <1>3, <1>5, <1>6, <1>7, <1>10, <1>11, <1>12 DEF IInv

LEMMA InvariantStep == IInv /\ [Next]_vars => IInv'
<1> SUFFICES ASSUME IInv, [Next]_vars  PROVE IInv'
  OBVIOUS
<1>1. /\ UplinkTypeOK /\ FirmwareTypeOK /\ VirtualTypeOK /\ NodeInv
      /\ WrittenInv /\ OrderInv /\ FreshInv /\ MarkInv /\ LastInv
      /\ CounterInv /\ CoverInv /\ StatsRowBalanced
  BY DEF IInv, TypeOK
<1>2. Stepping
  BY <1>1, SteppingHolds
<1>3. /\ FirmwareStep \/ UNCHANGED firmware
      /\ VirtualStep \/ UNCHANGED vnode
  BY DEF Next, vars
<1>4. UplinkTypeOK' /\ NodeInv'
  BY <1>1, <1>2, UplinkTypeStep
<1>5. FirmwareTypeOK'
  BY <1>1, <1>3, FirmwareTypeStep
<1>6. VirtualTypeOK' /\ VirtualParts /\ VirtualParts'
  BY <1>1, <1>3, VirtualTypeStep, VirtualPartsType
<1>7. /\ record \in Registry!NodeRecord /\ newest \in Nat
      /\ delivered \subseteq (1 .. MaxIncarnations) \X (0 .. MaxSequence)
  BY <1>1 DEF UplinkTypeOK
<1>8. \A b \in 1 .. Boot : issued[b] \in 0 .. MaxSequence
  <2>1. issued \in Seq(0 .. MaxSequence) /\ Boot = Len(issued)
    BY <1>1 DEF UplinkTypeOK, Boot
  <2> QED  BY ONLY <2>1, ElementOfSeq
<1>9. WrittenInv'
  BY <1>1, <1>2, WrittenStep
<1>10. OrderInv'
  BY <1>1, <1>2, OrderStep
<1>11. NumberSets
  BY <1>1, <1>2, <1>7, NumberSetsHold
<1>12. FreshInv'
  BY <1>1, <1>2, <1>11, FreshStep
<1>13. MarkInv'
  BY <1>1, <1>2, <1>7, <1>8, MarkStep
<1>14. LastInv'
  BY <1>1, <1>2, <1>7, <1>8, LastStep
<1>15. CounterInv'
  BY <1>1, <1>3, <1>6, CountingHolds, CounterStep
<1>16. CoverInv'
  BY <1>1, <1>2, <1>3, <1>6, <1>7, <1>8, <1>11, CoverStep
<1>17. StatsRowBalanced'
  BY <1>1, <1>3, <1>6, StatsStep
<1> QED
  BY <1>4, <1>5, <1>6, <1>9, <1>10, <1>12, <1>13, <1>14, <1>15, <1>16, <1>17
  DEF IInv, TypeOK

LEMMA UplinkInvariant == Spec => []IInv
BY InitInvariant, InvariantStep, PTL DEF Spec

-----------------------------------------------------------------------------
(* The theorems                                                             *)

\* What the invariant says of the types.
LEMMA InvariantTypes ==
    ASSUME IInv
    PROVE  /\ UplinkFacts /\ NodeInv /\ WrittenInv /\ FreshInv /\ MarkInv /\ LastInv
           /\ conns \in Seq(Connection) /\ Boot \in Nat /\ Boot > 0
           /\ record \in Registry!NodeRecord /\ newest \in Nat
           /\ delivered \subseteq (1 .. MaxIncarnations) \X (0 .. MaxSequence)
           /\ \A b \in 1 .. Boot : issued[b] \in 0 .. MaxSequence
<1>1. UplinkTypeOK /\ NodeInv
  BY DEF IInv, TypeOK
<1>2. UplinkFacts
  BY <1>1, UplinkFactsHold
<1>3. \A b \in 1 .. Boot : issued[b] \in 0 .. MaxSequence
  <2>1. issued \in Seq(0 .. MaxSequence) /\ Boot = Len(issued)
    BY <1>1 DEF UplinkTypeOK, Boot
  <2> QED  BY ONLY <2>1, ElementOfSeq
<1> QED  BY <1>1, <1>2, <1>3 DEF IInv, UplinkTypeOK, UplinkFacts

\* The line a verdict is about.
LEMMA VerdictFacts ==
    ASSUME IInv, NEW c \in DOMAIN conns, Verdict(c) # "NONE"
    PROVE  /\ c \in 1 .. Len(conns) /\ 1 \in 1 .. Len(conns[c].lines)
           /\ Arrival(c) = conns[c].lines[1]
           /\ Arrival(c).boot \in 1 .. Boot /\ Arrival(c).sequence \in Nat
           /\ Arrival(c).boot \in Nat
           /\ <<Arrival(c).boot, Arrival(c).sequence>> \in Unread(conns)
           /\ Verdict(c) = Registry!SequenceStatus(record, Arrival(c).sequence)
<1>1. conns \in Seq(Connection) /\ WrittenInv
  BY InvariantTypes
<1>2. /\ conns[c].lines # << >>
      /\ Verdict(c) = Registry!SequenceStatus(record, Arrival(c).sequence)
  BY DEF Verdict
<1>3. c \in 1 .. Len(conns) /\ conns[c].lines \in Seq(LineType)
  BY <1>1, ConnectionFacts
<1>4. PICK x : x = conns[c].lines
  OBVIOUS
<1>5. 1 \in 1 .. Len(x) /\ Head(x) = x[1] /\ x[1] \in LineType
  <2>1. x \in Seq(LineType) /\ x # << >>
    BY <1>2, <1>3, <1>4
  <2> QED  BY ONLY <2>1, HeadTailProperties, EmptySeq, ElementOfSeq
<1>6. Arrival(c) = conns[c].lines[1]
  BY <1>4, <1>5 DEF Arrival
<1>7. <<Arrival(c).boot, Arrival(c).sequence>> \in Unread(conns)
  BY <1>1, <1>3, <1>4, <1>5, <1>6, UnreadElement
<1>8. Arrival(c).boot \in 1 .. Boot
  BY <1>1, <1>7 DEF WrittenInv, Written, Boot
<1>9. Arrival(c).sequence \in Nat /\ Arrival(c).boot \in Nat
  BY <1>4, <1>5, <1>6 DEF LineType
<1> QED  BY <1>2, <1>3, <1>4, <1>5, <1>6, <1>7, <1>8, <1>9

\* Types: whatever the firmware, the simulator, the network and the gateway do,
\* and however they interleave, the connections, counters, backoffs and the
\* registry's record keep their types and bounds.
THEOREM UplinkTypes == Spec => []TypeOK
<1>1. IInv => TypeOK
  BY DEF IInv
<1> QED  BY <1>1, UplinkInvariant, PTL

\* The registry counts a sequence reset only after the node restarted (0 after a
\* higher number in _classify_sequence), while no connection overtakes another.
THEOREM ResetIsRestart == Spec => []ResetMeansRestart
<1>1. IInv => ResetMeansRestart
  <2> SUFFICES ASSUME IInv, ~overtaken  PROVE record.sequenceResets < Boot
    BY DEF ResetMeansRestart
  <2>1. /\ MarkInv /\ LastInv /\ Boot \in Nat /\ Boot > 0
        /\ record \in Registry!NodeRecord
    BY InvariantTypes
  <2>2. CASE ~Registry!Known(record)
    BY <2>1, <2>2, UnseenFacts DEF LastInv
  <2>3. CASE Registry!Known(record)
    <3>1. PICK b \in 1 .. Boot : \E s \in 0 .. MaxSequence :
             Mark(conns, newest, record, delivered, issued, b, s)
      BY <2>1, <2>3 DEF MarkInv
    <3>2. record.sequenceResets < b
      BY <3>1 DEF Mark, Follows
    <3> QED  BY <2>1, <3>2, RecordFields
  <2> QED  BY <2>2, <2>3
<1> QED  BY <1>1, UplinkInvariant, PTL

\* A line that the registry is about to call OUT_OF_ORDER belongs to an
\* incarnation whose first line it never observed: once it has seen the 0, it
\* follows that incarnation's numbers.
THEOREM OutOfOrderIsMissedStart == Spec => []OutOfOrderMeansMissedStart
<1>1. IInv => OutOfOrderMeansMissedStart
  <2> SUFFICES ASSUME IInv, NEW c \in DOMAIN conns, Verdict(c) = "OUT_OF_ORDER",
                      ~overtaken, c >= newest, <<Arrival(c).boot, 0>> \in delivered
               PROVE  FALSE
    BY DEF OutOfOrderMeansMissedStart
  <2>1. PICK h, b, s, last : /\ h = Arrival(c) /\ b = h.boot /\ s = h.sequence
                             /\ last = record.lastSequence
    OBVIOUS
  <2>2. /\ c \in 1 .. Len(conns) /\ 1 \in 1 .. Len(conns[c].lines)
        /\ h = conns[c].lines[1] /\ b \in Nat /\ s \in Nat
        /\ Registry!SequenceStatus(record, s) = "OUT_OF_ORDER"
    BY <2>1, VerdictFacts
  <2>3. MarkInv /\ record \in Registry!NodeRecord /\ last \in Nat /\ Boot \in Nat
    BY <2>1, InvariantTypes, RecordFields
  <2>4. Registry!Known(record) /\ s < last
    <3>1. Registry!Known(record)
      BY <2>2, <2>3, StatusCases
    <3>2. ~(s = last) /\ ~(s = last + 1) /\ ~(s > last + 1)
      BY <2>1, <2>2, <2>3, <3>1, StatusCases
    <3> QED  BY <2>2, <2>3, <3>1, <3>2
  <2>5. PICK a \in 1 .. Boot : \E r \in 0 .. MaxSequence :
           Mark(conns, newest, record, delivered, issued, a, r)
    BY <2>3, <2>4 DEF MarkInv
  <2>6. PICK r \in 0 .. MaxSequence :
           Mark(conns, newest, record, delivered, issued, a, r)
    BY <2>5
  <2>7. /\ NotAfter(a, r, b, s)
        /\ <<a, 0>> \in delivered => last = r
    BY <2>1, <2>2, <2>6 DEF Mark, LinesAfter, Follows
  <2>8. <<b, 0>> \in delivered
    BY <2>1
  <2>9. NotAfter(b, 0, a, r)
    BY <2>6, <2>8 DEF Mark
  <2>10. a = b /\ r <= s
    BY <2>2, <2>3, <2>7, <2>9 DEF NotAfter
  <2>11. last = r
    BY <2>7, <2>8, <2>10
  <2> QED  BY <2>2, <2>3, <2>4, <2>10, <2>11
<1> QED  BY <1>1, UplinkInvariant, PTL

\* estimated_messages_missing is never more than what was really lost: every
\* number it counts was used up by the node, was passed, and was not observed.
THEOREM GapsAreRealLosses == Spec => []GapsAreLosses
<1>1. IInv => GapsAreLosses
  <2> SUFFICES ASSUME IInv, ~overtaken
               PROVE  record.estimatedMissing <= Cardinality(Lost)
    BY DEF GapsAreLosses
  <2>1. /\ MarkInv /\ LastInv /\ Boot \in Nat /\ Boot = Len(issued)
        /\ record \in Registry!NodeRecord /\ MaxSequence \in Nat
    BY InvariantTypes, UplinkAssumption DEF Boot
  <2>2. IsFiniteSet(Lost) /\ Cardinality(Lost) \in Nat
    <3>1. IsFiniteSet(1 .. Boot) /\ IsFiniteSet(0 .. MaxSequence)
      BY <2>1, FS_Interval
    <3>2. IsFiniteSet((1 .. Boot) \X (0 .. MaxSequence))
      BY <3>1, FS_Product
    <3>3. Lost \subseteq (1 .. Boot) \X (0 .. MaxSequence)
      BY DEF Lost
    <3>4. IsFiniteSet(Lost)
      BY <3>2, <3>3, FS_Subset
    <3> QED  BY <3>4, FS_CardinalityType
  <2>3. CASE ~Registry!Known(record)
    <3>1. record.estimatedMissing = 0
      BY <2>1, <2>3, UnseenFacts DEF LastInv
    <3> QED  BY <2>2, <3>1
  <2>4. CASE Registry!Known(record)
    <3>1. PICK b \in 1 .. Boot : \E s \in 0 .. MaxSequence :
             Mark(conns, newest, record, delivered, issued, b, s)
      BY <2>1, <2>4 DEF MarkInv
    <3>2. PICK s \in 0 .. MaxSequence :
             Mark(conns, newest, record, delivered, issued, b, s)
      BY <3>1
    <3>3. record.estimatedMissing <= Cardinality(Passed(issued, delivered, b, s))
      BY <3>2 DEF Mark, Follows
    <3>4. Passed(issued, delivered, b, s) \subseteq Lost
      BY <2>1 DEF Passed, Lost
    <3>5. /\ Cardinality(Passed(issued, delivered, b, s)) <= Cardinality(Lost)
          /\ Cardinality(Passed(issued, delivered, b, s)) \in Nat
      BY <2>1, <2>2, <3>4, FS_Subset, PassedFinite
    <3> QED  BY <2>1, <2>2, <3>3, <3>5, RecordFields
  <2> QED  BY <2>3, <2>4
<1> QED  BY <1>1, UplinkInvariant, PTL

\* A DUPLICATE is never a repetition by the network or by a virtual node that was
\* not restarted: it is the number of another incarnation, or one the firmware
\* wrote again after a failed write.
THEOREM DuplicateIsExplained == Spec => []DuplicateExplained
<1>1. IInv => DuplicateExplained
  <2> SUFFICES ASSUME IInv, NEW c \in DOMAIN conns, Verdict(c) = "DUPLICATE"
               PROVE  \/ \E b \in 1 .. Boot :
                            /\ b # Arrival(c).boot
                            /\ <<b, Arrival(c).sequence>> \in delivered
                      \/ Physical /\ faults > 0
    BY DEF DuplicateExplained
  <2>1. PICK a, s : a = Arrival(c).boot /\ s = Arrival(c).sequence
    OBVIOUS
  <2>2. /\ s \in Nat /\ <<a, s>> \in Unread(conns)
        /\ Registry!SequenceStatus(record, s) = "DUPLICATE"
    BY <2>1, VerdictFacts
  <2>3. LastInv /\ FreshInv /\ record \in Registry!NodeRecord /\ UplinkFacts
    BY InvariantTypes
  <2>4. Registry!Known(record)
    BY <2>2, <2>3, StatusCases
  <2>5. s = record.lastSequence
    <3>1. PICK last : last = record.lastSequence
      OBVIOUS
    <3>2. /\ last \in Nat /\ ~(s = last + 1) /\ ~(s > last + 1)
          /\ ~(s < last /\ s = 0) /\ ~(s < last /\ s # 0)
      BY <2>2, <2>3, <2>4, <3>1, StatusCases, RecordFields
    <3> QED  BY <2>2, <3>1, <3>2
  <2>6. PICK b \in 1 .. Boot : <<b, s>> \in delivered
    BY <2>3, <2>4, <2>5 DEF LastInv
  <2>7. CASE b # a
    BY <2>1, <2>6, <2>7
  <2>8. CASE b = a
    <3>1. ~Strict
      BY <2>2, <2>3, <2>6, <2>8 DEF FreshInv
    <3> QED  BY <2>3, <3>1 DEF Strict, UplinkFacts
  <2> QED  BY <2>7, <2>8
<1> QED  BY <1>1, UplinkInvariant, PTL

\* The counters of a virtual node add up over all its incarnations, and the
\* gateway never observes more readings than were counted as attempts, nor one
\* of them twice, through cancellations, restarts and lost connections.
THEOREM AttemptsCover == Spec => []AttemptsCoverDelivery
<1>1. IInv => AttemptsCoverDelivery
  <2> SUFFICES ASSUME IInv, npc # "off"  PROVE AttemptsCoverDelivery
    BY DEF AttemptsCoverDelivery
  <2>1. ~Physical /\ CounterInv /\ CoverInv /\ VirtualParts
    BY VirtualPartsType DEF IInv, NodeInv, TypeOK
  <2>2. /\ Totals.samples \in Nat /\ Totals.attempts \in Nat
        /\ Totals.sent \in Nat /\ Totals.drops \in Nat
    <3>1. Totals \in Counts
      BY <2>1, TotalsFacts DEF VirtualParts
    <3> QED  BY <3>1, CountsFacts
  <2>3. /\ Totals.samples = Totals.attempts + Totals.drops
        /\ Totals.sent + Busy <= Totals.attempts
    BY <2>1 DEF CounterInv, Balanced
  <2>4. Totals.sent <= Totals.attempts
    BY <2>2, <2>3, BusyFacts
  <2>5. /\ record.messagesReceived = Cardinality(delivered)
        /\ Cardinality(delivered \cup Unread(conns))
              + (IF npc = "delaying" THEN 1 ELSE 0) <= Totals.attempts
    BY <2>1 DEF CoverInv
  <2>6. /\ IsFiniteSet(delivered \cup Unread(conns))
        /\ Cardinality(delivered) \in Nat
        /\ Cardinality(delivered \cup Unread(conns)) \in Nat
    BY InvariantTypes, NumbersFinite
  <2>7. Cardinality(delivered) <= Cardinality(delivered \cup Unread(conns))
    <3>1. delivered \subseteq delivered \cup Unread(conns)
      OBVIOUS
    <3> QED  BY <2>6, <3>1, FS_Subset
  <2>8. Cardinality(delivered) <= Totals.attempts
    BY <2>2, <2>5, <2>6, <2>7
  <2> QED  BY <2>3, <2>4, <2>5, <2>8 DEF AttemptsCoverDelivery
<1> QED  BY <1>1, UplinkInvariant, PTL

\* The row of node_stats.csv is consistent although its baseline and its totals
\* are read while readings may be under way: no counter is negative, samples are
\* attempts and drops, and at most one reading was sent without an attempt.
THEOREM StatsRow == Spec => []StatsRowBalanced
<1>1. IInv => StatsRowBalanced
  BY DEF IInv
<1> QED  BY <1>1, UplinkInvariant, PTL
=============================================================================

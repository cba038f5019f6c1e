--------------------------- MODULE AnalysisProofs ---------------------------
(***************************************************************************)
(* Proofs about RunAnalysis: what the analysis may conclude from the        *)
(* collector's file and from equal counters.                                *)
(***************************************************************************)
EXTENDS RunAnalysis, ForwarderProofs, WellFoundedInduction

\* Every upstream message was another record, and together they hold the sent
\* readings, each once.
ConfirmedInv ==
    /\ IsFiniteSet(confirmed) /\ Cardinality(confirmed) = stats.upstreamMessages
    /\ \A r \in confirmed : r.readings # {} /\ r.readings \subseteq sent
    /\ \A i \in sent : \E r \in confirmed : i \in r.readings
    /\ \A r, s \in confirmed : r # s => r.readings \cap s.readings = {}

\* Nothing else is on the wire but the record being sent, and the collector has
\* counted every line that it has written.
FileInv ==
    /\ ~cancelled => \A k \in 1 .. Len(Wire) : Wire[k] \in confirmed \cup {inflight}
    /\ ~restarted => Len(received) <= counted

ParityInv == ConfirmedInv /\ FileInv

-----------------------------------------------------------------------------
(* Equal counters                                                           *)

LEMMA ParityInit == Init => ParityInv
<1> SUFFICES ASSUME Init PROVE ParityInv
  OBVIOUS
<1>1. received = << >> /\ channel = << >> /\ << >> \in Seq(Record) /\ Len(<< >>) = 0
  BY EmptySeq DEF Init
<1>2. Len(Wire) = 0
  BY <1>1, Spliced DEF Wire
<1>3. Len(received) = 0 /\ counted = 0
  BY <1>1 DEF Init
<1>4. IsFiniteSet(confirmed) /\ Cardinality(confirmed) = stats.upstreamMessages
  BY FS_EmptySet DEF Init
<1>5. ConfirmedInv
  BY <1>4 DEF Init, ConfirmedInv
<1>6. QED  BY <1>2, <1>3, <1>5 DEF ParityInv, FileInv

\* A worker between two records has nothing on the wire to confirm.
LEMMA IdleNotOnWire ==
    ASSUME IInv, ~Carrying
    PROVE  \A k \in 1 .. Len(Wire) : Wire[k] # inflight
<1>1. inflight.readings = {}
  BY NoRecordType DEF IInv, ControlInv
<1>2. \A k \in 1 .. Len(Wire) : Wire[k].readings # {}
  BY DEF IInv, WireInv, OnWay, RecordOK, HasEnds
<1>3. QED  BY <1>1, <1>2

\* drain() returns: the record is a new one, and counts as sent.
LEMMA ConfirmedDrained ==
    ASSUME IInv, ConfirmedInv, Drained
    PROVE  ConfirmedInv'
<1>1. /\ confirmed' = confirmed \cup {inflight} /\ sent' = sent \cup inflight.readings
      /\ stats' = [stats EXCEPT !.upstreamMessages = @ + 1] /\ wpc = "drain"
  BY DEF Drained
<1>2. stats'.upstreamMessages = stats.upstreamMessages + 1
  BY <1>1 DEF IInv, TypeOK, UpstreamStats
<1>3. inflight.readings # {} /\ inflight.readings \subseteq Nat
  <2>1. RecordInv(inflight) /\ inflight \in Record
    BY <1>1 DEF IInv, ControlInv, Carrying, Sending, TypeOK
  <2>2. QED  BY <2>1 DEF RecordInv, RecordOK, HasEnds, Record
<1>4. sent \cap inflight.readings = {}
  BY <1>3 DEF IInv, OrderInv, Before
<1>5. inflight \notin confirmed
  BY <1>3, <1>4 DEF ConfirmedInv
<1>6. IsFiniteSet(confirmed') /\ Cardinality(confirmed') = stats'.upstreamMessages
  BY <1>1, <1>2, <1>5, FS_AddElement DEF ConfirmedInv
<1>7. \A r \in confirmed' : r.readings # {} /\ r.readings \subseteq sent'
  BY <1>1, <1>3 DEF ConfirmedInv
<1>8. \A i \in sent' : \E r \in confirmed' : i \in r.readings
  BY <1>1 DEF ConfirmedInv
<1>9. \A r, s \in confirmed' : r # s => r.readings \cap s.readings = {}
  BY <1>1, <1>4 DEF ConfirmedInv
<1>10. QED  BY <1>6, <1>7, <1>8, <1>9 DEF ConfirmedInv

LEMMA ConfirmedStep ==
    ASSUME IInv, ConfirmedInv, [Next]_vars
    PROVE  ConfirmedInv'
<1>1. ASSUME UNCHANGED <<confirmed, sent>>, stats'.upstreamMessages = stats.upstreamMessages
      PROVE  ConfirmedInv'
  BY <1>1 DEF ConfirmedInv
<1>2. ASSUME Accepted \/ TakeRaw \/ TakeReading \/ WindowTimeout \/ TakeStop PROVE ConfirmedInv'
  BY <1>1, <1>2 DEF Accepted, TrySubmitAccepts, TakeRaw, TakeReading, WindowTimeout, TakeStop,
     history, report
<1>3. ASSUME StopTimesOut PROVE ConfirmedInv'
  <2>1. stats \in UpstreamStats /\ UNCHANGED <<confirmed, sent>>
        /\ stats' = [stats EXCEPT !.recordsAbandoned = @ + Abandoned]
    BY <1>3 DEF StopTimesOut, IInv, TypeOK
  <2>2. stats'.upstreamMessages = stats.upstreamMessages
    BY <2>1 DEF UpstreamStats
  <2>3. QED  BY <1>1, <2>1, <2>2
<1>4. ASSUME Quiet PROVE ConfirmedInv'
  BY <1>1, <1>4 DEF Quiet
<1>5. QED  BY <1>2, <1>3, <1>4, ConfirmedDrained, StepKinds DEF IInv

\* What is on the wire was counted as sent, or is being sent.
LEMMA WireConfirmed ==
    ASSUME IInv, TypeOK', FileInv, [Next]_vars, ~cancelled'
    PROVE  \A k \in 1 .. Len(Wire') : Wire'[k] \in confirmed' \cup {inflight'}
<1>0. ~cancelled
  <2>1. ASSUME StopTimesOut PROVE FALSE
    BY <2>1 DEF StopTimesOut
  <2>2. ASSUME Accepted \/ TakeRaw \/ TakeReading \/ WindowTimeout \/ TakeStop \/ Drained
        PROVE  cancelled' = cancelled
    BY <2>2 DEF Accepted, TrySubmitAccepts, TakeRaw, TakeReading, WindowTimeout, TakeStop,
       Drained, stopper
  <2>3. Quiet => cancelled' = cancelled
    BY DEF Quiet
  <2>4. QED  BY <2>1, <2>2, <2>3, StepKinds DEF IInv
<1>1. PICK n \in 0 .. Len(Wire) : WireStepped(n)
  BY WireKinds DEF IInv
<1>2. n \in Nat /\ \A k \in 1 .. n : k \in 1 .. Len(Wire)
  BY WireFacts DEF IInv
<1>3. \A k \in 1 .. Len(Wire) : Wire[k] \in confirmed \cup {inflight}
  BY <1>0 DEF FileInv
<1>4. \A k \in 1 .. Len(Wire) : Wire[k] \in confirmed' \cup {inflight'}
  <2>1. ASSUME Accepted PROVE UNCHANGED <<confirmed, inflight>>
    BY <2>1 DEF Accepted, TrySubmitAccepts, history
  <2>2. ASSUME TakeRaw \/ TakeReading \/ WindowTimeout \/ TakeStop
        PROVE  ~Carrying /\ confirmed' = confirmed
    BY <2>2 DEF TakeRaw, TakeReading, WindowTimeout, TakeStop, MayTake, history, Carrying, Sending
  <2>3. ASSUME Drained PROVE confirmed' = confirmed \cup {inflight}
    BY <2>3 DEF Drained
  <2>4. ASSUME Quiet PROVE UNCHANGED <<confirmed, inflight>>
    BY <2>4 DEF Quiet
  <2>5. ASSUME StopTimesOut PROVE FALSE
    BY <2>5 DEF StopTimesOut
  <2>6. QED  BY <1>3, <2>1, <2>2, <2>3, <2>4, <2>5, IdleNotOnWire, StepKinds DEF IInv
<1>5. CASE Len(Wire') = n
  BY <1>1, <1>2, <1>4, <1>5 DEF WireStepped
<1>6. CASE Len(Wire') = n + 1 /\ Wire'[n + 1] = inflight /\ Quiet
  <2>1. inflight' = inflight
    BY <1>6 DEF Quiet
  <2>2. \A k \in 1 .. n + 1 : k \in 1 .. n \/ k = n + 1
    BY <1>2
  <2>3. \A k \in 1 .. n : Wire'[k] = Wire[k]
    BY <1>1 DEF WireStepped
  <2>4. QED  BY <1>2, <1>4, <1>6, <2>1, <2>2, <2>3
<1>7. QED  BY <1>1, <1>5, <1>6 DEF WireStepped

\* The collector counts a line before it writes it.
LEMMA CountedStep ==
    ASSUME IInv, FileInv, [Next]_vars, ~restarted'
    PROVE  Len(received') <= counted'
<1>0. received \in Seq(Record) /\ channel \in Seq(Record) /\ counted \in Nat /\ Len(received) \in Nat
  BY LenProperties DEF IInv, TypeOK
<1>1. CASE CollectorReads
  <2>1. /\ received' = Append(received, Head(channel)) /\ counted' = counted + 1
        /\ ~restarted /\ channel # << >>
    BY <1>1 DEF CollectorReads, CollectorHasLine
  <2>2. Len(received') = Len(received) + 1
    <3>1. Head(channel) \in Record
      BY <1>0, <2>1, HeadTailProperties
    <3>2. QED  BY <1>0, <2>1, <3>1, AppendProperties
  <2>3. QED  BY <1>0, <2>1, <2>2 DEF FileInv
<1>2. CASE CollectorAppendFails
  <2>1. counted' = counted + 1 /\ UNCHANGED <<received, restarted>>
    BY <1>2 DEF CollectorAppendFails
  <2>2. QED  BY <1>0, <2>1 DEF FileInv
<1>3. CASE CollectorStarts
  <2>1. counted' = 0 /\ received' = << >>
    BY <1>3 DEF CollectorStarts, link
  <2>2. QED  BY <2>1, EmptySeq
<1>4. ASSUME UNCHANGED <<received, counted, restarted>> PROVE Len(received') <= counted'
  BY <1>4 DEF FileInv
<1>5. CASE Accepted \/ TrySubmitDrops \/ WorkerWaits \/ TakeRaw \/ TakeReading \/ WindowTimeout
           \/ TakeStop
  BY <1>4, <1>5 DEF Accepted, TrySubmitAccepts, TrySubmitDrops, WorkerWaits, TakeRaw,
     TakeReading, WindowTimeout, TakeStop, network, link, collector, output
<1>6. CASE WriteReused \/ ConnectAndWrite \/ ConnectFails \/ Drained \/ DrainFails \/ BackoffEnds
  BY <1>4, <1>6 DEF WriteReused, ConnectAndWrite, ConnectFails, Drained, DrainFails, BackoffEnds,
     network, link, collector, output
<1>7. CASE StopBegins \/ StopStep
  BY <1>4, <1>7 DEF StopBegins, StopStep, StopPuts, StopJoins, StopTimesOut, StopFindsDead,
     StopCloses, network, link, collector, output
<1>8. CASE ConnectionBreaks \/ BreakNoticed \/ CollectorStalls \/ CollectorResumes \/ Tick
           \/ Terminated \/ UNCHANGED vars
  BY <1>4, <1>8 DEF ConnectionBreaks, BreakNoticed, CollectorStalls, CollectorResumes, Tick,
     Terminated, vars, network, link, collector, output
<1>9. QED
  BY <1>1, <1>2, <1>3, <1>5, <1>6, <1>7, <1>8 DEF Next, WorkerStep, Environment, Accepted

\* At admission every line of the file is a counted record, and what was counted
\* is what was accepted.
LEMMA AdmittedFacts ==
    ASSUME IInv, ParityInv, Admitted
    PROVE  /\ received \in Seq(Record) /\ DOMAIN received = 1 .. Len(received)
           /\ Len(received) \in Nat /\ Len(received) <= Cardinality(confirmed)
           /\ counted = Cardinality(confirmed)
           /\ \A k \in 1 .. Len(received) : received[k] \in confirmed
           /\ sent = Enqueued \ ExcludedReadings
<1>0. /\ spc = "stopped" /\ stats.recordsAbandoned = 0 /\ ~restarted
      /\ stats.upstreamMessages = counted
  BY DEF Admitted
<1>1. ~cancelled /\ wpc = "done"
  BY <1>0 DEF IInv, ControlInv, TypeOK
<1>2. /\ received \in Seq(Record) /\ DOMAIN received = 1 .. Len(received)
      /\ Len(received) \in Nat
  BY LenProperties DEF IInv, TypeOK
<1>3. \A k \in 1 .. Len(received) : k \in 1 .. Len(Wire) /\ Wire[k] = received[k]
  BY WireFacts DEF IInv
<1>4. ~Carrying
  BY <1>1 DEF Carrying, Sending
<1>5. \A k \in 1 .. Len(received) : received[k] \in confirmed
  BY <1>1, <1>3, <1>4, IdleNotOnWire DEF ParityInv, FileInv
<1>6. sent = Enqueued \ ExcludedReadings
  <2>1. Enqueued = ExcludedReadings \cup sent
    BY <1>1, DoneIsEmpty DEF IInv, PlaceInv
  <2>2. sent \cap ExcludedReadings = {}
    BY DEF IInv, OrderInv, Included, IncludedIn, ExcludedReadings
  <2>3. QED  BY <2>1, <2>2
<1>7. QED  BY <1>0, <1>2, <1>5, <1>6 DEF ParityInv, ConfirmedInv, FileInv

\* Of the runs that the admission gates on what was forwarded let pass, exactly
\* those are complete whose file is as long as the collector's count and repeats
\* no record, however often the connection broke (_scientific_admission compares
\* upstream_messages with messages_received).
THEOREM ParityIsDelivery == Spec => []ParityMeansDelivery
<1>1. ASSUME IInv, ParityInv, Admitted PROVE Complete <=> Traceless
  <2> DEFINE lines == 1 .. Len(received)
             f == [k \in lines |-> received[k]]
  <2>0. /\ received \in Seq(Record) /\ DOMAIN received = lines
        /\ Len(received) \in Nat /\ Len(received) <= Cardinality(confirmed)
        /\ counted = Cardinality(confirmed)
        /\ \A k \in lines : received[k] \in confirmed
        /\ sent = Enqueued \ ExcludedReadings
    BY <1>1, AdmittedFacts
  <2>1. IsFiniteSet(confirmed) /\ IsFiniteSet(lines) /\ Cardinality(lines) = Len(received)
    BY <1>1, <2>0, FS_Interval DEF ParityInv, ConfirmedInv
  <2>2. f \in [lines -> confirmed] /\ \A k \in lines : f[k] = received[k]
    BY <2>0
  <2>3. Cardinality(confirmed) \in Nat
    BY <2>1, FS_CardinalityType
  <2> HIDE DEF f, lines
  <2>4. ASSUME Traceless PROVE Complete
    <3>1. Cardinality(lines) = Cardinality(confirmed)
      BY <2>0, <2>1, <2>4 DEF Traceless
    <3>2. f \in Injection(lines, confirmed)
      BY <2>0, <2>2, <2>4 DEF Traceless, Injection, IsInjective
    <3>3. f \in Surjection(lines, confirmed)
      BY ONLY <2>1, <3>1, <3>2, FS_Injection
    <3>4. \A r \in confirmed : \E k \in lines : received[k] = r
      BY <2>2, <3>3 DEF Surjection
    <3>5. \A i \in sent : \E k \in lines : i \in received[k].readings
      BY <1>1, <3>4 DEF ParityInv, ConfirmedInv
    <3>6. \A k \in lines : received[k].readings \subseteq sent
      BY <1>1, <2>0 DEF ParityInv, ConfirmedInv
    <3>7. UNION {received[k].readings : k \in lines} = sent
      BY <3>5, <3>6
    <3>8. QED  BY <2>0, <3>7 DEF Complete
  <2>5. ASSUME Complete PROVE Traceless
    <3>1. \A i \in sent : \E k \in lines : i \in received[k].readings
      BY <2>0, <2>5 DEF Complete
    <3>2. ASSUME NEW r \in confirmed PROVE \E k \in lines : f[k] = r
      <4>1. PICK i \in r.readings : i \in sent
        BY <1>1 DEF ParityInv, ConfirmedInv
      <4>2. PICK k \in lines : i \in received[k].readings
        BY <3>1, <4>1
      <4>3. received[k] = r
        BY <1>1, <2>0, <4>1, <4>2 DEF ParityInv, ConfirmedInv
      <4>4. QED  BY <2>2, <4>3
    <3>3. f \in Surjection(lines, confirmed)
      BY <2>2, <3>2 DEF Surjection
    <3>4. /\ Cardinality(confirmed) <= Cardinality(lines)
          /\ Cardinality(confirmed) = Cardinality(lines) <=> f \in Injection(lines, confirmed)
      BY ONLY <2>1, <3>3, FS_Surjection
    <3>5. Cardinality(confirmed) = Len(received)
      BY <2>0, <2>1, <2>3, <3>4
    <3>6. \A j, k \in lines : j # k => received[j] # received[k]
      BY <2>1, <2>2, <3>4, <3>5 DEF Injection, IsInjective
    <3>7. QED  BY <2>0, <3>5, <3>6 DEF Traceless
  <2>6. QED  BY <2>4, <2>5
<1>2. IInv /\ ParityInv => ParityMeansDelivery
  BY <1>1 DEF ParityMeansDelivery
<1>3. IInv /\ ParityInv /\ [Next]_vars => ParityInv'
  <2> SUFFICES ASSUME IInv, ParityInv, [Next]_vars PROVE ParityInv'
    OBVIOUS
  <2>1. TypeOK'
    BY IInvStep DEF IInv
  <2>2. ConfirmedInv'
    BY ConfirmedStep DEF ParityInv
  <2>3. FileInv'
    BY <2>1, WireConfirmed, CountedStep DEF ParityInv, FileInv
  <2>4. QED  BY <2>2, <2>3 DEF ParityInv
<1>4. QED  BY <1>2, <1>3, ParityInit, ForwarderInvariant, PTL DEF Spec

-----------------------------------------------------------------------------
(* What the analysis counts                                                 *)

\* The first of several records can be named.
LEMMA Least ==
    ASSUME NEW T \in SUBSET Nat, T # {}
    PROVE  \E x \in T : \A y \in T : x <= y
<1>1. PICK x \in T : \A y \in T : ~(<<y, x>> \in OpToRel(<, Nat))
  BY WFMin, NatLessThanWellFounded
<1>2. \A y \in T : ~(y < x)
  BY <1>1 DEF OpToRel
<1>3. QED  BY <1>2

\* The collector's file is the first part of the wire.
LEMMA FileFacts ==
    ASSUME IInv
    PROVE  /\ DOMAIN received = 1 .. Len(received) /\ Len(received) \in Nat
           /\ \A k \in 1 .. Len(received) :
                 k \in 1 .. Len(Wire) /\ Wire[k] = received[k] /\ k \in Nat
<1>1. received \in Seq(Record)
  BY DEF IInv, TypeOK
<1>2. DOMAIN received = 1 .. Len(received)
  BY <1>1, LenProperties
<1>3. QED  BY <1>2, WireFacts DEF IInv

\* Of the records of one reading the analysis keeps the first.
LEMMA FirstIsKept ==
    ASSUME NEW R \in SUBSET Nat, NEW k \in R
    PROVE  \E x \in DeduplicateUpstream(R) : received[x].id = received[k].id
<1> DEFINE T == {j \in R : received[j].id = received[k].id}
<1>1. T \in SUBSET Nat /\ T # {}
  OBVIOUS
<1>2. PICK x \in T : \A y \in T : x <= y
  <2>1. \E x \in T : \A y \in T : x <= y
    BY ONLY <1>1, Least
  <2>2. QED  BY <2>1
<1>3. x \in R /\ received[x].id = received[k].id
  OBVIOUS
<1>4. ASSUME NEW j \in R, j < x PROVE received[j].id # received[x].id
  <2>1. j \notin T
    BY <1>2, <1>3, <1>4
  <2>2. QED  BY <1>3, <2>1
<1>5. x \in DeduplicateUpstream(R)
  BY <1>3, <1>4 DEF DeduplicateUpstream
<1>6. QED  BY <1>3, <1>5

\* The records of an interval, and the unique ones, are lines of the file.
LEMMA FilteredFacts ==
    ASSUME IInv, NEW start, NEW end
    PROVE  LET records == FilterUpstream(start, end)
               unique  == DeduplicateUpstream(records)
           IN  /\ records \subseteq 1 .. Len(received) /\ records \in SUBSET Nat
               /\ unique \subseteq records /\ IsFiniteSet(unique)
<1> DEFINE records == FilterUpstream(start, end)
           unique  == DeduplicateUpstream(records)
<1>1. records \subseteq 1 .. Len(received)
  BY FileFacts DEF FilterUpstream
<1>2. unique \subseteq records
  BY DEF DeduplicateUpstream
<1>3. IsFiniteSet(1 .. Len(received)) /\ 1 .. Len(received) \subseteq Nat
  BY FileFacts, FS_Interval
<1>4. unique \subseteq 1 .. Len(received)
  BY <1>1, <1>2
<1>5. IsFiniteSet(unique)
  BY ONLY <1>3, <1>4, FS_Subset
<1>6. QED  BY <1>1, <1>2, <1>3, <1>5

\* In RAW mode a line of the file stands for the reading its id names.
LEMMA RawLine ==
    ASSUME IInv, mode = "RAW", NEW k \in 1 .. Len(received)
    PROVE  LET i == received[k].id[2] IN
           /\ i \in Enqueued /\ received[k].readings = {i}
           /\ received[k].id = <<"raw", i, readings[i].mono>>
           /\ received[k].id[1] = "raw" /\ received[k].at = readings[i].at
<1>1. RawOK(received[k], readings)
  BY FileFacts DEF IInv, WireInv, OnWay, RecordOK
<1>2. PICK a \in 1 .. Len(readings) :
         /\ received[k].readings = {a} /\ received[k].id = <<"raw", a, readings[a].mono>>
         /\ received[k].at = readings[a].at
  BY <1>1 DEF RawOK
<1>3. <<"raw", a, readings[a].mono>>[1] = "raw" /\ <<"raw", a, readings[a].mono>>[2] = a
  OBVIOUS
<1>4. QED  BY <1>2, <1>3 DEF Enqueued

\* The readings of an interval that the collector's file holds.
Delivered(start, end) ==
    {i \in UNION {received[k].readings : k \in DOMAIN received} :
        readings[i].at \in start .. (end - 1)}

LEMMA RawCountsOnce ==
    ASSUME IInv, mode = "RAW", NEW start \in Nat, NEW end \in Nat
    PROVE  LET records == FilterUpstream(start, end)
               unique  == DeduplicateUpstream(records)
           IN  /\ ~Conflicting(records)
               /\ UNION {received[k].readings : k \in unique} = Delivered(start, end)
               /\ Cardinality(unique) = Cardinality(Delivered(start, end))
<1> DEFINE records == FilterUpstream(start, end)
           unique  == DeduplicateUpstream(records)
           f == [k \in unique |-> received[k].id[2]]
<1>0. /\ records \subseteq 1 .. Len(received) /\ records \in SUBSET Nat
      /\ unique \subseteq records /\ IsFiniteSet(unique)
  BY FilteredFacts
<1>1. \A j, k \in 1 .. Len(received) :
         received[j].id = received[k].id => received[j] = received[k]
  BY FileFacts, SameIdSameRecord
<1>2. ~Conflicting(records)
  BY <1>0, <1>1 DEF Conflicting
<1>3. \A k \in 1 .. Len(received) :
         k \in records <=> readings[received[k].id[2]].at \in start .. (end - 1)
  <2> TAKE k \in 1 .. Len(received)
  <2> DEFINE i == received[k].id[2]
  <2>1. k \in records <=> start <= readings[i].at /\ readings[i].at < end
    BY RawLine, FileFacts DEF FilterUpstream, InInterval
  <2>2. readings[i].at \in Nat
    BY RawLine, ReadingFacts DEF IInv
  <2>3. QED  BY <2>1, <2>2
<1>4. ASSUME NEW k \in unique PROVE f[k] \in Delivered(start, end) /\ received[k].readings = {f[k]}
  <2>1. k \in 1 .. Len(received) /\ k \in records
    BY <1>0
  <2>2. received[k].readings = {f[k]}
    BY <2>1, RawLine
  <2>3. readings[f[k]].at \in start .. (end - 1)
    BY <1>3, <2>1
  <2>4. QED  BY <2>1, <2>2, <2>3, FileFacts DEF Delivered
<1>5. ASSUME NEW i \in Delivered(start, end) PROVE \E k \in unique : f[k] = i
  <2>1. PICK k \in 1 .. Len(received) : i \in received[k].readings
    BY FileFacts DEF Delivered
  <2>2. i = received[k].id[2] /\ readings[i].at \in start .. (end - 1)
    BY <2>1, RawLine DEF Delivered
  <2>3. k \in records
    BY <1>3, <2>2
  <2>4. PICK x \in unique : received[x].id = received[k].id
    <3>1. \E x \in DeduplicateUpstream(records) : received[x].id = received[k].id
      BY <1>0, <2>3, FirstIsKept
    <3>2. QED  BY <3>1
  <2>5. f[x] = i
    BY <2>2, <2>4
  <2>6. QED  BY <2>5
<1>6. UNION {received[k].readings : k \in unique} = Delivered(start, end)
  BY <1>4, <1>5
<1>7. ASSUME NEW j \in unique, NEW k \in unique, f[j] = f[k] PROVE j = k
  <2>1. received[j].id = received[k].id
    BY <1>0, <1>7, RawLine
  <2>2. j \in Nat /\ k \in Nat
    BY <1>0
  <2>3. ~(j < k) /\ ~(k < j)
    BY <2>1 DEF DeduplicateUpstream
  <2>4. QED  BY <2>2, <2>3
<1>8. f \in [unique -> Delivered(start, end)]
  BY <1>4
<1>9. f \in Bijection(unique, Delivered(start, end))
  BY <1>5, <1>7, <1>8 DEF Bijection, Injection, Surjection, IsInjective
<1>10. Cardinality(unique) = Cardinality(Delivered(start, end))
  BY <1>0, <1>9, FS_Bijection DEF ExistsBijection
<1>11. QED  BY <1>2, <1>6, <1>10

LEMMA AggregatesAreFewer ==
    ASSUME IInv, mode = "AGGREGATED", NEW start \in Nat, NEW end \in Nat,
           \A k \in DeduplicateUpstream(FilterUpstream(start, end)) : ~received[k].partial
    PROVE  LET unique == DeduplicateUpstream(FilterUpstream(start, end))
           IN  Cardinality(unique) <= Cardinality(BaselineReadings(start, end, unique))
<1> DEFINE records == FilterUpstream(start, end)
           unique  == DeduplicateUpstream(records)
           base    == BaselineReadings(start, end, unique)
           first(k) == CHOOSE m \in received[k].readings : \A i \in received[k].readings : m <= i
           f == [k \in unique |-> first(k)]
<1>0. /\ records \subseteq 1 .. Len(received) /\ records \in SUBSET Nat
      /\ unique \subseteq records /\ IsFiniteSet(unique)
  BY FilteredFacts
<1>1. ASSUME NEW k \in unique
      PROVE  /\ f[k] \in received[k].readings /\ f[k] \in Nat
             /\ f[k] \in base
  <2>1. RecordOK(received[k], mode, readings, wall)
    BY <1>0, FileFacts DEF IInv, WireInv, OnWay
  <2>2. f[k] \in received[k].readings /\ \A i \in received[k].readings : f[k] <= i
    BY <2>1 DEF RecordOK, HasEnds
  <2>3. AggregateOK(received[k], readings, wall) /\ received[k].partial = FALSE
    <3>1. received[k] \in Record
      BY <1>0, FileFacts, WireRecords DEF IInv
    <3>2. QED  BY <2>1, <3>1 DEF RecordOK, Record
  <2>4. received[k].id[1] = "aggregate" /\ received[k].id[2] = readings[f[k]].at
    BY <2>2, <2>3 DEF AggregateOK
  <2>5. received[k].id[3] = received[k].id[2] + Window
    BY <2>3 DEF AggregateOK
  <2>6. start <= received[k].id[2] /\ received[k].id[3] <= end
    BY <1>0, <2>4 DEF FilterUpstream
  <2>7. f[k] \in Enqueued
    BY <2>1, <2>2 DEF RecordOK, IncludedIn, Enqueued
  <2>8. readings[f[k]].at \in Nat /\ received[k].id[3] \in Nat /\ Window \in Nat \ {0}
    BY <1>0, <2>7, ReadingFacts, FileFacts, WireRecords, ConstantFacts DEF IInv, Record
  <2>9. InInterval(readings[f[k]].at, start, end)
    BY <2>4, <2>5, <2>6, <2>8 DEF InInterval
  <2>10. InInterval(readings[f[k]].at, received[k].id[2], received[k].id[3])
    BY <2>4, <2>5, <2>8 DEF InInterval
  <2>11. f[k] \in Nat
    BY <2>7, ReadingFacts DEF IInv
  <2>12. QED  BY <2>2, <2>7, <2>9, <2>10, <2>11 DEF BaselineReadings
<1>2. f \in [unique -> base]
  BY <1>1
<1> HIDE DEF f
<1>3. ASSUME NEW j \in unique, NEW k \in unique, j < k PROVE f[j] # f[k]
  <2>1. j \in 1 .. Len(received) /\ k \in 1 .. Len(received)
    BY <1>0
  <2>2. received[j].id # received[k].id
    BY <1>3 DEF DeduplicateUpstream
  <2>3. Before(received[j].readings, received[k].readings)
    BY <1>3, <2>1, <2>2, FileFacts DEF IInv, WireInv
  <2>4. f[j] < f[k] /\ f[j] \in Nat
    BY <1>1, <2>3 DEF Before
  <2>5. QED  BY <2>4
<1>4. ASSUME NEW j \in unique, NEW k \in unique, f[j] = f[k] PROVE j = k
  <2>1. j \in Nat /\ k \in Nat
    BY <1>0
  <2>2. ~(j < k) /\ ~(k < j)
    BY <1>3, <1>4
  <2>3. QED  BY <2>1, <2>2
<1>5. f \in Injection(unique, base)
  BY <1>2, <1>4 DEF Injection, IsInjective
<1>6. IsFiniteSet(base)
  <2>1. base \subseteq Enqueued /\ IsFiniteSet(Enqueued)
    BY ReadingFacts, FS_Interval DEF IInv, BaselineReadings, Enqueued
  <2>2. QED  BY ONLY <2>1, FS_Subset
<1>7. Cardinality(unique) <= Cardinality(base)
  BY ONLY <1>5, <1>6, FS_Injection
<1>8. QED  BY <1>7

\* What the analysis counts for an interval is what the collector's file
\* delivers: in RAW mode the unique records are the delivered readings, one
\* each, and never in conflict; in AGGREGATED mode they are at most as many as
\* the readings they are compared with (_filter_upstream, _deduplicate_upstream
\* and _baseline_readings).
THEOREM CountsOnce == Spec => []AnalysisCountsOnce
<1>1. ASSUME IInv PROVE AnalysisCountsOnce
  <2>1. \A n \in 0 .. MaxWall + Window : n \in Nat
    BY ConstantFacts
  <2>2. mode \in {"RAW", "AGGREGATED"}
    BY <1>1, ConstantFacts DEF IInv, TypeOK
  <2>3. CASE mode = "RAW"
    BY <1>1, <2>1, <2>3, RawCountsOnce DEF AnalysisCountsOnce, Delivered
  <2>4. CASE mode = "AGGREGATED"
    BY <1>1, <2>1, <2>4, AggregatesAreFewer DEF AnalysisCountsOnce
  <2>5. QED  BY <2>2, <2>3, <2>4
<1>2. QED  BY <1>1, ForwarderInvariant, PTL
=============================================================================

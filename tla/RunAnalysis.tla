----------------------------- MODULE RunAnalysis -----------------------------
(***************************************************************************)
(* analysis/analyze.py on the evidence of one run: what it keeps of the     *)
(* collector's records for a measurement interval, how it removes           *)
(* retransmissions, what it compares them with, and the gates of            *)
(* _scientific_admission that compare the forwarder's counters with the     *)
(* collector's.  The evidence is what UpstreamForwarder leaves behind; the  *)
(* statistics computed from it are left out.                                *)
(***************************************************************************)
EXTENDS UpstreamForwarder

\* The mutant includes the end of the interval.
InIntervalClosed(t, start, end) == start <= t /\ t <= end

InInterval(t, start, end) == start <= t /\ t < end

\* _filter_upstream, as positions in the collector's file: a raw record by the
\* wall time its reading was received, an aggregate if its window lies inside.
FilterUpstream(start, end) ==
    {k \in DOMAIN received :
        LET id == received[k].id IN
        IF id[1] = "raw" THEN InInterval(received[k].at, start, end)
                         ELSE start <= id[2] /\ id[3] <= end}

\* _deduplicate_upstream: the first record of every record_id is kept ...
DeduplicateUpstream(records) ==
    {k \in records : \A j \in records : j < k => received[j].id # received[k].id}

\* ... and a later one with another payload is an error.
Conflicting(records) ==
    \E j, k \in records :
       received[j].id = received[k].id /\ received[j] # received[k]

\* _baseline_readings: the readings of the interval, in AGGREGATED mode only
\* those that some window of the unique records covers.
BaselineReadings(start, end, unique) ==
    {i \in Enqueued :
        /\ InInterval(readings[i].at, start, end)
        /\ mode = "AGGREGATED" =>
              \E k \in unique :
                 InInterval(readings[i].at, received[k].id[2], received[k].id[3])}

\* The mutant drops collector_message_parity.
AdmittedUnequal ==
    /\ spc = "stopped"
    /\ ~restarted
    /\ stats.queueFullDrops = 0
    /\ stats.recordsAbandoned = 0

\* The gates of _scientific_admission on what was forwarded, for a gateway that
\* exited normally and the one collector process that created the file.  The
\* other gates (bytes, invalid lines) only admit less.
Admitted ==
    /\ spc = "stopped"
    /\ ~restarted
    /\ stats.queueFullDrops = 0
    /\ stats.recordsAbandoned = 0
    /\ stats.upstreamMessages = counted

-----------------------------------------------------------------------------

\* For every measurement interval that ended before the forwarder was stopped,
\* the analysis of the collector's file counts what was delivered: in RAW mode
\* the file has no conflict, and its unique records are exactly the delivered
\* readings of the interval, one each, whatever was sent twice; in AGGREGATED
\* mode the unique records are never more than the readings they are compared
\* with, so a reduction is never negative.
AnalysisCountsOnce ==
    \A start, end \in 0 .. MaxWall + Window :
       LET records == FilterUpstream(start, end)
           unique  == DeduplicateUpstream(records)
           delivered ==
              {i \in UNION {received[k].readings : k \in DOMAIN received} :
                  readings[i].at \in start .. (end - 1)}
       IN  IF mode = "RAW"
           THEN /\ ~Conflicting(records)
                /\ UNION {received[k].readings : k \in unique} = delivered
                /\ Cardinality(unique) = Cardinality(delivered)
           ELSE (\A k \in unique : ~received[k].partial) =>
                   Cardinality(unique)
                      <= Cardinality(BaselineReadings(start, end, unique))

\* Every accepted reading is in the collector's file.
Complete ==
    UNION {received[k].readings : k \in DOMAIN received}
       = Enqueued \ ExcludedReadings

\* The file shows no trace of trouble: it has as many lines as the collector
\* counted, and no line twice.
Traceless ==
    /\ counted = Len(received)
    /\ \A j, k \in DOMAIN received : j # k => received[j] # received[k]

\* The gates compare counters, and a lost message can make up for a repeated one,
\* or for one that was counted and not written.  But never without a trace: of
\* the runs they admit, exactly those are complete whose file is as long as
\* messages_received and has no duplicate, whatever broke and however often.
ParityMeansDelivery == Admitted => (Complete <=> Traceless)
=============================================================================

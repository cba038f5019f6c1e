---------------------------- MODULE MCForwarder ----------------------------
(* The runs of UpstreamForwarder and of the analysis of what it forwarded;  *)
(* the bounds are in the .cfg files.                                        *)
EXTENDS RunAnalysis

\* The wall clock floors a time of which TicksPerMs ticks make a millisecond, and
\* was at phase ticks past a whole one when the monotonic clock started.
Floored(phase) == [t \in 0 .. MaxClock |-> (t + phase) \div TicksPerMs]

OneClock == {Floored(0)}

\* Half a millisecond past a whole one, and a clock that is set back.
LateAndSetBack ==
    {Floored(1), [t \in 0 .. MaxClock |-> IF t = 0 THEN 1 ELSE 0]}
=============================================================================

---------------------------- MODULE SensorUplink ----------------------------
(***************************************************************************)
(* The way of a sensor's readings to the gateway's registry: the TCP        *)
(* connections of one node, the client handlers of gateway/server.py that   *)
(* read them, and what gateway/registry.py (NodeRegistry) makes of the      *)
(* sequence numbers.  The programs that write to the connections are        *)
(* FirmwareNode and VirtualNode.                                            *)
(*                                                                         *)
(* A node opens its connections one after the other, but the gateway serves *)
(* each in a task of its own: lines left in an older connection may be      *)
(* handled after lines of a newer one.  A line is the incarnation (boot)    *)
(* that sent it and its sequence number; a line that was cut off is not     *)
(* whole.                                                                   *)
(***************************************************************************)
EXTENDS Integers, Sequences, FiniteSets

CONSTANTS
    MaxSequence,     \* bound on the sequence numbers of one incarnation
    MaxIncarnations, \* bound on the incarnations of the node
    MaxConnections,  \* bound on the connections
    MaxFaults        \* bound on the connections that break and Wi-Fi losses

ASSUME UplinkAssumption ==
    {MaxSequence, MaxIncarnations, MaxConnections, MaxFaults} \subseteq Nat \ {0}

VARIABLES
    conns,      \* connections in the order they were opened
    client,     \* the node holds the newest of them
    issued,     \* per incarnation: its sequence counter, the next number
    record,     \* the registry's NodeRecord
    faults,     \* faults so far, for the bound
    delivered,  \* history: the <<boot, sequence>> the registry observed
    newest,     \* history: the newest connection that delivered a line
    overtaken   \* history: an older connection delivered after a newer one

uplink == <<conns, client, issued, record, faults, delivered, newest, overtaken>>
gateway == <<record, delivered, newest, overtaken>>

Registry == INSTANCE NodeRegistry
                WITH Node <- {"node"}, SuspectAfter <- 3, OfflineAfter <- 5,
                     registry <- [n \in {"node"} |-> record],
                     heard <- [n \in {"node"} |-> [first |-> 0, seen |-> {}]]

UplinkInit ==
    /\ conns = << >>
    /\ client = FALSE
    /\ issued = << 0 >>
    /\ record = Registry!Unseen
    /\ faults = 0
    /\ delivered = {}
    /\ newest = 0
    /\ overtaken = FALSE

Boot == Len(issued)
Sequence == issued[Boot]
Newest == Len(conns)

\* Advance the counter of the running incarnation.
NextSequence == [issued EXCEPT ![Boot] = @ + 1]

Line == [boot |-> Boot, sequence |-> Sequence, whole |-> TRUE]
CutLine == [Line EXCEPT !.whole = FALSE]

\* The node's socket works; when it does not, the node may not know it yet.
Carried == client /\ conns[Newest].up

\* What a status query of the node's socket may say.
Connected == IF Carried THEN {TRUE} ELSE IF client THEN BOOLEAN ELSE {FALSE}

Open == Append(conns, [lines |-> << >>, up |-> TRUE])

\* What is written to a connection that is down goes nowhere.
Write(line) ==
    IF Carried THEN [conns EXCEPT ![Newest].lines = Append(@, line)] ELSE conns

Cut(c, kept) == [conns EXCEPT ![c] = [lines |-> kept, up |-> FALSE]]

-----------------------------------------------------------------------------
(* The gateway and the network                                              *)

\* _read_client: a whole line is classified and counted.
ReadLine(c) ==
    /\ conns[c].lines # << >>
    /\ LET line == Head(conns[c].lines) IN
       /\ line.whole
       /\ record' = Registry!Observe(record, line.sequence, 0)
       /\ delivered' = delivered \cup {<<line.boot, line.sequence>>}
    /\ conns' = [conns EXCEPT ![c].lines = Tail(@)]
    /\ newest' = IF c > newest THEN c ELSE newest
    /\ overtaken' = (overtaken \/ c < newest)
    /\ UNCHANGED <<client, issued, faults>>

\* The end of the stream inside a line: the line is discarded and the handler
\* returns.
ReadTruncated(c) ==
    /\ conns[c].lines # << >>
    /\ ~Head(conns[c].lines).whole
    /\ conns' = Cut(c, << >>)
    /\ UNCHANGED <<client, issued, faults, gateway>>

\* The connection is lost, or the gateway closes it (idle_disconnect, stop):
\* what had not arrived is gone.
ConnectionLost(c) ==
    /\ conns[c].up
    /\ conns[c].lines # << >> \/ (client /\ c = Newest)
    /\ faults < MaxFaults
    /\ faults' = faults + 1
    /\ \E k \in 0 .. Len(conns[c].lines) :
          conns' = Cut(c, SubSeq(conns[c].lines, 1, k))
    /\ UNCHANGED <<client, issued, gateway>>

GatewayReads == \E c \in DOMAIN conns : ReadLine(c) \/ ReadTruncated(c)

UplinkStep == GatewayReads \/ \E c \in DOMAIN conns : ConnectionLost(c)

-----------------------------------------------------------------------------
(* What the numbers tell                                                    *)

\* The line that connection c delivers next, and what the registry will make of
\* it.
Arrival(c) == Head(conns[c].lines)

Verdict(c) ==
    IF conns[c].lines # << >> /\ Arrival(c).whole
    THEN Registry!SequenceStatus(record, Arrival(c).sequence)
    ELSE "NONE"

UplinkTypeOK ==
    /\ conns \in Seq([lines : Seq([boot : Nat, sequence : Nat, whole : BOOLEAN]),
                      up : BOOLEAN])
    /\ Newest <= MaxConnections
    /\ client \in BOOLEAN
    /\ issued \in Seq(0 .. MaxSequence) /\ Boot \in 1 .. MaxIncarnations
    /\ record \in Registry!NodeRecord
    /\ faults \in 0 .. MaxFaults
    /\ delivered \subseteq (1 .. MaxIncarnations) \X (0 .. MaxSequence)
    /\ newest \in 0 .. MaxConnections
    /\ overtaken \in BOOLEAN

\* Numbers that were used up and never observed.
Lost ==
    {p \in (1 .. Boot) \X (0 .. MaxSequence) : p[2] < issued[p[1]]} \ delivered

\* A counted sequence reset is a restart of the node ("A return to 0 after a
\* higher sequence is a process/firmware restart"), as long as no connection is
\* overtaken by a newer one.
ResetMeansRestart == ~overtaken => record.sequenceResets < Boot

\* A number called out of order belongs to an incarnation whose first message
\* was never observed: with it observed, the registry follows the restart.
OutOfOrderMeansMissedStart ==
    \A c \in DOMAIN conns :
       Verdict(c) = "OUT_OF_ORDER" /\ ~overtaken /\ c >= newest =>
          <<Arrival(c).boot, 0>> \notin delivered

\* estimated_messages_missing never exceeds the messages that were really used
\* up and not observed, across restarts, reused numbers and lost connections.
GapsAreLosses == ~overtaken => record.estimatedMissing <= Cardinality(Lost)
=============================================================================

----------------------------- MODULE SensorNodes -----------------------------
(***************************************************************************)
(* One sensor node and the gateway's view of it.  The node is either an     *)
(* ESP32 running the firmware or a virtual node of the simulator; both use  *)
(* the uplink and the registry in the same way and nothing else in common.  *)
(***************************************************************************)
EXTENDS FirmwareNode, VirtualNode

vars == <<uplink, firmware, vnode>>

Physical == ~Off

Init ==
    /\ UplinkInit
    /\ FirmwareInit
    /\ VirtualInit
    /\ Off # (npc = "off")
    /\ Off => equipped.network

Next ==
    \/ UplinkStep /\ UNCHANGED <<firmware, vnode>>
    \/ Physical /\ FirmwareStep /\ UNCHANGED vnode
    \/ ~Physical /\ VirtualStep /\ UNCHANGED firmware

Spec == Init /\ [][Next]_vars

Firmware(A) == Physical /\ A /\ UNCHANGED vnode

\* The firmware's loop never stops, and what is tried again and again succeeds
\* in the end: the sensor answers, the station associates, the gateway accepts
\* the connection, a write is complete.
LiveSpec ==
    /\ Spec
    /\ WF_vars(Firmware(LoopStep))
    /\ SF_vars(Firmware(ServiceSensor /\ sensorReady'))
    /\ SF_vars(Firmware(WifiAssociates))
    /\ SF_vars(Firmware(\E d \in 0 .. ConnectTimeout : TcpConnects(d)))
    /\ SF_vars(Firmware(SampleSent))

TypeOK == UplinkTypeOK /\ FirmwareTypeOK /\ VirtualTypeOK

\* A DUPLICATE is the number of another incarnation, one the registry did not
\* follow, or a number the firmware used again after a failed write: a virtual
\* node that was not restarted never causes one.
DuplicateExplained ==
    \A c \in DOMAIN conns :
       Verdict(c) = "DUPLICATE" =>
          \/ \E b \in 1 .. Boot : /\ b # Arrival(c).boot
                                 /\ <<b, Arrival(c).sequence>> \in delivered
          \/ Physical /\ faults > 0

\* An equipped node goes on reporting: no Wi-Fi loss, refused connection, failed
\* write, invalid reading or missing sensor keeps the loop from using up its
\* numbers.
KeepsReporting ==
    <>[](Physical /\ equipped.i2c /\ equipped.network) =>
       <>(Sequence = MaxSequence)
=============================================================================

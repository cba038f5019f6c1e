---------------------------- MODULE FirmwareNode ----------------------------
(***************************************************************************)
(* firmware/src/main.cpp with lib/NodeProtocol: the cooperative loop of an  *)
(* ESP32 sensor node.  One pass of loop() is four steps, in this order: the *)
(* sensor, service_wifi, service_tcp, sample_and_maybe_send.  The Wi-Fi     *)
(* driver and the TCP stack run beside it, so association and connection    *)
(* may be lost between any two of them.                                     *)
(*                                                                         *)
(* The deadlines next_*_ms are kept as the ticks that remain; a pass takes  *)
(* one tick, and a blocking connect() up to ConnectTimeout more.            *)
(***************************************************************************)
EXTENDS SensorUplink

CONSTANTS
    Initial,         \* RECONNECT_INITIAL_MS, in ticks
    Maximum,         \* RECONNECT_MAX_MS
    Interval,        \* SAMPLING_INTERVAL_MS
    WifiTimeout,     \* WIFI_CONNECT_TIMEOUT_MS
    ConnectTimeout,  \* TCP_CONNECT_TIMEOUT_MS
    SensorRetry      \* SENSOR_RETRY_MS

\* valid_runtime_config: the firmware does nothing with another configuration.
ASSUME FirmwareAssumption ==
    /\ {Initial, Maximum, Interval, WifiTimeout, SensorRetry} \subseteq Nat \ {0}
    /\ ConnectTimeout \in Nat
    /\ Maximum >= Initial

VARIABLES
    fpc,         \* the next step of loop(); "off" for a node not powered
    equipped,    \* i2c_ready and network_ready
    sensorReady,
    wifi,        \* WiFi.status() == WL_CONNECTED
    attempting,  \* wifi_attempt_active
    wifiWas,     \* wifi_was_connected
    tcpWas,      \* tcp_was_connected
    wifiBackoff,
    tcpBackoff,
    age,         \* now - wifi_attempt_started_ms, up to WifiTimeout
    timer        \* ticks until next_wifi/tcp/sensor/sample

ram == <<equipped, sensorReady, attempting, wifiWas, tcpWas, wifiBackoff,
         tcpBackoff, age, timer>>
firmware == <<fpc, wifi, ram>>

Off == fpc = "off"

NoTimers == [wifi |-> 0, tcp |-> 0, sensor |-> 0, sample |-> 0]

\* setup: I2C and the sensor may fail to answer.
SetupMemory(i2c, sensor, network) ==
    /\ equipped' = [i2c |-> i2c, network |-> network]
    /\ sensorReady' = (i2c /\ sensor)
    /\ timer' = [NoTimers EXCEPT !.sensor =
                    IF i2c /\ ~sensor THEN SensorRetry ELSE 0]
    /\ attempting' = FALSE /\ wifiWas' = FALSE /\ tcpWas' = FALSE
    /\ wifiBackoff' = 0 /\ tcpBackoff' = 0 /\ age' = 0

FirmwareInit ==
    /\ fpc \in {"off", "setup"}
    /\ equipped \in [i2c : {FALSE}, network : BOOLEAN]
    /\ sensorReady = FALSE /\ wifi = FALSE
    /\ attempting = FALSE /\ wifiWas = FALSE /\ tcpWas = FALSE
    /\ wifiBackoff = 0 /\ tcpBackoff = 0 /\ age = 0
    /\ timer = NoTimers

Setup ==
    /\ fpc = "setup"
    /\ \E i2c, sensor \in BOOLEAN : SetupMemory(i2c, sensor, equipped.network)
    /\ fpc' = "sensor"
    /\ UNCHANGED <<wifi, uplink>>

-----------------------------------------------------------------------------
(* Time and backoff                                                         *)

Remaining(t, d) == IF t > d THEN t - d ELSE 0

\* d ticks go by.
Elapsed(timers, d) == [k \in DOMAIN timers |-> Remaining(timers[k], d)]

Aged(d) == IF age + d > WifiTimeout THEN WifiTimeout ELSE age + d

\* The mutant doubles without a limit.
NextBackoffUncapped(current) == IF current < Initial THEN Initial ELSE current * 2

\* next_backoff_ms
NextBackoff(current) ==
    CASE current < Initial                                  -> Initial
      [] current >= Maximum \/ current > Maximum \div 2     -> Maximum
      [] current \in Initial .. (Maximum \div 2)
         /\ current < Maximum                               -> current * 2

Delay(backoff) == IF backoff = 0 THEN Initial ELSE backoff

-----------------------------------------------------------------------------
(* The steps of loop()                                                      *)

\* The mutant looks for the sensor in setup only.
ServiceSensorOnce ==
    /\ fpc = "sensor"
    /\ fpc' = IF equipped.network THEN "wifi" ELSE "sample"
    /\ UNCHANGED <<wifi, ram, uplink>>

\* A missing sensor is looked for again.
ServiceSensor ==
    /\ fpc = "sensor"
    /\ IF equipped.i2c /\ ~sensorReady /\ timer.sensor = 0
       THEN /\ sensorReady' \in BOOLEAN
            /\ timer' = [timer EXCEPT !.sensor = SensorRetry]
       ELSE UNCHANGED <<sensorReady, timer>>
    /\ fpc' = IF equipped.network THEN "wifi" ELSE "sample"
    /\ UNCHANGED <<equipped, wifi, attempting, wifiWas, tcpWas, wifiBackoff,
                   tcpBackoff, age, uplink>>

\* service_wifi while the station is associated.
WifiConnected ==
    /\ fpc = "wifi"
    /\ wifi
    /\ attempting' = FALSE
    /\ wifiBackoff' = 0
    /\ wifiWas' = TRUE
    /\ fpc' = "tcp"
    /\ UNCHANGED <<equipped, sensorReady, wifi, tcpWas, tcpBackoff, age, timer,
                   uplink>>

\* The association was lost: give up the socket, and connect at once when the
\* network is back.
DropClient ==
    /\ wifiWas' = FALSE
    /\ client' = IF wifiWas THEN FALSE ELSE client
    /\ tcpWas' = IF wifiWas THEN FALSE ELSE tcpWas
    /\ UNCHANGED <<conns, issued, faults, gateway>>

TcpNow == IF wifiWas THEN 0 ELSE timer.tcp

\* The attempt took too long: disconnect and schedule_wifi_retry ...
WifiTimesOut ==
    /\ attempting /\ age >= WifiTimeout
    /\ attempting' = FALSE
    /\ timer' = [timer EXCEPT !.wifi = Delay(wifiBackoff), !.tcp = TcpNow]
    /\ wifiBackoff' = NextBackoff(Delay(wifiBackoff))
    /\ UNCHANGED age

\* ... the next attempt is due ...
WifiBegins ==
    /\ ~attempting /\ timer.wifi = 0
    /\ attempting' = TRUE
    /\ age' = 0
    /\ timer' = [timer EXCEPT !.tcp = TcpNow]
    /\ UNCHANGED wifiBackoff

\* ... or there is nothing to do but wait.
WifiWaits ==
    /\ IF attempting THEN age < WifiTimeout ELSE timer.wifi > 0
    /\ timer' = [timer EXCEPT !.tcp = TcpNow]
    /\ UNCHANGED <<attempting, age, wifiBackoff>>

WifiDown ==
    /\ fpc = "wifi"
    /\ ~wifi
    /\ DropClient
    /\ WifiTimesOut \/ WifiBegins \/ WifiWaits
    /\ fpc' = "tcp"
    /\ UNCHANGED <<equipped, sensorReady, wifi, tcpBackoff>>

\* service_tcp without Wi-Fi, or with a socket that reports to be connected.
TcpServed ==
    /\ fpc = "tcp"
    /\ \/ ~wifi /\ UNCHANGED <<tcpWas, tcpBackoff, timer>>
       \/ /\ wifi
          /\ TRUE \in Connected
          /\ tcpWas' = TRUE
          /\ tcpBackoff' = IF tcpWas THEN tcpBackoff ELSE 0
          /\ timer' = IF tcpWas THEN timer ELSE [timer EXCEPT !.sample = 0]
    /\ fpc' = "sample"
    /\ UNCHANGED <<equipped, sensorReady, wifi, attempting, wifiWas, wifiBackoff,
                   age, uplink>>

\* No connection: stop() the socket, and wait for the next attempt.
TcpWaits ==
    /\ fpc = "tcp"
    /\ wifi
    /\ FALSE \in Connected
    /\ timer.tcp > 0
    /\ client' = FALSE
    /\ tcpWas' = FALSE
    /\ fpc' = "sample"
    /\ UNCHANGED <<equipped, sensorReady, wifi, attempting, wifiWas, wifiBackoff,
                   tcpBackoff, age, timer, conns, issued, faults, gateway>>

\* connect() succeeds after d ticks.  The sample is due: next_sample_ms is set
\* to the time the pass began.
TcpConnects(d) ==
    /\ fpc = "tcp"
    /\ wifi
    /\ FALSE \in Connected
    /\ timer.tcp = 0
    /\ Newest < MaxConnections
    /\ conns' = Open
    /\ client' = TRUE
    /\ tcpWas' = TRUE
    /\ tcpBackoff' = 0
    /\ timer' = [Elapsed(timer, d) EXCEPT !.sample = 0]
    /\ age' = Aged(d)
    /\ fpc' = "sample"
    /\ UNCHANGED <<equipped, sensorReady, wifi, attempting, wifiWas, wifiBackoff,
                   issued, faults, gateway>>

\* connect() fails after d ticks; schedule_tcp_retry counts from the time the
\* pass began, so those ticks are part of the delay.
TcpFails(d) ==
    /\ fpc = "tcp"
    /\ wifi
    /\ FALSE \in Connected
    /\ timer.tcp = 0
    /\ client' = FALSE
    /\ tcpWas' = FALSE
    /\ timer' = [Elapsed(timer, d) EXCEPT !.tcp = Remaining(Delay(tcpBackoff), d)]
    /\ tcpBackoff' = NextBackoff(Delay(tcpBackoff))
    /\ age' = Aged(d)
    /\ fpc' = "sample"
    /\ UNCHANGED <<equipped, sensorReady, wifi, attempting, wifiWas, wifiBackoff,
                   conns, issued, faults, gateway>>

\* The bound on the numbers ends the sampling.
SampleDue == sensorReady /\ timer.sample = 0 /\ Sequence < MaxSequence

Sampled == [timer EXCEPT !.sample = Interval]

\* Nothing to sample, or nobody to send it to: the number is not used.
SampleSkipped ==
    /\ fpc = "sample"
    /\ \/ ~SampleDue /\ UNCHANGED timer
       \/ SampleDue /\ FALSE \in Connected /\ timer' = Sampled
    /\ fpc' = "delay"
    /\ UNCHANGED <<equipped, sensorReady, wifi, attempting, wifiWas, tcpWas,
                   wifiBackoff, tcpBackoff, age, uplink>>

\* An invalid reading: the sensor is initialized again later.
SampleInvalid ==
    /\ fpc = "sample"
    /\ SampleDue
    /\ sensorReady' = FALSE
    /\ timer' = [Sampled EXCEPT !.sensor = SensorRetry]
    /\ fpc' = "delay"
    /\ UNCHANGED <<equipped, wifi, attempting, wifiWas, tcpWas, wifiBackoff,
                   tcpBackoff, age, uplink>>

\* The write was complete and the socket still reports to be connected, which it
\* may do when the data will never arrive: the number is used.
SampleSent ==
    /\ fpc = "sample"
    /\ SampleDue
    /\ TRUE \in Connected
    /\ conns' = Write(Line)
    /\ issued' = NextSequence
    /\ timer' = Sampled
    /\ fpc' = "delay"
    /\ UNCHANGED <<equipped, sensorReady, wifi, attempting, wifiWas, tcpWas,
                   wifiBackoff, tcpBackoff, age, client, faults, gateway>>

\* The write failed: all, a part or nothing of the line is on its way.  The
\* socket is given up and the number will be used again.
SampleFails ==
    /\ fpc = "sample"
    /\ SampleDue
    /\ TRUE \in Connected
    /\ Carried => faults < MaxFaults
    /\ faults' = IF Carried THEN faults + 1 ELSE faults
    /\ \/ ~Carried /\ UNCHANGED conns
       \/ /\ Carried
          /\ \E tail \in {<< >>, << CutLine >>, << Line >>} :
                conns' = Cut(Newest, conns[Newest].lines \o tail)
    /\ client' = FALSE
    /\ tcpWas' = FALSE
    /\ timer' = [Sampled EXCEPT !.tcp = Delay(tcpBackoff)]
    /\ tcpBackoff' = NextBackoff(Delay(tcpBackoff))
    /\ fpc' = "delay"
    /\ UNCHANGED <<equipped, sensorReady, wifi, attempting, wifiWas, wifiBackoff,
                   age, issued, gateway>>

\* delay(10): the pass is over.
PassEnds ==
    /\ fpc = "delay"
    /\ timer' = Elapsed(timer, 1)
    /\ age' = Aged(1)
    /\ fpc' = "sensor"
    /\ UNCHANGED <<equipped, sensorReady, wifi, attempting, wifiWas, tcpWas,
                   wifiBackoff, tcpBackoff, uplink>>

-----------------------------------------------------------------------------
(* The surroundings                                                         *)

WifiAssociates ==
    /\ ~Off
    /\ attempting
    /\ ~wifi
    /\ wifi' = TRUE
    /\ UNCHANGED <<fpc, ram, uplink>>

WifiLost ==
    /\ wifi
    /\ faults < MaxFaults
    /\ faults' = faults + 1
    /\ wifi' = FALSE
    /\ UNCHANGED <<fpc, ram, conns, client, issued, gateway>>

\* A reset or a power cycle at any moment: the counter starts again.
Reboot ==
    /\ fpc \notin {"off", "setup"}
    /\ Boot < MaxIncarnations
    /\ issued' = Append(issued, 0)
    /\ client' = FALSE
    /\ wifi' = FALSE
    /\ fpc' = "setup"
    /\ UNCHANGED <<ram, conns, faults, gateway>>

LoopStep ==
    \/ Setup \/ ServiceSensor \/ WifiConnected \/ WifiDown
    \/ TcpServed \/ TcpWaits \/ \E d \in 0 .. ConnectTimeout : TcpFails(d)
    \/ SampleSkipped \/ SampleInvalid \/ SampleSent \/ SampleFails \/ PassEnds

FirmwareStep ==
    \/ LoopStep \/ \E d \in 0 .. ConnectTimeout : TcpConnects(d)
    \/ WifiAssociates \/ WifiLost \/ Reboot

FirmwareTypeOK ==
    /\ fpc \in {"off", "setup", "sensor", "wifi", "tcp", "sample", "delay"}
    /\ equipped \in [i2c : BOOLEAN, network : BOOLEAN]
    /\ {sensorReady, wifi, attempting, wifiWas, tcpWas} \subseteq BOOLEAN
    /\ wifiBackoff \in {0} \cup Initial .. Maximum
    /\ tcpBackoff \in {0} \cup Initial .. Maximum
    /\ age \in 0 .. WifiTimeout
    /\ timer \in [wifi : 0 .. Maximum, tcp : 0 .. Maximum,
                  sensor : 0 .. SensorRetry, sample : 0 .. Interval]
=============================================================================

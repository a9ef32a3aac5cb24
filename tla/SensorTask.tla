----------------------------- MODULE SensorTask -----------------------------
(***************************************************************************)
(* The tasks that publish a sensor's values, one in each of three build    *)
(* variants:                                                               *)
(*                                                                         *)
(*   "mbedtls"  mqtt_mbedtls_task: MQTTPublish on the connection of        *)
(*              NetworkLink; nothing it returns is looked at               *)
(*   "esp"      mqtt_esp_task: the external esp-mqtt client, which         *)
(*              connects by itself; after a publish that failed, online    *)
(*              messages until one succeeds                                *)
(*   "opcua"    opcua_pubsub_pub_task: the value is written to a node, and *)
(*              the server publishes the node in every iteration           *)
(*                                                                         *)
(* In the variant "bridge" the connection is used by the bridge's tasks    *)
(* and no sensor is read.  Each task calls a sensor driver, prsb25 as the  *)
(* headers have it or mb1222.                                              *)
(***************************************************************************)
EXTENDS NetworkLink, SensorFrame

CONSTANTS
  LoopLength,       \* iterations of mqtt_esp_task on one client: 1000000
  SpiDevices,       \* devices the SPI driver takes on one bus: 3
  Nothing,          \* no value
  Garbage,          \* the bytes of an uninitialised variable
  Unset             \* the text of a new node

ASSUME SensorTaskAssumption ==
  /\ LoopLength \in Nat \ {0}
  /\ SpiDevices \in Nat \ {0}
  /\ {Nothing, Garbage, Unset} \cap (Angles \cup Distances) = {}

VARIABLES
  variant,          \* "bridge", "mbedtls", "esp", "opcua"
  driver,           \* "prsb25", "mb1222"
  at,               \* where the task is; "off" until the event handler creates it
  added,            \* times the bus has been configured since the chip started
  ret, sensor_data, \* of the reading
  connected,        \* mqtt_esp_task: the last publish returned 0
  loop,             \* mqtt_esp_task: iterations on this client
  node,             \* opcua: the text in node "Value"
  measured,         \* history: the value the sensor measured, if it came through
  lastMeasured,     \* history: the last such value
  published         \* what the last publish that got through has published

taskVars == <<ret, sensor_data, connected, loop, node, added>>
sensorVars == <<variant, driver, at, taskVars, measured, lastMeasured, published>>
vars == <<linkVars, sensorVars>>

Init ==
  /\ LinkInit
  /\ variant \in {"bridge", "mbedtls", "esp", "opcua"}
  /\ driver \in {"prsb25", "mb1222"}
  /\ user \in CASE variant = "bridge" -> {"sub", "pub"}
               [] variant = "mbedtls" -> {"pub"}
               [] OTHER -> {"none"}
  /\ at = IF variant = "mbedtls" THEN "read" ELSE "off"
  /\ ret = "ESP_OK" /\ sensor_data = Garbage
  /\ connected = FALSE /\ loop = 1 /\ node = Unset /\ added = 0
  /\ measured = Nothing /\ lastMeasured = Nothing /\ published = Nothing
-----------------------------------------------------------------------------
(* Faulty variants of definitions below, for the properties to find.       *)

\* mqtt_esp_task does not keep the result of an online message.
SendsOnlineOnce ==
  /\ variant = "esp" /\ at = "read" /\ ~connected
  /\ UNCHANGED <<linkVars, sensorVars>>
-----------------------------------------------------------------------------
(* The start of mqtt_esp_task and opcua_pubsub_pub_task.  The third task   *)
(* configures its bus once, before it connects: a restart there is a       *)
(* restart in the state it began in.                                       *)

TaskStarts ==
  /\ at = "off"
  /\ at' = "setup"
  /\ UNCHANGED <<linkVars, variant, driver, taskVars, measured, lastMeasured,
                 published>>

\* spi_master_config adds one more device to the bus, i2c_master_init cannot
\* install its driver again.
CanConfigure == added < IF driver = "prsb25" THEN SpiDevices ELSE 1

\* ESP_ERROR_CHECK aborts when the bus cannot be configured; so does the wrapper
\* of sdkconfig:444 when opcua_pubsub_pub_task returns because it could not
\* allocate the transport layer.  The chip restarts.
SetupFailsRestarts ==
  /\ at = "setup"
  /\ at' = "off"
  /\ ret' = "ESP_OK" /\ sensor_data' = Garbage
  /\ connected' = FALSE /\ loop' = 1 /\ node' = Unset /\ added' = 0
  /\ UNCHANGED <<linkVars, variant, driver, measured, lastMeasured, published>>
-----------------------------------------------------------------------------
(* Reading the sensor.                                                     *)

Reads(status, value, valueMeasured) ==
  /\ at = "read"
  /\ variant = "mbedtls" => pc = "use"
  /\ variant = "esp" => connected
  /\ at' = "publish"
  /\ ret' = status
  /\ sensor_data' = IF value # Untouched THEN value
                    ELSE IF variant = "opcua" THEN Garbage ELSE sensor_data
  /\ measured' = valueMeasured
  /\ lastMeasured' = IF valueMeasured = Nothing THEN lastMeasured ELSE valueMeasured
  /\ loop' = IF variant = "esp" THEN loop + 1 ELSE loop
  /\ UNCHANGED <<linkVars, variant, driver, connected, node, added, published>>

\* The first command to the sensor fails, or the second of prsb25.
CommandFails ==
  \E status \in {"ESP_FAIL", "ESP_ERR_TIMEOUT"} : Reads(status, Untouched, Nothing)

ReadsFrame ==
  /\ driver = "prsb25"
  /\ \E read \in WholeReads :
       Reads(read.result.ret, read.result.value,
             IF IsValid(read.frame) THEN read.frame.angle ELSE Nothing)

ReadsDamagedFrame ==
  /\ driver = "prsb25"
  /\ \E result \in DamagedReads : Reads(result.ret, result.value, Nothing)

\* The value is composed of two bytes that were not read.
SecondCommandFails ==
  /\ driver = "mb1222"
  /\ \E status \in {"ESP_FAIL", "ESP_ERR_TIMEOUT"} : Reads(status, Garbage, Nothing)

ReadsDistance ==
  /\ driver = "mb1222"
  /\ \E d \in Distances : Reads("ESP_OK", d, d)

ReadsSensor ==
  CommandFails \/ ReadsFrame \/ ReadsDamagedFrame \/ SecondCommandFails \/ ReadsDistance
-----------------------------------------------------------------------------
(* Publishing.  At "sent" the value is on its way, and the iteration ends. *)

MbedtlsPublishes ==
  /\ variant = "mbedtls" /\ at = "publish"
  /\ IF ret = "ESP_OK" /\ isconnected /\ Writes
       THEN published' = sensor_data /\ at' = "sent"
       ELSE published' = published /\ at' = "read"
  /\ UNCHANGED <<linkVars, variant, driver, taskVars, measured, lastMeasured>>

\* Each client starts with an online message.
EspStartsClient ==
  /\ variant = "esp" /\ at = "setup"
  /\ CanConfigure /\ added' = added + 1
  /\ connected' \in BOOLEAN
  /\ sensor_data' = Garbage
  /\ at' = "take"
  /\ UNCHANGED <<linkVars, variant, driver, ret, loop, node, measured,
                 lastMeasured, published>>

EspTakes ==
  /\ variant = "esp" /\ at = "take"
  /\ at' = "read" /\ loop' = 1
  /\ UNCHANGED <<linkVars, variant, driver, ret, sensor_data, connected, node, added,
                 measured, lastMeasured, published>>

\* The mutex is not free within 10 ticks: the next client.
EspTakeTimesOut ==
  /\ variant = "esp" /\ at = "take"
  /\ at' = "setup"
  /\ UNCHANGED <<linkVars, variant, driver, taskVars, measured, lastMeasured,
                 published>>

EspSendsOnline ==
  /\ variant = "esp" /\ at = "read" /\ ~connected
  /\ connected' \in BOOLEAN
  /\ UNCHANGED <<linkVars, variant, driver, at, ret, sensor_data, loop, node,
                 added, measured, lastMeasured, published>>

EspEndOfLoop == IF loop <= LoopLength THEN "read" ELSE "setup"

EspPublishes ==
  /\ variant = "esp" /\ at = "publish"
  /\ IF ret = "ESP_OK"
       THEN \/ connected' = TRUE /\ published' = sensor_data /\ at' = "sent"
            \/ connected' = FALSE /\ UNCHANGED published /\ at' = EspEndOfLoop
       ELSE UNCHANGED <<connected, published>> /\ at' = EspEndOfLoop
  /\ UNCHANGED <<linkVars, variant, driver, ret, sensor_data, loop, node, added,
                 measured, lastMeasured>>

OpcUaSetsUp ==
  /\ variant = "opcua" /\ at = "setup"
  /\ CanConfigure /\ added' = added + 1
  /\ at' = "read"
  /\ UNCHANGED <<linkVars, variant, driver, ret, sensor_data, connected, loop, node,
                 measured, lastMeasured, published>>

\* parseSensorValue
OpcUaUpdates ==
  /\ variant = "opcua" /\ at = "publish"
  /\ node' = IF ret = "ESP_OK" THEN sensor_data ELSE node
  /\ at' = "iterate"
  /\ UNCHANGED <<linkVars, variant, driver, ret, sensor_data, connected, loop,
                 added, measured, lastMeasured, published>>

OpcUaIterates ==
  /\ variant = "opcua" /\ at = "iterate"
  /\ published' = IF node = Unset THEN published ELSE node
  /\ at' = IF ret = "ESP_OK" THEN "sent" ELSE "read"
  /\ UNCHANGED <<linkVars, variant, driver, taskVars, measured, lastMeasured>>

IterationEnds ==
  /\ at = "sent"
  /\ at' = IF variant = "esp" THEN EspEndOfLoop ELSE "read"
  /\ UNCHANGED <<linkVars, variant, driver, taskVars, measured, lastMeasured,
                 published>>

LinkSteps == LinkNext /\ UNCHANGED sensorVars

SensorRuns ==
  /\ variant # "bridge"
  /\ \/ TaskStarts \/ SetupFailsRestarts
     \/ ReadsSensor
     \/ MbedtlsPublishes
     \/ EspStartsClient \/ EspTakes \/ EspTakeTimesOut \/ EspSendsOnline \/ EspPublishes
     \/ OpcUaSetsUp \/ OpcUaUpdates \/ OpcUaIterates
     \/ IterationEnds

Next == LinkSteps \/ SensorRuns

Spec == Init /\ [][Next]_vars

\* Fairness: a task goes on (WF), a sensor that is asked again and again
\* measures, a setup that starts again and again gets through, and the external
\* client connects and publishes at some time (SF).
FairSpec ==
  /\ Spec
  /\ LinkFairness
  /\ WF_vars(SensorRuns)
  /\ SF_vars(ReadsSensor /\ measured' # Nothing)
  /\ SF_vars(EspStartsClient) /\ SF_vars(OpcUaSetsUp)
  /\ SF_vars(EspTakes)
  /\ SF_vars(EspSendsOnline /\ connected')
  /\ SF_vars(EspPublishes /\ at' = "sent")
-----------------------------------------------------------------------------
(* Properties.                                                             *)

Value == Angles \cup Distances

TypeOK ==
  /\ LinkTypeOK
  /\ at \in {"setup", "take", "read", "publish", "iterate", "sent", "off"}
  /\ added \in 0..(IF driver = "prsb25" THEN SpiDevices ELSE 1)
  /\ ret \in {"ESP_OK", "ESP_FAIL", "ESP_ERR_TIMEOUT", "ESP_ERR_NOT_FOUND"}
  /\ sensor_data \in Value \cup {Garbage}
  /\ connected \in BOOLEAN /\ loop \in 1..(LoopLength + 1)
  /\ node \in Value \cup {Unset}
  /\ measured \in Value \cup {Nothing} /\ lastMeasured \in Value \cup {Nothing}
  /\ published \in Value \cup {Nothing}

\* What a task publishes is what the sensor has measured: no uninitialised
\* variable, no value of a damaged frame or of one the sensor marks invalid,
\* and no old value as if it were new.  The node of the OPC UA variant, which
\* is published in every iteration, has the last value measured.
PublishedIsMeasured ==
  [][/\ published' # published => published' = lastMeasured
     /\ at # "sent" /\ at' = "sent" => published' = measured]_vars

\* New values keep coming while the sensor measures: for ever with the client
\* that connects by itself and with OPC UA, through every restart, but over the
\* connection of mqtt_mbedtls_task, which is never made anew, only as long as
\* that lasts.
DataFlows ==
  /\ variant \in {"esp", "opcua"} => []<>(at = "sent")
  /\ variant = "mbedtls" /\ <>[](pc = "use" /\ isconnected /\ ~broken)
       => []<>(at = "sent")
=============================================================================

-------------------------------- MODULE AppTasks --------------------------------
(***************************************************************************)
(* The application: the ten tasks of app_tasks.c and the reports of the    *)
(* watchdog, connected by the subscriptions that AppTasks_Start makes.     *)
(*                                                                         *)
(* What the bus and the components promise is used here, not modelled      *)
(* again: a publication is one step in which each subscriber's queue takes *)
(* the event or, being full, drops it (EventBus).  A round of a task       *)
(* determines what it publishes (todo), and then the publications follow   *)
(* one by one, with steps of other tasks between them.  Readings,          *)
(* priorities and time stamps, which nobody branches on, are left out.     *)
(* Every round ends with a heartbeat, which only the watchdog's queue      *)
(* sees; it, and the drop that a full queue there would count, are         *)
(* Watchdog's subject and left out.                                        *)
(***************************************************************************)
EXTENDS DeviceConfig, FaultRules, CommandParser, Sequences, FiniteSets

CONSTANTS
  Starts,           \* states between two rounds to begin with
  TempDeltas,       \* rand() % 5 - 2
  VoltDeltas,       \* rand() % 3 - 1
  QueueLength,      \* of the subscribers' queues
  MaxRounds         \* bound: rounds of the producers, together

Producers == {"SENSOR_MANAGER", "COMMAND", "NETWORK", "POWER_MONITOR", "DIAGNOSTICS",
              "WATCHDOG"}
Consumers == {"STORAGE", "CLOUD", "CONFIG_MANAGER", "HEALTH_MANAGER", "LOGGER"}
Tasks == Producers \cup Consumers

\* Variant: ConfigManager runs before the tasks that use the configuration.
Priority_ConfigFirst ==
  [WATCHDOG |-> 5, COMMAND |-> 4, SENSOR_MANAGER |-> 3, POWER_MONITOR |-> 3,
   HEALTH_MANAGER |-> 3, NETWORK |-> 2, STORAGE |-> 2, CLOUD |-> 2,
   CONFIG_MANAGER |-> 4, LOGGER |-> 2, DIAGNOSTICS |-> 1]

\* The last but one argument of xTaskCreate.
Priority == [WATCHDOG |-> 5, COMMAND |-> 4, SENSOR_MANAGER |-> 3, POWER_MONITOR |-> 3,
             HEALTH_MANAGER |-> 3, NETWORK |-> 2, STORAGE |-> 2, CLOUD |-> 2,
             CONFIG_MANAGER |-> 2, LOGGER |-> 2, DIAGNOSTICS |-> 1]

\* EventTopic_t, but for TOPIC_HEARTBEAT
Topics == {"TEMP_UPDATE", "BUTTON_PRESS", "SYSTEM_FAULT", "SENSOR_READING",
           "THRESHOLD_CROSSED", "DEVICE_STATUS", "CONFIG_UPDATE", "COMMAND_RECEIVED",
           "ACTUATOR_COMMAND", "ACTUATOR_STATUS", "STORAGE_LOG", "NETWORK_STATUS",
           "DIAGNOSTIC_REPORT", "POWER_EVENT", "OTA_EVENT", "SECURITY_EVENT",
           "FRAME_READY"}

\* code is payload[0]; value is payload[1], or the value of a command or update.
Event == [topic : Topics, code : 0 .. 255, value : Nat]
Evt(topic, code, value) == [topic |-> topic, code |-> code, value |-> value]

\* The Bus_Subscribe calls of AppTasks_Start.
Subscribed ==
  [STORAGE |-> {"SENSOR_READING", "THRESHOLD_CROSSED", "SYSTEM_FAULT", "SECURITY_EVENT",
                "ACTUATOR_STATUS", "DIAGNOSTIC_REPORT", "FRAME_READY"},
   CLOUD |-> {"SENSOR_READING", "DEVICE_STATUS", "SYSTEM_FAULT", "DIAGNOSTIC_REPORT",
              "ACTUATOR_STATUS", "ACTUATOR_COMMAND", "NETWORK_STATUS", "FRAME_READY"},
   CONFIG_MANAGER |-> {"CONFIG_UPDATE"},
   HEALTH_MANAGER |-> {"SYSTEM_FAULT", "THRESHOLD_CROSSED", "NETWORK_STATUS",
                       "POWER_EVENT", "DIAGNOSTIC_REPORT", "SECURITY_EVENT"},
   LOGGER |-> Topics]

Subscribers == [t \in Topics |-> {c \in Consumers : t \in Subscribed[c]}]

MAX_SUBSCRIBERS_PER_TOPIC == 6

\* The command lines that CommandTask works through.
commands ==
  <<Line("ACTUATOR", "fan", 1), Line("BUTTON", "0", NoNumber),
    Line("OTA", "START", NoNumber), Line("SECURITY", "INVALID_TOKEN", NoNumber),
    Line("SET", "temp_threshold", 38), Line("SET", "diag_period_ms", 4000),
    Line("SET", "low_voltage_dv", 34), Line("SET", "frame_period_ms", 2000),
    Line("GET", "status", NoNumber)>>

\* The variables that a task keeps from round to round, named as there; of
\* StorageTask's storedCount the remainder modulo 5.
Locals == [commandIndex : 0 .. 255, temperature : 0 .. 50, voltageDecivolts : 30 .. 49,
           online : BOOLEAN, storedCount : 0 .. 4]

\* What HealthManager knows: s_state, s_lastTopic and s_lastCode of the fault manager.
Health == [state : DeviceStates, topic : Topics \cup {"TOPIC_MAX"}, code : 0 .. 255]

\* A state to begin with is that of the last accepted signal, if there was one.
ASSUME AppAssumption ==
  /\ Starts \subseteq [local : Locals, config : ConfigType, health : Health, drops : Nat]
  /\ \A s \in Starts :
       /\ Sealed(s.config)
       /\ s.health.topic # "TOPIC_MAX" =>
            s.health.state = stateForSeverity(classifyFault(s.health))
  /\ TempDeltas \subseteq -2 .. 2 /\ VoltDeltas \subseteq -1 .. 1
  /\ QueueLength \in [Consumers -> Nat \ {0}]
  /\ MaxRounds \in Nat
  /\ \A t \in Topics : Cardinality(Subscribers[t]) <= MAX_SUBSCRIBERS_PER_TOPIC

VARIABLES
  queue,            \* the subscribers' queues
  todo,             \* what each task has yet to publish in its present round
  s_dropCount,
  s_config,
  local,            \* what the tasks keep from round to round, see Locals
  line,             \* line of CommandTask
  checking,         \* PowerMonitorTask is between its reading and the check of it
  health,           \* what the fault manager remembers, see Health
  rounds,           \* the rounds that producers have begun
  asked, answered,  \* history: requests accepted by Cloud and ConfigManager; answers
  wanted,           \* history: the settings asked for in accepted SET lines
  announced         \* history: the code of HealthManager's last DEVICE_STATUS

history == <<asked, answered, wanted, announced>>
vars == <<queue, todo, s_dropCount, s_config, local, line, checking, health, rounds,
          history>>

TextSettings(c) ==
  [temp_threshold |-> c.tempThreshold, diag_period_ms |-> c.diagnosticPeriodMs,
   low_voltage_dv |-> c.lowVoltageDecivolts, frame_period_ms |-> c.framePeriodMs]

\* (uint8_t)deviceState
StateCode == [BOOTING |-> 0, NORMAL |-> 1, DEGRADED |-> 2, FAULT |-> 3]

Init ==
  /\ \E s \in Starts : /\ local = s.local
                       /\ s_config = s.config
                       /\ wanted = TextSettings(s.config)
                       /\ health = s.health
                       /\ s_dropCount = s.drops
                       /\ announced = StateCode[s.health.state]
  /\ queue = [c \in Consumers |-> <<>>]
  /\ todo = [p \in Tasks |-> <<>>]
  /\ line = commands[1]
  /\ checking = FALSE
  /\ rounds = 0
  /\ asked = [c \in Consumers |-> 0]
  /\ answered = [c \in Consumers |-> 0]

-----------------------------------------------------------------------------
(***************************************************************************)
(* Scheduling: a task that waits for nothing is not overtaken by one of    *)
(* lower priority; tasks of equal priority share the processor in any way. *)
(***************************************************************************)

Busy(p) == todo[p] # <<>> \/ (p = "POWER_MONITOR" /\ checking)
Ready(p) == Busy(p) \/ (p \in Consumers /\ queue[p] # <<>>)
Above == [p \in Tasks |-> {r \in Tasks : Priority[r] > Priority[p]}]
MayRun(p) == \A r \in Above[p] : ~Ready(r)

(***************************************************************************)
(* Publications.                                                           *)
(***************************************************************************)

HasRoom(c) == Len(queue[c]) < QueueLength[c]

FanOut(e) ==
  /\ queue' = [c \in Consumers |->
                 IF c \in Subscribers[e.topic] /\ HasRoom(c) THEN Append(queue[c], e)
                                                             ELSE queue[c]]
  /\ s_dropCount' = s_dropCount + Cardinality({c \in Subscribers[e.topic] : ~HasRoom(c)})

\* The requests, and who answers them with what.
Request == [CLOUD |-> "ACTUATOR_COMMAND", CONFIG_MANAGER |-> "CONFIG_UPDATE"]
Answer == [CLOUD |-> "ACTUATOR_STATUS", CONFIG_MANAGER |-> "DEVICE_STATUS"]
IsRequest(c, e) == c \in DOMAIN Request /\ e.topic = Request[c]
IsAnswer(c, e) == c \in DOMAIN Answer /\ e.topic = Answer[c]

RecordPublication(p, e) ==
  /\ asked' = [c \in Consumers |-> IF IsRequest(c, e) /\ HasRoom(c) THEN asked[c] + 1
                                                                    ELSE asked[c]]
  /\ answered' = [c \in Consumers |-> IF c = p /\ IsAnswer(c, e) THEN answered[c] + 1
                                                                 ELSE answered[c]]
  /\ wanted' = IF e.topic = "CONFIG_UPDATE" /\ HasRoom("CONFIG_MANAGER")
               THEN [wanted EXCEPT ![line.arg] = line.number] ELSE wanted
  /\ announced' = IF p = "HEALTH_MANAGER" THEN e.code ELSE announced

\* Bus_Publish; nobody looks at its result.
Publish(p) ==
  /\ todo[p] # <<>>
  /\ MayRun(p)
  /\ FanOut(Head(todo[p]))
  /\ RecordPublication(p, Head(todo[p]))
  /\ todo' = [todo EXCEPT ![p] = Tail(@)]
  /\ UNCHANGED <<s_config, local, line, checking, health, rounds>>

-----------------------------------------------------------------------------
(***************************************************************************)
(* The producers: each round begins when vTaskDelay returns.               *)
(***************************************************************************)

BeginRound(p, events) ==
  /\ rounds < MaxRounds
  /\ ~Busy(p)
  /\ MayRun(p)
  /\ todo' = [todo EXCEPT ![p] = events]
  /\ rounds' = rounds + 1
  /\ UNCHANGED <<queue, s_dropCount, s_config, health, history>>

If(condition, events) == IF condition THEN events ELSE <<>>

\* The three outcomes of the frame part: not due, published, and the pool empty.
FrameEvents == {<<>>, <<Evt("FRAME_READY", 0, 0)>>, <<Evt("SYSTEM_FAULT", 0, 1)>>}

\* The threshold is that of the configuration at the beginning of the round.
Sensor_Round ==
  \E delta \in TempDeltas, frame \in FrameEvents :
    LET temperature == (local.temperature + delta + 51) % 51 IN
    /\ local' = [local EXCEPT !.temperature = temperature]
    /\ BeginRound("SENSOR_MANAGER",
         <<Evt("TEMP_UPDATE", 0, 0), Evt("SENSOR_READING", 1, 0), Evt("SENSOR_READING", 2, 0)>>
           \o If(temperature > s_config.tempThreshold, <<Evt("THRESHOLD_CROSSED", 1, 0)>>)
           \o frame)
    /\ UNCHANGED <<line, checking>>

\* The switch on parsed.commandId.
Routed(cmd) ==
  CASE cmd.commandId = COMMAND_ID.SET_CONFIG -> Evt("CONFIG_UPDATE", cmd.targetId, cmd.value)
    [] cmd.commandId = COMMAND_ID.ACTUATOR ->
         Evt("ACTUATOR_COMMAND", cmd.targetId, cmd.value % 256)
    [] cmd.commandId = COMMAND_ID.BUTTON -> Evt("BUTTON_PRESS", 0, 0)
    [] cmd.commandId = COMMAND_ID.OTA -> Evt("OTA_EVENT", 1, 0)
    [] cmd.commandId = COMMAND_ID.SECURITY_EVENT -> Evt("SECURITY_EVENT", 1, 0)
    [] OTHER -> Evt("DEVICE_STATUS", 0, 0)

Command_Round ==
  LET next == commands[(local.commandIndex % Len(commands)) + 1]
      cmd == CommandParser_Parse(next)
  IN
  /\ line' = next
  /\ local' = [local EXCEPT !.commandIndex = (@ + 1) % 256]
  /\ BeginRound("COMMAND",
       IF cmd.ok THEN <<Evt("COMMAND_RECEIVED", cmd.commandId, cmd.value), Routed(cmd)>>
                 ELSE <<Evt("SECURITY_EVENT", 2, 0)>>)
  /\ UNCHANGED <<checking>>

Network_Round ==
  LET link == IF local.online THEN 1 ELSE 0 IN
  /\ local' = [local EXCEPT !.online = ~@]
  /\ BeginRound("NETWORK", <<Evt("NETWORK_STATUS", link, link)>>
                             \o If(local.online, <<Evt("COMMAND_RECEIVED", 10, 0)>>))
  /\ UNCHANGED <<line, checking>>

\* Variant: the supply is not reset.
NextVoltage_NoReset(v, delta) == (v + delta + 50) % 50

NextVoltage(v, delta) ==
  LET volts == (v + delta + 50) % 50 IN IF volts < 30 THEN 37 ELSE volts

Power_Round ==
  \E delta \in VoltDeltas :
    /\ local' = [local EXCEPT !.voltageDecivolts = NextVoltage(@, delta)]
    /\ checking' = TRUE
    /\ BeginRound("POWER_MONITOR", <<Evt("SENSOR_READING", 3, 0)>>)
    /\ UNCHANGED <<line>>

\* The configuration is read after the reading has been published.
Power_Check ==
  LET low == IF local.voltageDecivolts < s_config.lowVoltageDecivolts THEN 1 ELSE 0 IN
  /\ checking
  /\ todo["POWER_MONITOR"] = <<>>
  /\ MayRun("POWER_MONITOR")
  /\ checking' = FALSE
  /\ todo' = [todo EXCEPT !["POWER_MONITOR"] = <<Evt("POWER_EVENT", low, 0)>>]
  /\ UNCHANGED <<queue, s_dropCount, s_config, local, line, health, rounds, history>>

Bus_GetDropCount == s_dropCount

\* (uint8_t)Bus_GetDropCount()
ReportedDrops == Bus_GetDropCount % 256

\* Of the report's fields the model keeps the drop count.
Diagnostics_Round ==
  /\ BeginRound("DIAGNOSTICS", <<Evt("DIAGNOSTIC_REPORT", ReportedDrops, 0)>>)
  /\ UNCHANGED <<local, line, checking>>

\* The watchdog found task number id overdue (Watchdog).
Watchdog_Report ==
  \E id \in {0, 9} :
    /\ BeginRound("WATCHDOG", <<Evt("SYSTEM_FAULT", id, 0)>>)
    /\ UNCHANGED <<local, line, checking>>

-----------------------------------------------------------------------------
(***************************************************************************)
(* The subscribers: xQueueReceive waits at most about a second.            *)
(***************************************************************************)

\* Task c takes the oldest event from its queue and will publish reaction.
Receive(c, reaction) ==
  /\ todo[c] = <<>>
  /\ queue[c] # <<>>
  /\ MayRun(c)
  /\ queue' = [queue EXCEPT ![c] = Tail(@)]
  /\ todo' = [todo EXCEPT ![c] = reaction]
  /\ UNCHANGED <<s_dropCount, line, checking, rounds, history>>

Received(c) == Head(queue[c])

\* The log line, and the frame's reference (FramePath), are given away at once.
Storage_Store ==
  LET count == (local.storedCount + 1) % 5 IN
  /\ Receive("STORAGE", If(count = 0, <<Evt("STORAGE_LOG", 0, 0)>>))
  /\ local' = [local EXCEPT !.storedCount = count]
  /\ UNCHANGED <<s_config, health>>

\* Variant: the cloud's link state is published as NETWORK_STATUS.
Cloud_Reaction_Reports(e) ==
  CASE e.topic = "ACTUATOR_COMMAND" -> <<Evt("ACTUATOR_STATUS", e.code, 1)>>
    [] e.topic = "NETWORK_STATUS" -> <<Evt("NETWORK_STATUS", e.code, 1)>>
    [] OTHER -> <<>>

Cloud_Reaction(e) ==
  If(e.topic = "ACTUATOR_COMMAND", <<Evt("ACTUATOR_STATUS", e.code, 1)>>)

Cloud_Upload ==
  /\ queue["CLOUD"] # <<>>
  /\ Receive("CLOUD", Cloud_Reaction(Received("CLOUD")))
  /\ UNCHANGED <<s_config, local, health>>

\* Event_Unpack, and the constants CONFIG_KEY_... of the switch.
KeyName(code) ==
  CASE code = 1 -> "TEMP_THRESHOLD"
    [] code = 2 -> "DIAG_PERIOD_MS"
    [] code = 3 -> "LOW_VOLTAGE_DV"
    [] code = 4 -> "FRAME_PERIOD_MS"
    [] OTHER -> "UNKNOWN"
Unpacked(e) == [key |-> KeyName(e.code), value |-> e.value]

\* Variant: a setting that could not be saved is taken back.
AfterSetter_RollsBack(u, saved) ==
  IF saved THEN SetField(s_config, u.key, Argument(u)) ELSE s_config

\* What the setter leaves in s_config; saved is the outcome of Config_Save.
AfterSetter(u, saved) == SetField(s_config, u.key, Argument(u))

\* Variant: a failure is not reported.
Config_Status_Silent(passed, c) == If(passed, <<Evt("DEVICE_STATUS", 1, c.tempThreshold)>>)

Config_Status(passed, c) == <<Evt("DEVICE_STATUS", IF passed THEN 1 ELSE 2, c.tempThreshold)>>

Config_Apply ==
  /\ queue["CONFIG_MANAGER"] # <<>>
  /\ LET u == Unpacked(Received("CONFIG_MANAGER")) IN
     \/ /\ Argument(u) \in ValidRange(u.key)
        /\ \E saved \in BOOLEAN :
             /\ s_config' = AfterSetter(u, saved)
             /\ Receive("CONFIG_MANAGER", Config_Status(saved, s_config'))
     \/ /\ Argument(u) \notin ValidRange(u.key)
        /\ UNCHANGED s_config
        /\ Receive("CONFIG_MANAGER", Config_Status(FALSE, s_config))
  /\ UNCHANGED <<local, health>>

\* Variant: the topic is not compared.
Suppressed_CodeOnly(e) == e.code = health.code

\* FaultManager_HandleEvent suppresses a signal like the last one if it comes soon
\* enough; how soon is FaultManager's subject, here it is a choice.
Suppressed(e) == e.topic = health.topic /\ e.code = health.code

Health_Handle ==
  /\ queue["HEALTH_MANAGER"] # <<>>
  /\ LET e == Received("HEALTH_MANAGER")
         state == stateForSeverity(classifyFault(e))
     IN \/ /\ Suppressed(e)
           /\ UNCHANGED health
           /\ Receive("HEALTH_MANAGER", <<>>)
        \/ /\ health' = [state |-> state, topic |-> e.topic, code |-> e.code]
           /\ Receive("HEALTH_MANAGER", <<Evt("DEVICE_STATUS", StateCode[state], e.code)>>)
  /\ UNCHANGED <<s_config, local>>

Logger_Log ==
  /\ Receive("LOGGER", <<>>)
  /\ UNCHANGED <<s_config, local, health>>

\* xQueueReceive returns without an event: only the heartbeat follows.
Receive_TimesOut(c) ==
  /\ todo[c] = <<>>
  /\ queue[c] = <<>>
  /\ MayRun(c)
  /\ UNCHANGED vars

BeginsRound ==
  \/ Sensor_Round
  \/ Command_Round
  \/ Network_Round
  \/ Power_Round
  \/ Diagnostics_Round
  \/ Watchdog_Report

\* The other steps of task p.
Step(p) ==
  \/ Publish(p)
  \/ p = "POWER_MONITOR" /\ Power_Check
  \/ p = "STORAGE" /\ Storage_Store
  \/ p = "CLOUD" /\ Cloud_Upload
  \/ p = "CONFIG_MANAGER" /\ Config_Apply
  \/ p = "HEALTH_MANAGER" /\ Health_Handle
  \/ p = "LOGGER" /\ Logger_Log
  \/ p \in Consumers /\ Receive_TimesOut(p)

Next == BeginsRound \/ \E p \in Tasks : Step(p)

(***************************************************************************)
(* A task that has begun a round finishes it, and a subscriber comes back  *)
(* from xQueueReceive, with an event or without: every task blocks once a  *)
(* round, and tasks of equal priority take turns.  Whether a producer's    *)
(* next round begins is left open.                                         *)
(***************************************************************************)
Fairness == \A p \in Tasks : WF_vars(Step(p))

Spec == Init /\ [][Next]_vars /\ Fairness

-----------------------------------------------------------------------------
(***************************************************************************)
(* Properties.                                                             *)
(***************************************************************************)

TypeOK ==
  /\ queue \in [Consumers -> Seq(Event)]
  /\ \A c \in Consumers : Len(queue[c]) <= QueueLength[c]
  /\ todo \in [Tasks -> Seq(Event)]
  /\ s_dropCount \in Nat
  /\ s_config \in ConfigType
  /\ local \in Locals
  /\ line \in {commands[i] : i \in DOMAIN commands}
  /\ checking \in BOOLEAN
  /\ health \in Health
  /\ rounds \in 0 .. MaxRounds
  /\ asked \in [Consumers -> Nat] /\ answered \in [Consumers -> Nat]
  /\ wanted \in [DOMAIN CONFIG_KEY -> Nat]
  /\ announced \in 0 .. 255

\* README, step 7: a SET line changes the configuration.  Once ConfigManager has
\* emptied its queue, each setting is what the last SET line for it said, of those
\* whose update found room: through the parser, the packing, the bus, the switch
\* and the setter, whether or not the save succeeded, and nothing else changes it.
SettingsAsCommanded ==
  queue["CONFIG_MANAGER"] = <<>> => TextSettings(s_config) = wanted

\* Every ACTUATOR_COMMAND that Cloud was given, and every CONFIG_UPDATE that
\* ConfigManager was given, is answered once: what has no answer yet is still in
\* the queue or is being handled, even if an answer before it was dropped.
OneAnswerEach ==
  \A c \in DOMAIN Request :
    asked[c] = answered[c]
                 + Cardinality({k \in DOMAIN todo[c] : IsAnswer(c, todo[c][k])})
                 + Cardinality({k \in DOMAIN queue[c] : IsRequest(c, queue[c][k])})

\* SensorManager compares its reading with a copy of the configuration that it took
\* at the beginning of its round, PowerMonitor with one that it took before it
\* publishes, and ConfigManager may have updates waiting all the while.  No alert
\* is out of date when it is published: until then the reading is beyond the limit
\* that is in force, and a POWER_EVENT says what that limit makes of the voltage.
AlertsCurrent ==
  /\ \A k \in DOMAIN todo["SENSOR_MANAGER"] :
       todo["SENSOR_MANAGER"][k].topic = "THRESHOLD_CROSSED" =>
         local.temperature > s_config.tempThreshold
  /\ \A k \in DOMAIN todo["POWER_MONITOR"] :
       todo["POWER_MONITOR"][k].topic = "POWER_EVENT" =>
         (todo["POWER_MONITOR"][k].code = 1
            <=> local.voltageDecivolts < s_config.lowVoltageDecivolts)

\* A SYSTEM_FAULT that reaches HealthManager is announced as device state FAULT,
\* whatever other signals are around it and even if it is suppressed as a
\* repetition: then the announcement has been made already.
FaultAnnounced ==
  (\E i \in DOMAIN queue["HEALTH_MANAGER"] :
     queue["HEALTH_MANAGER"][i].topic = "SYSTEM_FAULT")
    ~> announced = StateCode["FAULT"]

\* The tasks publish in reaction to events and receive each other's reactions
\* (Cloud and Storage receive ACTUATOR_STATUS, Cloud receives DEVICE_STATUS): the
\* reactions die out.  When no producer starts another round, the queues become
\* empty and stay so.
ReactionsDieOut ==
  <>[](\A c \in Consumers : queue[c] = <<>> /\ todo[c] = <<>>)
=================================================================================

------------------------------ MODULE MC_AppTasks ------------------------------
(***************************************************************************)
(* AppTasks with short queues, from states shortly before something        *)
(* happens: a command that sets a threshold near the reading, the wrap of  *)
(* commandIndex and of the temperature, StorageTask's fifth event.         *)
(***************************************************************************)
EXTENDS AppTasks, TLC

At(index, temperature, voltage, stored, config, health0, drops0) ==
  [local |-> [commandIndex |-> index, temperature |-> temperature,
              voltageDecivolts |-> voltage, online |-> TRUE, storedCount |-> stored],
   config |-> config, health |-> health0, drops |-> drops0]

Last(state, topic, code) == [state |-> state, topic |-> topic, code |-> code]

MCStarts ==
  {At(0, 25, 37, 0, Config(35, 33, 5000, 2800, 1), Last("BOOTING", "TOPIC_MAX", 0), 0),
   At(4, 34, 33, 3, Config(35, 33, 5000, 2800, 1), Last("NORMAL", "POWER_EVENT", 0), 0),
   At(255, 1, 30, 4, Config(38, 34, 4000, 2000, 1), Last("DEGRADED", "THRESHOLD_CROSSED", 1), 1),
   At(6, 25, 34, 0, Config(35, 33, 5000, 2800, 1), Last("FAULT", "SYSTEM_FAULT", 9), 0)}

MCTempDeltas == {-2, 2}
MCVoltDeltas == {-1, 1}

MCQueueLength ==
  [STORAGE |-> 2, CLOUD |-> 2, CONFIG_MANAGER |-> 1, HEALTH_MANAGER |-> 2, LOGGER |-> 1]

\* CommandParser_Parse on the lines of tests(UNRD)/test_middleware.c, and on lines
\* that the two ways of matching treat differently.
ASSUME ParserVectors ==
  /\ CommandParser_Parse(Line("SET", "temp_threshold", 42)) = ParsedCommand(1, 1, 42)
  /\ CommandParser_Parse(Line("ACTUATOR", "fan", 1)) = ParsedCommand(2, 1, 1)
  /\ \A i \in DOMAIN commands : CommandParser_Parse(commands[i]).ok
  /\ ~CommandParser_Parse(Line("SET", "unknown", 1)).ok
  /\ ~CommandParser_Parse(Line("SET", "temp_threshold", NoNumber)).ok
  /\ CommandParser_Parse([Line("ACTUATOR", "fan", 1) EXCEPT !.rest = TRUE]).ok
  /\ ~CommandParser_Parse([Line("OTA", "START", NoNumber) EXCEPT !.rest = TRUE]).ok
================================================================================

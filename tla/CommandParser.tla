------------------------------ MODULE CommandParser ------------------------------
(***************************************************************************)
(* CommandParser_Parse of command_parser.c.  A line is its words: a verb,  *)
(* an argument and, if the third word begins with one, a number, as %u     *)
(* converts it.  rest says that more text follows: sscanf does not see it, *)
(* strcmp does.                                                            *)
(***************************************************************************)
EXTENDS Integers

NoNumber == -1

Line(verb, arg, number) == [verb |-> verb, arg |-> arg, number |-> number, rest |-> FALSE]

\* COMMAND_ID_... and the key of CONFIG_KEY_... in event_types.h
COMMAND_ID == [SET_CONFIG |-> 1, ACTUATOR |-> 2, BUTTON |-> 3, OTA |-> 4,
               SECURITY_EVENT |-> 5, GET_STATUS |-> 6]
CONFIG_KEY == [temp_threshold |-> 1, diag_period_ms |-> 2, low_voltage_dv |-> 3,
               frame_period_ms |-> 4]

ParsedCommand(id, target, value) ==
  [ok |-> TRUE, commandId |-> id, targetId |-> target, value |-> value]
Rejected == [ok |-> FALSE, commandId |-> 0, targetId |-> 0, value |-> 0]

\* sscanf(line, "<verb> %31s %u", ...) == 2.  A line is given as its words: that a
\* blank of the format matches any white space, or none, and that %31s cuts a longer
\* argument, is left out.
Scans(line, verb) == line.verb = verb /\ line.number # NoNumber

CommandParser_Parse(line) ==
  CASE Scans(line, "SET") ->
         IF line.arg \in DOMAIN CONFIG_KEY
         THEN ParsedCommand(COMMAND_ID.SET_CONFIG, CONFIG_KEY[line.arg], line.number)
         ELSE Rejected
    [] Scans(line, "ACTUATOR") ->
         IF line.arg = "fan"
         THEN ParsedCommand(COMMAND_ID.ACTUATOR, 1, line.number)
         ELSE Rejected
    [] line = Line("BUTTON", "0", NoNumber) -> ParsedCommand(COMMAND_ID.BUTTON, 0, 0)
    [] line = Line("OTA", "START", NoNumber) -> ParsedCommand(COMMAND_ID.OTA, 0, 1)
    [] line = Line("SECURITY", "INVALID_TOKEN", NoNumber) ->
         ParsedCommand(COMMAND_ID.SECURITY_EVENT, 0, 1)
    [] line = Line("GET", "status", NoNumber) -> ParsedCommand(COMMAND_ID.GET_STATUS, 0, 0)
    [] OTHER -> Rejected
==================================================================================

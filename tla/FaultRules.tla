------------------------------- MODULE FaultRules -------------------------------
(***************************************************************************)
(* How fault_manager.c classifies a signal and what device state follows.  *)
(***************************************************************************)

Severities == {"INFO", "WARNING", "ERROR", "CRITICAL"}
DeviceStates == {"BOOTING", "NORMAL", "DEGRADED", "FAULT"}

classifyFault(e) ==
  CASE e.topic = "SYSTEM_FAULT" -> "CRITICAL"
    [] e.topic = "SECURITY_EVENT" -> "ERROR"
    [] e.topic \in {"POWER_EVENT", "THRESHOLD_CROSSED"} ->
         IF e.code # 0 THEN "WARNING" ELSE "INFO"
    [] e.topic = "NETWORK_STATUS" -> IF e.code # 0 THEN "INFO" ELSE "WARNING"
    [] OTHER -> "INFO"

stateForSeverity(severity) ==
  CASE severity \in {"CRITICAL", "ERROR"} -> "FAULT"
    [] severity = "WARNING" -> "DEGRADED"
    [] severity = "INFO" -> "NORMAL"
=================================================================================

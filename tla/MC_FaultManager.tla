---------------------------- MODULE MC_FaultManager ----------------------------
(***************************************************************************)
(* FaultManager with one signal of each severity and a second code of one  *)
(* of them; a ring of two records overflows at the third fault.            *)
(***************************************************************************)
EXTENDS FaultManager

MCSignals ==
  {[topic |-> "SYSTEM_FAULT", code |-> 0], [topic |-> "SYSTEM_FAULT", code |-> 1],
   [topic |-> "SECURITY_EVENT", code |-> 1], [topic |-> "NETWORK_STATUS", code |-> 0],
   [topic |-> "POWER_EVENT", code |-> 0]}
=============================================================================

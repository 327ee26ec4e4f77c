------------------------------- MODULE MC_BusLog -------------------------------
(***************************************************************************)
(* The instance of MC_EventBus, with the log of each topic.                *)
(***************************************************************************)
EXTENDS MC_EventBus, BusLog
================================================================================

----------------------------- MODULE MC_EventBusISR -----------------------------
(***************************************************************************)
(* EventBusISR on the topics and queues of MC_EventBus, with one interrupt *)
(* on the topic that feeds both queues.                                    *)
(***************************************************************************)
EXTENDS MC_EventBus, EventBusISR

IsrSites == {Site(p1, s1, t1), Site(p2, s2, t2)}
=============================================================================

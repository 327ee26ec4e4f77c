------------------------------ MODULE MC_EventBus ------------------------------
(***************************************************************************)
(* EventBus on a small instance: two publishers and the watchdog, two      *)
(* topics, a queue that both topics feed (fan-in) and a topic that feeds   *)
(* both queues (fan-out).  q1 is full after one event, q2 after two.       *)
(***************************************************************************)
EXTENDS EventBus

CONSTANTS p1, p2, wd, t1, t2, q1, q2, q3, s1, s2, none

MCSubscriptions == <<<<t1, q1>>, <<t1, q2>>, <<t2, q1>>, <<t1, q3>>>>
MCQueueLength == [q \in Queues |-> IF q = q1 THEN 1 ELSE 2]

Site(p, s, t) == [task |-> p, source |-> s, topic |-> t, stamped |-> TRUE]
Unstamped(p, t) == [task |-> p, source |-> ZeroSource, topic |-> t, stamped |-> FALSE]

\* Every publisher names itself.
OwnSources == {Site(p1, s1, t1), Site(p1, s1, t2), Site(p2, s2, t1), Unstamped(wd, t2)}

\* p2 publishes under the name of p1, as publishSimple makes Storage, Cloud and
\* SensorManager publish under the name of HealthManager.
SharedSource == {Site(p1, s1, t1), Site(p2, s1, t1)}
=============================================================================

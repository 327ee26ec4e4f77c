------------------------------- MODULE TopicLog -------------------------------
(***************************************************************************)
(* What the event bus promises to those who use it: each topic is a log.   *)
(* A publication appends one event and offers it to every subscriber of    *)
(* the topic once; each subscriber takes it or loses it.  The next event   *)
(* of the topic comes only when the offer is over.                         *)
(***************************************************************************)
EXTENDS Sequences

CONSTANTS
  Topics,
  Queues,
  Events,
  Audience          \* the subscribers of each topic

VARIABLES
  log,              \* the events published on each topic, in order
  given,            \* what each queue was given, in order
  offered           \* the subscribers yet to be offered the last event of the log

Init ==
  /\ log = [t \in Topics |-> <<>>]
  /\ given = [q \in Queues |-> <<>>]
  /\ offered = [t \in Topics |-> {}]

Newest(t) == log[t][Len(log[t])]

Publish(t) ==
  /\ offered[t] = {}
  /\ offered' = [offered EXCEPT ![t] = Audience[t]]
  /\ Newest(t)' \in Events
  /\ log' = [log EXCEPT ![t] = Append(@, Newest(t)')]
  /\ UNCHANGED given

Deliver(t, q) ==
  /\ q \in offered[t]
  /\ offered' = [offered EXCEPT ![t] = @ \ {q}]
  /\ given' = [given EXCEPT ![q] = Append(@, Newest(t))]
  /\ UNCHANGED log

Drop(t, q) ==
  /\ q \in offered[t]
  /\ offered' = [offered EXCEPT ![t] = @ \ {q}]
  /\ UNCHANGED <<log, given>>

Next ==
  \E t \in Topics :
    \/ Publish(t)
    \/ \E q \in Queues : Deliver(t, q) \/ Drop(t, q)

Spec == Init /\ [][Next]_<<log, given, offered>>
===============================================================================

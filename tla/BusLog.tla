-------------------------------- MODULE BusLog --------------------------------
(***************************************************************************)
(* EventBus implements TopicLog.  The log is a history variable; the rest  *)
(* of the abstract state is read off the queues and the loops of           *)
(* Bus_PublishWithCount.                                                   *)
(***************************************************************************)
EXTENDS EventBus

VARIABLE log        \* history: the events published on each topic

Publishing(p) == pc[p] = "publish" /\ pc'[p] = "send"

LogInit == Init /\ log = [t \in Topics |-> <<>>]

LogNext ==
  /\ Next
  /\ log' = [t \in Topics |->
               IF \E p \in Tasks : Publishing(p) /\ evt[p].topic = t
               THEN Append(log[t], evt[CHOOSE p \in Tasks : Publishing(p)])
               ELSE log[t]]

LogSpec == LogInit /\ [][LogNext]_<<vars, log>> /\ Fairness

-----------------------------------------------------------------------------
(***************************************************************************)
(* The refinement.                                                         *)
(***************************************************************************)

\* The Bus_Subscribe calls that succeed: the first MAX_SUBSCRIBERS_PER_TOPIC of
\* each topic.
Audience ==
  [t \in Topics |->
     {Subscriptions[i][2] : i \in
        {i \in DOMAIN Subscriptions :
           /\ Subscriptions[i][1] = t
           /\ Cardinality({j \in 1 .. i - 1 : Subscriptions[j][1] = t})
                < MAX_SUBSCRIBERS_PER_TOPIC}}]

\* The subscribers that the loop of a publisher on topic t has not reached; the
\* one at idx counts as reached once xQueueSend has returned.
Unreached(t) ==
  {subscribers[t][i] : i \in
     {i \in DOMAIN subscribers[t] :
        \E p \in Tasks :
          /\ evt[p].topic = t
          /\ \/ pc[p] = "send" /\ i >= idx[p]
             \/ pc[p] \in {"sent", "drop", "dropped"} /\ i > idx[p]}}

Log == INSTANCE TopicLog WITH
         Events <- Event,
         given <- [q \in Queues |-> Delivered(q)],
         offered <- [t \in Topics |-> Unreached(t)]

\* event_bus.h: a publication on a topic goes to every subscriber of it.  Seen from
\* outside, each topic is one log: although publishers interleave, every event is
\* offered to every subscriber once before the next event of its topic, nobody
\* sees an event that was not published, and a queue is given the events of a
\* topic in the log's order, with gaps where it was full.
ImplementsTopicLog == Log!Spec
===============================================================================

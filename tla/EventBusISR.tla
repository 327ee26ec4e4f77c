------------------------------ MODULE EventBusISR ------------------------------
(***************************************************************************)
(* EventBus with an interrupt handler that calls Bus_PublishFromISR, as    *)
(* porting_guide.md asks of GPIO and DMA publishers.  The handler runs to  *)
(* completion between two instructions of a task, takes no mutex and       *)
(* allocates no event id.                                                  *)
(*                                                                         *)
(* A counter that the handler increments while a task is between the load  *)
(* and the store of an increment of the same counter loses the handler's   *)
(* increments.  The steps of EventBus contain that pair of instructions,   *)
(* so a task that is about to take the step may already have loaded: the   *)
(* loss is a choice.                                                       *)
(***************************************************************************)
EXTENDS EventBus, Functions

CONSTANTS
  IsrTopics,        \* topics the handler publishes on
  IsrSource,        \* the sourceTask it fills in
  MaxIsr            \* bound: number of interrupts

ASSUME IsrAssumption == IsrTopics \subseteq Topics /\ IsrSource \in Sources

VARIABLES
  isrCount,         \* number of interrupts so far (for MaxIsr)
  drops             \* history: the rejected sends of each topic

isrVars == <<vars, isrCount, drops>>

IsrInit == Init /\ isrCount = 0 /\ drops = [t \in Topics |-> 0]

IsrEvent(t) == [topic |-> t, eventId |-> 0, sequence |-> 0, source |-> IsrSource,
                payload |-> NoPayload]

\* Some publisher on t may have loaded the counter it increments at step.
MayLose(t, step) == \E p \in Tasks : pc[p] = step /\ evt[p].topic = t

\* Variant: the handler counts each attempt as well as its outcome.
Added_Twice(n, t, step) == {2 * n}

\* What n increments by the handler add to a counter of topic t.
Added(n, t, step) == {n} \cup (IF MayLose(t, step) THEN {0} ELSE {})

HasRoom(q) == Len(queue[q]) < QueueLength[q]

\* A queue that subscribed once gets the event once.
Bus_PublishFromISR(t) ==
  LET subs == Range(subscribers[t])
      room == {q \in subs : HasRoom(q)}
      full == subs \ room
  IN
  /\ Running
  /\ isrCount < MaxIsr
  /\ queue' = [q \in Queues |-> IF q \in room THEN Append(queue[q], IsrEvent(t)) ELSE queue[q]]
  /\ \E pub \in Added(1, t, "publish"), del \in Added(Cardinality(room), t, "sent"),
        drp \in Added(Cardinality(full), t, "dropped") :
       stats' = [stats EXCEPT ![t].published = @ + pub,
                              ![t].delivered = @ + del,
                              ![t].dropped = @ + drp,
                              ![t].subscribers = Len(subscribers[t])]
  /\ \E tot \in {Cardinality(full)} \cup
                (IF \E p \in Tasks : pc[p] = "drop" THEN {0} ELSE {}) :
       s_dropCount' = s_dropCount + tot
  /\ isrCount' = isrCount + 1
  /\ drops' = [drops EXCEPT ![t] = @ + Cardinality(full)]
  /\ UNCHANGED <<registryVars, lock, s_nextEventId, s_taskSequences, received, pc,
                 localVars, snapshot>>

TaskNext ==
  /\ Next
  /\ drops' = [t \in Topics |-> drops[t] +
        Cardinality({p \in Tasks : evt[p].topic = t /\ pc[p] = "send" /\ pc'[p] = "drop"})]
  /\ UNCHANGED isrCount

IsrNext == TaskNext \/ \E t \in IsrTopics : Bus_PublishFromISR(t)

IsrSpec == IsrInit /\ [][IsrNext]_isrVars

-----------------------------------------------------------------------------
\* In spite of interrupts a counter is never ahead of what it counts: no
\* delivery and no drop is reported that did not happen.
CountersNeverAhead ==
  /\ \A t \in Topics :
       /\ stats[t].delivered <= Cardinality(Deliveries(t))
       /\ stats[t].dropped <= drops[t]
  /\ s_dropCount <= Cardinality(UNION {{t} \X (1 .. drops[t]) : t \in Topics})
=============================================================================

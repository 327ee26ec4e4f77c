------------------------------- MODULE EventBus -------------------------------
(***************************************************************************)
(* The publish/subscribe event bus of event_bus.c, with makeEvent of       *)
(* app_tasks.c, at the granularity at which FreeRTOS can switch tasks.     *)
(*                                                                         *)
(* A critical section that runs under one mutex and neither blocks nor     *)
(* takes another mutex inside is one step.  Bus_PublishWithCount holds the *)
(* topic's mutex over many steps: other tasks receive from the queues and  *)
(* publish on other topics while it fans out, and it takes s_dropLock      *)
(* inside.  Any interleaving of tasks is allowed, a superset of what the   *)
(* priorities of FreeRTOS allow.                                           *)
(***************************************************************************)
EXTENDS Naturals, Sequences, FiniteSets

CONSTANTS
  Topics,                     \* EventTopic_t
  Queues,                     \* the subscribers' FreeRTOS queues
  Tasks,                      \* the tasks that publish
  NoTask,                     \* the holder of a free mutex
  Sources,                    \* TaskID_t, the values of Event_t.sourceTask
  CallSites,                  \* the tasks' publish calls (see CallSite)
  Payloads,                   \* what Event_t.payload may carry
  NoPayload,                  \* an all-zero payload
  ZeroSource,                 \* the sourceTask of an event initialised to zeros
  Subscriptions,              \* the Bus_Subscribe calls of start-up, in order
  QueueLength,                \* uxQueueLength of each queue
  MAX_SUBSCRIBERS_PER_TOPIC,
  StatsTopic,                 \* the topic whose statistics Diagnostics reads
  MaxEvents                   \* bound: number of publish calls

(***************************************************************************)
(* A place in the code where task publishes on topic.  A stamped call      *)
(* builds its event with makeEvent, which numbers it from the counter of   *)
(* source; an unstamped one (the watchdog's) fills in an Event_t itself.   *)
(***************************************************************************)
CallSite == [task : Tasks, source : Sources, topic : Topics, stamped : BOOLEAN]

ASSUME BusAssumption ==
  /\ NoTask \notin Tasks
  /\ CallSites \subseteq CallSite
  /\ ZeroSource \in Sources
  /\ Subscriptions \in Seq(Topics \X Queues)
  /\ QueueLength \in [Queues -> Nat \ {0}]
  /\ MAX_SUBSCRIBERS_PER_TOPIC \in Nat
  /\ StatsTopic \in Topics
  /\ NoPayload \in Payloads

\* A queue is subscribed to a topic at most once: AppTasks_Start and
\* Watchdog_Init repeat no call.
ASSUME SubscribedOnce ==
  \A i, j \in DOMAIN Subscriptions :
    Subscriptions[i] = Subscriptions[j] => i = j

VARIABLES
  booted,           \* how many of the Subscriptions calls have returned
  subscribers,      \* s_registry[t].subscribers[0 .. count-1]
  lock,             \* s_registry[t].lock: its holder
  stats,            \* s_registry[t].stats
  s_dropCount,
  s_nextEventId,
  s_taskSequences,
  queue,            \* the queues' contents
  received,         \* history: what the consumer of each queue has received
  pc,               \* where each task is in makeEvent and Bus_PublishWithCount
  evt,              \* the task's event (evt, then routedEvent)
  idx,              \* the loop counter i, from 1
  accepted,         \* accepted, which becomes *sentCount
  result,           \* result
  snapshot          \* *outStats of the last Bus_GetTopicStats

registryVars == <<booted, subscribers>>
localVars == <<evt, idx, accepted, result>>
vars == <<booted, subscribers, lock, stats, s_dropCount, s_nextEventId,
          s_taskSequences, queue, received, pc, evt, idx, accepted, result,
          snapshot>>

Event == [topic : Topics, eventId : Nat, sequence : Nat, source : Sources,
          payload : Payloads]

BusTopicStats == [published : Nat, delivered : Nat, dropped : Nat,
                  subscribers : Nat, maxQueueDepth : Nat]

PublishSteps == {"publish", "send", "sent", "drop", "dropped"}
PCs == {"idle", "store", "reload", "alloc", "lock"} \cup PublishSteps

TypeOK ==
  /\ booted \in 0 .. Len(Subscriptions)
  /\ subscribers \in [Topics -> Seq(Queues)]
  /\ lock \in [Topics -> Tasks \cup {NoTask}]
  /\ stats \in [Topics -> BusTopicStats]
  /\ s_dropCount \in Nat
  /\ s_nextEventId \in Nat
  /\ s_taskSequences \in [Sources -> Nat]
  /\ queue \in [Queues -> Seq(Event)]
  /\ received \in [Queues -> Seq(Event)]
  /\ pc \in [Tasks -> PCs]
  /\ evt \in [Tasks -> Event]
  /\ idx \in [Tasks -> Nat]
  /\ accepted \in [Tasks -> Nat]
  /\ result \in [Tasks -> BOOLEAN]
  /\ snapshot \in BusTopicStats

ZeroStats == [published |-> 0, delivered |-> 0, dropped |-> 0,
              subscribers |-> 0, maxQueueDepth |-> 0]

NoEvent == [topic |-> StatsTopic, eventId |-> 0, sequence |-> 0,
            source |-> ZeroSource, payload |-> NoPayload]

\* The state Bus_Init leaves.
Init ==
  /\ booted = 0
  /\ subscribers = [t \in Topics |-> <<>>]
  /\ lock = [t \in Topics |-> NoTask]
  /\ stats = [t \in Topics |-> ZeroStats]
  /\ s_dropCount = 0
  /\ s_nextEventId = 1
  /\ s_taskSequences = [s \in Sources |-> 0]
  /\ queue = [q \in Queues |-> <<>>]
  /\ received = [q \in Queues |-> <<>>]
  /\ pc = [p \in Tasks |-> "idle"]
  /\ evt = [p \in Tasks |-> NoEvent]
  /\ idx = [p \in Tasks |-> 1]
  /\ accepted = [p \in Tasks |-> 0]
  /\ result = [p \in Tasks |-> TRUE]
  /\ snapshot = ZeroStats

-----------------------------------------------------------------------------
(***************************************************************************)
(* Start-up: main runs the Bus_Subscribe calls one after the other before  *)
(* vTaskStartScheduler, and ignores what they return.                      *)
(***************************************************************************)

Running == booted = Len(Subscriptions)

Bus_Subscribe ==
  /\ ~Running
  /\ LET t == Subscriptions[booted + 1][1]
         q == Subscriptions[booted + 1][2]
     IN \/ /\ Len(subscribers[t]) >= MAX_SUBSCRIBERS_PER_TOPIC   \* pdFAIL
           /\ UNCHANGED <<subscribers, stats>>
        \/ /\ Len(subscribers[t]) < MAX_SUBSCRIBERS_PER_TOPIC
           /\ subscribers' = [subscribers EXCEPT ![t] = Append(@, q)]
           /\ stats' = [stats EXCEPT ![t].subscribers = Len(subscribers[t]) + 1]
  /\ booted' = booted + 1
  /\ UNCHANGED <<lock, s_dropCount, s_nextEventId, s_taskSequences, queue,
                 received, pc, localVars, snapshot>>

-----------------------------------------------------------------------------
(***************************************************************************)
(* makeEvent: ++s_taskSequences[source] has no lock.  The build (gcc       *)
(* without optimisation) loads the counter, stores the successor, and      *)
(* loads it again for evt.sequence, so two tasks that name the same source *)
(* can interleave at these points.                                         *)
(***************************************************************************)

\* The bound MaxEvents: calls that have their id, and calls still without one.
MayStart ==
  s_nextEventId + Cardinality({p \in Tasks : pc[p] \in {"store", "reload", "alloc"}})
    <= MaxEvents

\* Variant: the sequence number comes from a local variable.
MakeEvent_Load_LocalCounter(p, site, x) ==
  /\ Running
  /\ pc[p] = "idle"
  /\ site.task = p
  /\ site.stamped
  /\ evt' = [evt EXCEPT ![p] =
              [topic |-> site.topic, eventId |-> 0, sequence |-> 1,
               source |-> site.source, payload |-> x]]
  /\ pc' = [pc EXCEPT ![p] = "alloc"]
  /\ UNCHANGED <<registryVars, lock, stats, s_dropCount, s_nextEventId,
                 s_taskSequences, queue, received, idx, accepted, result,
                 snapshot>>

MakeEvent_Load(p, site, x) ==
  /\ Running
  /\ pc[p] = "idle"
  /\ site.task = p
  /\ site.stamped
  /\ evt' = [evt EXCEPT ![p] =
              [topic |-> site.topic, eventId |-> 0,
               sequence |-> s_taskSequences[site.source] + 1,
               source |-> site.source, payload |-> x]]
  /\ pc' = [pc EXCEPT ![p] = "store"]
  /\ UNCHANGED <<registryVars, lock, stats, s_dropCount, s_nextEventId,
                 s_taskSequences, queue, received, idx, accepted, result,
                 snapshot>>

MakeEvent_Store(p) ==
  /\ pc[p] = "store"
  /\ s_taskSequences' = [s_taskSequences EXCEPT ![evt[p].source] = evt[p].sequence]
  /\ pc' = [pc EXCEPT ![p] = "reload"]
  /\ UNCHANGED <<registryVars, lock, stats, s_dropCount, s_nextEventId, queue,
                 received, localVars, snapshot>>

MakeEvent_Reload(p) ==
  /\ pc[p] = "reload"
  /\ evt' = [evt EXCEPT ![p].sequence = s_taskSequences[evt[p].source]]
  /\ pc' = [pc EXCEPT ![p] = "alloc"]
  /\ UNCHANGED <<registryVars, lock, stats, s_dropCount, s_nextEventId,
                 s_taskSequences, queue, received, idx, accepted, result,
                 snapshot>>

\* The watchdog's fault event: every field it does not set is zero.
UnstampedEvent(p, site, x) ==
  /\ Running
  /\ pc[p] = "idle"
  /\ site.task = p
  /\ ~site.stamped
  /\ evt' = [evt EXCEPT ![p] = [topic |-> site.topic, eventId |-> 0, sequence |-> 0,
                                source |-> ZeroSource, payload |-> x]]
  /\ pc' = [pc EXCEPT ![p] = "alloc"]
  /\ UNCHANGED <<registryVars, lock, stats, s_dropCount, s_nextEventId,
                 s_taskSequences, queue, received, idx, accepted, result,
                 snapshot>>

(***************************************************************************)
(* Bus_Publish and Bus_PublishWithCount.  Every caller passes eventId 0,   *)
(* so the bus always allocates one, under s_dropLock.                      *)
(***************************************************************************)

\* Variant: without s_dropLock two allocations can load the same value.
AllocateEventId_Unlocked(p) ==
  /\ pc[p] = "alloc"
  /\ evt' = [evt EXCEPT ![p].eventId = s_nextEventId]
  /\ s_nextEventId' = IF \E r \in Tasks \ {p} : pc[r] = "alloc"
                      THEN s_nextEventId ELSE s_nextEventId + 1
  /\ pc' = [pc EXCEPT ![p] = "lock"]
  /\ UNCHANGED <<registryVars, lock, stats, s_dropCount, s_taskSequences, queue,
                 received, idx, accepted, result, snapshot>>

AllocateEventId(p) ==
  /\ pc[p] = "alloc"
  /\ evt' = [evt EXCEPT ![p].eventId = s_nextEventId]
  /\ s_nextEventId' = s_nextEventId + 1
  /\ pc' = [pc EXCEPT ![p] = "lock"]
  /\ UNCHANGED <<registryVars, lock, stats, s_dropCount, s_taskSequences, queue,
                 received, idx, accepted, result, snapshot>>

\* Variant: the publisher does not wait for the topic's mutex.
Publish_TakeLock_Missing(p) ==
  /\ pc[p] = "lock"
  /\ lock' = [lock EXCEPT ![evt[p].topic] = p]
  /\ pc' = [pc EXCEPT ![p] = "publish"]
  /\ UNCHANGED <<registryVars, stats, s_dropCount, s_nextEventId,
                 s_taskSequences, queue, received, localVars, snapshot>>

\* xSemaphoreTake(entry->lock, portMAX_DELAY)
Publish_TakeLock(p) ==
  /\ pc[p] = "lock"
  /\ lock[evt[p].topic] = NoTask
  /\ lock' = [lock EXCEPT ![evt[p].topic] = p]
  /\ pc' = [pc EXCEPT ![p] = "publish"]
  /\ UNCHANGED <<registryVars, stats, s_dropCount, s_nextEventId,
                 s_taskSequences, queue, received, localVars, snapshot>>

\* The updates of entry->stats.
IncPublished(s) == [s EXCEPT !.published = s.published + 1]
SetSubscribers(s, count) == [s EXCEPT !.subscribers = count]
IncDelivered(s) == [s EXCEPT !.delivered = s.delivered + 1]
RaiseDepth(s, depth) ==
  [s EXCEPT !.maxQueueDepth = IF depth > s.maxQueueDepth THEN depth ELSE s.maxQueueDepth]
\* Variant: the counter runs the wrong way.
IncDropped_Down(s) == [s EXCEPT !.dropped = s.dropped - 1]

IncDropped(s) == [s EXCEPT !.dropped = s.dropped + 1]

Publish_Begin(p) ==
  LET t == evt[p].topic IN
  /\ pc[p] = "publish"
  /\ stats' = [stats EXCEPT ![t] = SetSubscribers(IncPublished(@), Len(subscribers[t]))]
  /\ idx' = [idx EXCEPT ![p] = 1]
  /\ accepted' = [accepted EXCEPT ![p] = 0]
  /\ result' = [result EXCEPT ![p] = TRUE]
  /\ pc' = [pc EXCEPT ![p] = "send"]
  /\ UNCHANGED <<registryVars, lock, s_dropCount, s_nextEventId,
                 s_taskSequences, queue, received, evt, snapshot>>

\* entry->subscribers[i], while the loop runs
Current(p) == subscribers[evt[p].topic][idx[p]]

\* Variant: the loop stops before the last subscriber.
InLoop_OffByOne(p) == idx[p] < Len(subscribers[evt[p].topic])

InLoop(p) == idx[p] <= Len(subscribers[evt[p].topic])

\* Variant: the events of one source are sent to the front of the queue.
SendAccepted_Overtakes(p) ==
  LET q == Current(p)
      overtakes == evt[p].source = ZeroSource /\ \A i \in DOMAIN queue[q] : queue[q][i].source # ZeroSource
  IN
  /\ pc[p] = "send"
  /\ InLoop(p)
  /\ Len(queue[q]) < QueueLength[q]
  /\ queue' = [queue EXCEPT ![q] = IF overtakes THEN <<evt[p]>> \o @ ELSE Append(@, evt[p])]
  /\ pc' = [pc EXCEPT ![p] = "sent"]
  /\ UNCHANGED <<registryVars, lock, stats, s_dropCount, s_nextEventId,
                 s_taskSequences, received, localVars, snapshot>>

\* xQueueSend(..., 0) finds room.
SendAccepted(p) ==
  /\ pc[p] = "send"
  /\ InLoop(p)
  /\ Len(queue[Current(p)]) < QueueLength[Current(p)]
  /\ queue' = [queue EXCEPT ![Current(p)] = Append(@, evt[p])]
  /\ pc' = [pc EXCEPT ![p] = "sent"]
  /\ UNCHANGED <<registryVars, lock, stats, s_dropCount, s_nextEventId,
                 s_taskSequences, received, localVars, snapshot>>

\* The depth is read after the send: the subscriber may have received since.
CountDelivered(p) ==
  /\ pc[p] = "sent"
  /\ stats' = [stats EXCEPT ![evt[p].topic] =
                 RaiseDepth(IncDelivered(@), Len(queue[Current(p)]))]
  /\ accepted' = [accepted EXCEPT ![p] = @ + 1]
  /\ idx' = [idx EXCEPT ![p] = @ + 1]
  /\ pc' = [pc EXCEPT ![p] = "send"]
  /\ UNCHANGED <<registryVars, lock, s_dropCount, s_nextEventId,
                 s_taskSequences, queue, received, evt, result, snapshot>>

\* Variant: xQueueSend waits until there is room.
SendRejected_Blocks(p) ==
  /\ pc[p] = "send"
  /\ InLoop(p)
  /\ Len(queue[Current(p)]) >= QueueLength[Current(p)]
  /\ UNCHANGED vars

\* Variant: the result of xQueueSend is ignored.
SendRejected_Ignored(p) ==
  /\ pc[p] = "send"
  /\ InLoop(p)
  /\ Len(queue[Current(p)]) >= QueueLength[Current(p)]
  /\ pc' = [pc EXCEPT ![p] = "sent"]
  /\ UNCHANGED <<registryVars, lock, stats, s_dropCount, s_nextEventId,
                 s_taskSequences, queue, received, localVars, snapshot>>

\* xQueueSend(..., 0) returns errQUEUE_FULL at once.
SendRejected(p) ==
  /\ pc[p] = "send"
  /\ InLoop(p)
  /\ Len(queue[Current(p)]) >= QueueLength[Current(p)]
  /\ pc' = [pc EXCEPT ![p] = "drop"]
  /\ UNCHANGED <<registryVars, lock, stats, s_dropCount, s_nextEventId,
                 s_taskSequences, queue, received, localVars, snapshot>>

\* Variant: only the topic's own counter is incremented.
IncrementDropCount_Missing(p) ==
  /\ pc[p] = "drop"
  /\ pc' = [pc EXCEPT ![p] = "dropped"]
  /\ UNCHANGED <<registryVars, lock, stats, s_dropCount, s_nextEventId,
                 s_taskSequences, queue, received, localVars, snapshot>>

IncrementDropCount(p) ==
  /\ pc[p] = "drop"
  /\ s_dropCount' = s_dropCount + 1
  /\ pc' = [pc EXCEPT ![p] = "dropped"]
  /\ UNCHANGED <<registryVars, lock, stats, s_nextEventId, s_taskSequences,
                 queue, received, localVars, snapshot>>

\* Variant: result stays pdPASS after a drop.
CountDropped_Passes(p) ==
  /\ pc[p] = "dropped"
  /\ stats' = [stats EXCEPT ![evt[p].topic] = IncDropped(@)]
  /\ idx' = [idx EXCEPT ![p] = @ + 1]
  /\ pc' = [pc EXCEPT ![p] = "send"]
  /\ UNCHANGED <<registryVars, lock, s_dropCount, s_nextEventId, s_taskSequences,
                 queue, received, evt, accepted, result, snapshot>>

CountDropped(p) ==
  /\ pc[p] = "dropped"
  /\ stats' = [stats EXCEPT ![evt[p].topic] = IncDropped(@)]
  /\ result' = [result EXCEPT ![p] = FALSE]
  /\ idx' = [idx EXCEPT ![p] = @ + 1]
  /\ pc' = [pc EXCEPT ![p] = "send"]
  /\ UNCHANGED <<registryVars, lock, s_dropCount, s_nextEventId,
                 s_taskSequences, queue, received, evt, accepted, snapshot>>

\* The loop is over: xSemaphoreGive, *sentCount = accepted, return result.
Publish_Return(p) ==
  /\ pc[p] = "send"
  /\ ~InLoop(p)
  /\ lock' = [lock EXCEPT ![evt[p].topic] = NoTask]
  /\ pc' = [pc EXCEPT ![p] = "idle"]
  /\ UNCHANGED <<registryVars, stats, s_dropCount, s_nextEventId,
                 s_taskSequences, queue, received, localVars, snapshot>>

\* One step of a publish call that has begun.
PublishStep(p) ==
  \/ MakeEvent_Store(p)
  \/ MakeEvent_Reload(p)
  \/ AllocateEventId(p)
  \/ Publish_TakeLock(p)
  \/ Publish_Begin(p)
  \/ SendAccepted(p)
  \/ CountDelivered(p)
  \/ SendRejected(p)
  \/ IncrementDropCount(p)
  \/ CountDropped(p)
  \/ Publish_Return(p)

-----------------------------------------------------------------------------
(***************************************************************************)
(* The rest of the bus's clients.                                          *)
(***************************************************************************)

\* xQueueReceive finds an event (FreeRTOS): a subscriber takes the oldest one.
XQueueReceive(q) ==
  /\ queue[q] # <<>>
  /\ received' = [received EXCEPT ![q] = Append(@, Head(queue[q]))]
  /\ queue' = [queue EXCEPT ![q] = Tail(@)]
  /\ UNCHANGED <<registryVars, lock, stats, s_dropCount, s_nextEventId,
                 s_taskSequences, pc, localVars, snapshot>>

\* Variant: the copy is made without the mutex.
Bus_GetTopicStats_Unlocked ==
  /\ Running
  /\ snapshot' = stats[StatsTopic]
  /\ UNCHANGED <<registryVars, lock, stats, s_dropCount, s_nextEventId,
                 s_taskSequences, queue, received, pc, localVars>>

\* The statistics are copied under the topic's mutex.
Bus_GetTopicStats ==
  /\ Running
  /\ lock[StatsTopic] = NoTask
  /\ snapshot' = stats[StatsTopic]
  /\ UNCHANGED <<registryVars, lock, stats, s_dropCount, s_nextEventId,
                 s_taskSequences, queue, received, pc, localVars>>

\* The bound MaxEvents is reached and everything has been received.
Quiescent ==
  /\ Running
  /\ ~MayStart
  /\ \A p \in Tasks : pc[p] = "idle"
  /\ \A q \in Queues : queue[q] = <<>>
  /\ UNCHANGED vars

Next ==
  \/ Bus_Subscribe
  \/ /\ MayStart
     /\ \E p \in Tasks, site \in CallSites, x \in Payloads :
          \/ MakeEvent_Load(p, site, x)
          \/ UnstampedEvent(p, site, x)
  \/ \E p \in Tasks : PublishStep(p)
  \/ \E q \in Queues : XQueueReceive(q)
  \/ Bus_GetTopicStats
  \/ Quiescent

(***************************************************************************)
(* A task that is ready to run eventually runs: every task of the program  *)
(* blocks in vTaskDelay or xQueueReceive once per loop, so that none       *)
(* occupies the processor for ever.  Nothing is assumed of the consumers.  *)
(***************************************************************************)
Fairness == \A p \in Tasks : WF_vars(PublishStep(p))

Spec == Init /\ [][Next]_vars /\ Fairness

-----------------------------------------------------------------------------
(***************************************************************************)
(* Properties.                                                             *)
(***************************************************************************)

\* The topic's mutex protects its statistics: it is held exactly by the task
\* between xSemaphoreTake and xSemaphoreGive in Bus_PublishWithCount.
LockOwner ==
  \A t \in Topics, p \in Tasks :
    lock[t] = p <=> pc[p] \in PublishSteps /\ evt[p].topic = t

\* Whenever no publish is in progress on a topic, each event published on it was
\* offered to every subscriber once: it was delivered to it or counted as
\* dropped (event_bus.c: published, delivered and dropped of BusTopicStats_t).
StatsBalance ==
  \A t \in Topics :
    Running /\ lock[t] = NoTask =>
      stats[t].delivered + stats[t].dropped
        = stats[t].published * Len(subscribers[t])

\* The copy that Bus_GetTopicStats hands to Diagnostics is never half of an
\* update, although publishers update the fields one at a time.
SnapshotConsistent ==
  /\ snapshot.delivered + snapshot.dropped
       = snapshot.published * snapshot.subscribers
  /\ snapshot.published > 0 => snapshot.subscribers = Len(subscribers[StatsTopic])

\* What the consumer of queue q has seen or will see, in order.
Delivered(q) == received[q] \o queue[q]

\* Bus_GetDropCount agrees with the topics' own drop counters, but for the
\* drops that publishers have counted in the first and not yet in the second.
DropCountExact ==
  s_dropCount = Cardinality(UNION {{t} \X (1 .. stats[t].dropped) : t \in Topics})
                  + Cardinality({p \in Tasks : pc[p] = "dropped"})

\* The events of topic t in the queues and taken from them, by queue and place.
Deliveries(t) ==
  UNION {{q} \X {i \in DOMAIN Delivered(q) : Delivered(q)[i].topic = t} : q \in Queues}

\* What the topic's counter of deliveries says is what the queues were given, but
\* for the event that a publisher has sent and not yet counted.
DeliveredExact ==
  \A t \in Topics :
    stats[t].delivered + Cardinality({p \in Tasks : pc[p] = "sent" /\ evt[p].topic = t})
      = Cardinality(Deliveries(t))

\* A subscriber sees all events that carry one publisher's name with increasing
\* sequence numbers, across topics and in spite of drops (event_bus.h:
\* "publisher-local sequence").  It fails where two tasks publish under one name,
\* and where a call site leaves the number at zero, as the watchdog's fault does.
SourceFifo ==
  \A q \in Queues : \A i, j \in DOMAIN Delivered(q) :
    i < j /\ Delivered(q)[i].source = Delivered(q)[j].source =>
      Delivered(q)[i].sequence < Delivered(q)[j].sequence

\* What is left of SourceFifo for the events that makeEvent numbers: those of one
\* name arrive with increasing numbers.  Events with sequence 0 are exempt: the
\* watchdog fills in its SYSTEM_FAULT itself (watchdog_task.c), with the number 0
\* and the name of the first task, so 0 does appear between two numbers of a name.
StampedInOrder ==
  \A q \in Queues : \A i, j \in DOMAIN Delivered(q) :
    (/\ i < j
     /\ Delivered(q)[i].source = Delivered(q)[j].source
     /\ Delivered(q)[i].sequence # 0 /\ Delivered(q)[j].sequence # 0)
      => Delivered(q)[i].sequence < Delivered(q)[j].sequence

\* The global id identifies an event: one subscriber never sees it twice, and
\* two subscribers that see the same id see the same event.
EventIdIdentifies ==
  \A q1, q2 \in Queues :
    \A i \in DOMAIN Delivered(q1) : \A j \in DOMAIN Delivered(q2) :
      Delivered(q1)[i].eventId = Delivered(q2)[j].eventId =>
        Delivered(q1)[i] = Delivered(q2)[j] /\ (q1 = q2 => i = j)

\* When Bus_PublishWithCount is about to return, *sentCount is the number of
\* subscribers that hold or have received the event, and the result is pdPASS
\* exactly when that is all of them.
SentCountExact ==
  \A p \in Tasks :
    LET subs == subscribers[evt[p].topic] IN
    pc[p] = "send" /\ idx[p] > Len(subs) =>
      /\ accepted[p] = Cardinality({i \in DOMAIN subs :
                          \E k \in DOMAIN Delivered(subs[i]) :
                            Delivered(subs[i])[k] = evt[p]})
      /\ result[p] <=> accepted[p] = Len(subs)

\* "Never stall publisher for a slow subscriber": a publish call returns even if
\* no subscriber ever receives again.
PublishCompletes == \A p \in Tasks : pc[p] # "idle" ~> pc[p] = "idle"
=============================================================================

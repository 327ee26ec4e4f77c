---------------------------- MODULE EventBusProofs ----------------------------
(***************************************************************************)
(* For every set of topics, queues, tasks, call sites and subscriptions:   *)
(* the types, the ownership of the topics' mutexes, the consistency of the *)
(* statistics that the mutexes protect, and what reaches the subscribers:  *)
(* the global id identifies an event, *sentCount counts the subscribers    *)
(* that got it, each source is seen in its own order, the counters of      *)
(* deliveries and drops are exact, and each publish call draws to its end. *)
(***************************************************************************)
EXTENDS EventBus, FiniteSetTheorems, SequenceTheorems, TLAPS

-----------------------------------------------------------------------------
(* The inductive invariant.                                                *)

Offering == {"sent", "drop", "dropped"}

\* The loop counter of Bus_PublishWithCount stays within the subscriber list.
LoopBounds ==
  \A p \in Tasks :
    /\ idx[p] >= 1
    /\ pc[p] \in Offering => idx[p] <= Len(subscribers[evt[p].topic])
    /\ pc[p] = "send" => idx[p] <= Len(subscribers[evt[p].topic]) + 1

\* Nothing is published before the last Bus_Subscribe has returned.
QuietStart ==
  ~Running =>
    /\ \A p \in Tasks : pc[p] = "idle"
    /\ \A t \in Topics : stats[t].published = 0 /\ stats[t].delivered = 0
                           /\ stats[t].dropped = 0
    /\ snapshot = ZeroStats

\* Deliveries and drops of topic t, when its last event has been offered to the
\* first n - 1 subscribers only and the earlier ones to all.
Offered(t, n) ==
  stats[t].delivered + stats[t].dropped + Len(subscribers[t])
    = stats[t].published * Len(subscribers[t]) + (n - 1)

\* StatsBalance in every state: a topic that nobody publishes on is balanced,
\* and a publisher has accounted for the subscribers before its idx.
StatsInv ==
  /\ \A t \in Topics : lock[t] = NoTask => Offered(t, Len(subscribers[t]) + 1)
  /\ \A p \in Tasks :
       /\ pc[p] = "publish" => Offered(evt[p].topic, Len(subscribers[evt[p].topic]) + 1)
       /\ pc[p] \in Offering \cup {"send"} => Offered(evt[p].topic, idx[p])
  /\ \A t \in Topics : stats[t].subscribers = Len(subscribers[t])

BusInv ==
  TypeOK /\ LockOwner /\ LoopBounds /\ QuietStart /\ StatsInv /\ SnapshotConsistent

-----------------------------------------------------------------------------
(* Types.                                                                  *)

\* A product of naturals.
LEMMA ProductType ==
  ASSUME NEW a \in Nat, NEW b \in Nat
  PROVE  a * b \in Nat
OBVIOUS

\* Bus_Init leaves a state of the right type.
LEMMA InitTypeOK == Init => TypeOK
<1> SUFFICES ASSUME Init PROVE TypeOK
  OBVIOUS
<1>1. NoEvent \in Event /\ ZeroStats \in BusTopicStats
  BY BusAssumption DEF NoEvent, Event, ZeroStats, BusTopicStats
<1>2. Len(Subscriptions) \in Nat
  BY BusAssumption
<1> QED
  BY <1>1, <1>2 DEF Init, TypeOK, PCs

\* While the loop of Bus_PublishWithCount runs, entry->subscribers[i] is a queue.
LEMMA CurrentType ==
  ASSUME TypeOK, NEW p \in Tasks, InLoop(p), idx[p] >= 1
  PROVE  Current(p) \in Queues
<1>1. evt[p].topic \in Topics
  BY DEF TypeOK, Event
<1>2. subscribers[evt[p].topic] \in Seq(Queues)
  BY <1>1 DEF TypeOK
<1>3. idx[p] \in 1 .. Len(subscribers[evt[p].topic])
  BY <1>2 DEF InLoop, TypeOK
<1> QED
  BY <1>2, <1>3 DEF Current

\* What the updates of a topic's statistics do, field by field.
LEMMA StatsUpdates ==
  ASSUME NEW s \in BusTopicStats, NEW n \in Nat
  PROVE  /\ IncPublished(s) \in BusTopicStats
         /\ IncPublished(s).published = s.published + 1
         /\ IncPublished(s).delivered = s.delivered
         /\ IncPublished(s).dropped = s.dropped
         /\ IncPublished(s).subscribers = s.subscribers
         /\ SetSubscribers(s, n) \in BusTopicStats
         /\ SetSubscribers(s, n).published = s.published
         /\ SetSubscribers(s, n).delivered = s.delivered
         /\ SetSubscribers(s, n).dropped = s.dropped
         /\ SetSubscribers(s, n).subscribers = n
         /\ IncDelivered(s) \in BusTopicStats
         /\ IncDelivered(s).published = s.published
         /\ IncDelivered(s).delivered = s.delivered + 1
         /\ IncDelivered(s).dropped = s.dropped
         /\ IncDelivered(s).subscribers = s.subscribers
         /\ RaiseDepth(s, n) \in BusTopicStats
         /\ RaiseDepth(s, n).published = s.published
         /\ RaiseDepth(s, n).delivered = s.delivered
         /\ RaiseDepth(s, n).dropped = s.dropped
         /\ RaiseDepth(s, n).subscribers = s.subscribers
         /\ IncDropped(s) \in BusTopicStats
         /\ IncDropped(s).published = s.published
         /\ IncDropped(s).delivered = s.delivered
         /\ IncDropped(s).dropped = s.dropped + 1
         /\ IncDropped(s).subscribers = s.subscribers
<1>1. /\ IncPublished(s) \in BusTopicStats
      /\ IncPublished(s).published = s.published + 1
      /\ IncPublished(s).delivered = s.delivered
      /\ IncPublished(s).dropped = s.dropped
      /\ IncPublished(s).subscribers = s.subscribers
  BY DEF BusTopicStats, IncPublished
<1>2. /\ SetSubscribers(s, n) \in BusTopicStats
      /\ SetSubscribers(s, n).published = s.published
      /\ SetSubscribers(s, n).delivered = s.delivered
      /\ SetSubscribers(s, n).dropped = s.dropped
      /\ SetSubscribers(s, n).subscribers = n
  BY DEF BusTopicStats, SetSubscribers
<1>3. /\ IncDelivered(s) \in BusTopicStats
      /\ IncDelivered(s).published = s.published
      /\ IncDelivered(s).delivered = s.delivered + 1
      /\ IncDelivered(s).dropped = s.dropped
      /\ IncDelivered(s).subscribers = s.subscribers
  BY DEF BusTopicStats, IncDelivered
<1>4. /\ RaiseDepth(s, n) \in BusTopicStats
      /\ RaiseDepth(s, n).published = s.published
      /\ RaiseDepth(s, n).delivered = s.delivered
      /\ RaiseDepth(s, n).dropped = s.dropped
      /\ RaiseDepth(s, n).subscribers = s.subscribers
  BY DEF BusTopicStats, RaiseDepth
<1>5. /\ IncDropped(s) \in BusTopicStats
      /\ IncDropped(s).published = s.published
      /\ IncDropped(s).delivered = s.delivered
      /\ IncDropped(s).dropped = s.dropped + 1
      /\ IncDropped(s).subscribers = s.subscribers
  BY DEF BusTopicStats, IncDropped
<1> QED
  BY <1>1, <1>2, <1>3, <1>4, <1>5

\* The beginning of a publish call preserves the types.
LEMMA StartTypeOK ==
  ASSUME TypeOK, NEW p \in Tasks, NEW site \in CallSite, NEW x \in Payloads,
         MakeEvent_Load(p, site, x) \/ UnstampedEvent(p, site, x)
  PROVE  TypeOK'
<1>1. site.source \in Sources /\ site.topic \in Topics
  BY DEF CallSite
<1>2. evt' \in [Tasks -> Event]
  <2>1. s_taskSequences[site.source] + 1 \in Nat
    BY <1>1 DEF TypeOK
  <2>2. CASE MakeEvent_Load(p, site, x)
    BY <1>1, <2>1, <2>2 DEF TypeOK, MakeEvent_Load, Event
  <2>3. CASE UnstampedEvent(p, site, x)
    BY <1>1, <2>3, BusAssumption DEF TypeOK, UnstampedEvent, Event
  <2> QED
    BY <2>2, <2>3
<1>3. pc' \in [Tasks -> PCs]
  BY DEF TypeOK, MakeEvent_Load, UnstampedEvent, PCs
<1> QED
  BY <1>2, <1>3 DEF TypeOK, MakeEvent_Load, UnstampedEvent, registryVars

\* So does each step of a publish call, as long as i stays inside the loop.
LEMMA PublishTypeOK ==
  ASSUME TypeOK, NEW p \in Tasks, PublishStep(p), LoopBounds
  PROVE  TypeOK'
<1>0. /\ evt[p] \in Event
      /\ evt[p].topic \in Topics
      /\ evt[p].source \in Sources
      /\ idx[p] >= 1
  BY DEF TypeOK, Event, LoopBounds
<1>1. CASE MakeEvent_Store(p)
  BY <1>0, <1>1 DEF TypeOK, MakeEvent_Store, registryVars, localVars, PCs, Event
<1>2. CASE MakeEvent_Reload(p)
  <2>1. evt' \in [Tasks -> Event]
    BY <1>0, <1>2 DEF TypeOK, MakeEvent_Reload, Event
  <2> QED
    BY <1>2, <2>1 DEF TypeOK, MakeEvent_Reload, registryVars, PCs
<1>3. CASE AllocateEventId(p)
  <2>1. evt' \in [Tasks -> Event]
    BY <1>0, <1>3 DEF TypeOK, AllocateEventId, Event
  <2> QED
    BY <1>3, <2>1 DEF TypeOK, AllocateEventId, registryVars, PCs
<1>4. CASE Publish_TakeLock(p)
  BY <1>0, <1>4 DEF TypeOK, Publish_TakeLock, registryVars, localVars, PCs, PublishSteps
<1>5. CASE Publish_Begin(p)
  <2>1. stats' \in [Topics -> BusTopicStats]
    <3>1. subscribers[evt[p].topic] \in Seq(Queues) /\ stats[evt[p].topic] \in BusTopicStats
      BY <1>0 DEF TypeOK
    <3>2. Len(subscribers[evt[p].topic]) \in Nat
      BY <3>1
    <3> QED
      BY <1>0, <1>5, <3>1, <3>2, StatsUpdates DEF TypeOK, Publish_Begin
  <2> QED
    BY <1>5, <2>1 DEF TypeOK, Publish_Begin, registryVars, PCs, PublishSteps
<1>6. CASE SendAccepted(p)
  <2>1. Current(p) \in Queues
    BY <1>0, <1>6, CurrentType DEF SendAccepted
  <2>2. Append(queue[Current(p)], evt[p]) \in Seq(Event)
    BY <1>0, <2>1 DEF TypeOK
  <2>3. queue' \in [Queues -> Seq(Event)]
    BY <1>6, <2>1, <2>2 DEF TypeOK, SendAccepted
  <2> QED
    BY <1>6, <2>3 DEF TypeOK, SendAccepted, registryVars, localVars, PCs, PublishSteps
<1>7. CASE CountDelivered(p)
  <2>1. stats' \in [Topics -> BusTopicStats]
    <3>1. Current(p) \in Queues
      BY <1>0, <1>7, CurrentType DEF CountDelivered, LoopBounds, Offering, InLoop
    <3>2. Len(queue[Current(p)]) \in Nat
      BY <3>1 DEF TypeOK
    <3> QED
      BY <1>0, <1>7, <3>2, StatsUpdates DEF TypeOK, CountDelivered
  <2> QED
    BY <1>7, <2>1, SMTT(30) DEF TypeOK, CountDelivered, registryVars, PCs, PublishSteps
<1>8. CASE SendRejected(p)
  BY <1>8 DEF TypeOK, SendRejected, registryVars, localVars, PCs, PublishSteps
<1>9. CASE IncrementDropCount(p)
  BY <1>9 DEF TypeOK, IncrementDropCount, registryVars, localVars, PCs, PublishSteps
<1>10. CASE CountDropped(p)
  <2>1. stats' \in [Topics -> BusTopicStats]
    BY <1>0, <1>10, StatsUpdates DEF TypeOK, CountDropped
  <2> QED
    BY <1>10, <2>1 DEF TypeOK, CountDropped, registryVars, PCs, PublishSteps
<1>11. CASE Publish_Return(p)
  BY <1>0, <1>11 DEF TypeOK, Publish_Return, registryVars, localVars, PCs, PublishSteps
<1> QED
  BY <1>1, <1>2, <1>3, <1>4, <1>5, <1>6, <1>7, <1>8, <1>9, <1>10, <1>11 DEF PublishStep

-----------------------------------------------------------------------------
(* What holds whatever the clients of the bus do.                          *)

\* A publish call's loop counter stays within the subscriber list.
LEMMA PublishLoopBounds ==
  ASSUME TypeOK, LoopBounds, NEW p \in Tasks, PublishStep(p)
  PROVE  LoopBounds'
<1>0. /\ pc \in [Tasks -> PCs] /\ evt \in [Tasks -> Event] /\ idx \in [Tasks -> Nat]
      /\ idx[p] \in Nat /\ Len(subscribers[evt[p].topic]) \in Nat
  BY DEF TypeOK, Event
<1>1. /\ subscribers' = subscribers
      /\ \A r \in Tasks \ {p} : pc'[r] = pc[r] /\ evt'[r] = evt[r] /\ idx'[r] = idx[r]
  BY <1>0 DEF PublishStep, MakeEvent_Store, MakeEvent_Reload, AllocateEventId, Publish_TakeLock,
       Publish_Begin, SendAccepted, CountDelivered, SendRejected, IncrementDropCount, CountDropped,
       Publish_Return, registryVars, localVars
<1>2. /\ idx'[p] >= 1
      /\ pc'[p] \in Offering => idx'[p] <= Len(subscribers[evt'[p].topic])
      /\ pc'[p] = "send" => idx'[p] <= Len(subscribers[evt'[p].topic]) + 1
  <2>0. /\ idx[p] >= 1
        /\ pc[p] \in Offering => idx[p] <= Len(subscribers[evt[p].topic])
    BY DEF LoopBounds
  <2>1. CASE MakeEvent_Store(p) \/ MakeEvent_Reload(p) \/ AllocateEventId(p)
             \/ Publish_TakeLock(p) \/ Publish_Return(p)
    BY <1>0, <2>0, <2>1 DEF MakeEvent_Store, MakeEvent_Reload, AllocateEventId, Publish_TakeLock,
       Publish_Return, localVars, Offering
  <2>2. CASE Publish_Begin(p)
    BY <1>0, <2>2 DEF Publish_Begin, Offering
  <2>3. CASE SendAccepted(p) \/ SendRejected(p)
    BY <1>0, <2>0, <2>3 DEF SendAccepted, SendRejected, InLoop, localVars
  <2>4. CASE CountDelivered(p) \/ CountDropped(p)
    BY <1>0, <2>0, <2>4 DEF CountDelivered, CountDropped, Offering
  <2>5. CASE IncrementDropCount(p)
    BY <1>0, <2>0, <2>5 DEF IncrementDropCount, localVars, Offering
  <2> QED
    BY <2>1, <2>2, <2>3, <2>4, <2>5 DEF PublishStep
<1> QED
  BY <1>1, <1>2 DEF LoopBounds

\* Types, loop bounds and the quiet start depend neither on the mutexes nor on
\* the statistics, nor on who calls the bus.
BaseInv ==
  /\ TypeOK
  /\ LoopBounds
  /\ ~Running => \A p \in Tasks : pc[p] = "idle"

\* Bus_Init establishes it.
LEMMA BaseInit == Init => BaseInv
BY InitTypeOK DEF BaseInv, LoopBounds, Init, Offering

\* Bus_Subscribe keeps it.
LEMMA BaseSubscribe ==
  ASSUME BaseInv, Bus_Subscribe
  PROVE  BaseInv'
<1>0. /\ TypeOK /\ LoopBounds
      /\ pc \in [Tasks -> PCs] /\ evt \in [Tasks -> Event] /\ idx \in [Tasks -> Nat]
      /\ subscribers \in [Topics -> Seq(Queues)] /\ stats \in [Topics -> BusTopicStats]
  BY DEF BaseInv, TypeOK
<1>1. /\ ~Running
      /\ UNCHANGED <<lock, s_dropCount, s_nextEventId, s_taskSequences, queue, received, pc,
                     evt, idx, accepted, result, snapshot>>
      /\ booted' = booted + 1
  BY DEF Bus_Subscribe, localVars
<1>2. \A p \in Tasks : pc'[p] = "idle"
  BY <1>1 DEF BaseInv
<1>3. LoopBounds'
  BY <1>0, <1>1, <1>2 DEF LoopBounds, Offering
<1>4. booted' \in 0 .. Len(Subscriptions) /\ booted + 1 \in 1 .. Len(Subscriptions)
  BY <1>0, <1>1, BusAssumption DEF TypeOK, Running
<1>5. Subscriptions[booted + 1] \in Topics \X Queues
  BY <1>4, BusAssumption
<1>6. subscribers' \in [Topics -> Seq(Queues)] /\ stats' \in [Topics -> BusTopicStats]
  <2> DEFINE t == Subscriptions[booted + 1][1]
             q == Subscriptions[booted + 1][2]
  <2>1. t \in Topics /\ q \in Queues /\ subscribers[t] \in Seq(Queues)
    BY <1>0, <1>5
  <2>2. Append(subscribers[t], q) \in Seq(Queues) /\ Len(subscribers[t]) + 1 \in Nat
    BY <2>1
  <2>3. \/ UNCHANGED <<subscribers, stats>>
        \/ /\ subscribers' = [subscribers EXCEPT ![t] = Append(@, q)]
           /\ stats' = [stats EXCEPT ![t].subscribers = Len(subscribers[t]) + 1]
    BY DEF Bus_Subscribe
  <2> HIDE DEF t, q
  <2> QED
    BY <1>0, <2>1, <2>2, <2>3, ZenonT(60) DEF BusTopicStats
<1> QED
  BY <1>0, <1>1, <1>2, <1>3, <1>4, <1>6 DEF BaseInv, TypeOK

\* So does the beginning of a publish call.
LEMMA BaseStart ==
  ASSUME BaseInv, NEW p \in Tasks, NEW site \in CallSite, NEW x \in Payloads,
         MakeEvent_Load(p, site, x) \/ UnstampedEvent(p, site, x)
  PROVE  BaseInv'
<1>0. /\ TypeOK /\ LoopBounds
      /\ pc \in [Tasks -> PCs] /\ evt \in [Tasks -> Event] /\ idx \in [Tasks -> Nat]
      /\ subscribers \in [Topics -> Seq(Queues)] /\ stats \in [Topics -> BusTopicStats]
  BY DEF BaseInv, TypeOK
<1>1. TypeOK'
  BY <1>0, StartTypeOK
<1>2. /\ Running /\ UNCHANGED <<booted, subscribers, idx>>
      /\ \A r \in Tasks \ {p} : pc'[r] = pc[r] /\ evt'[r] = evt[r]
      /\ pc'[p] \in {"store", "alloc"}
  BY <1>0 DEF MakeEvent_Load, UnstampedEvent, registryVars
<1>3. LoopBounds'
  BY <1>0, <1>2 DEF LoopBounds, Offering
<1> QED
  BY <1>1, <1>2, <1>3 DEF BaseInv, Running

\* So does each step of it.
LEMMA BasePublish ==
  ASSUME BaseInv, NEW p \in Tasks, PublishStep(p)
  PROVE  BaseInv'
<1>0. /\ TypeOK /\ LoopBounds
      /\ pc \in [Tasks -> PCs] /\ evt \in [Tasks -> Event] /\ idx \in [Tasks -> Nat]
      /\ subscribers \in [Topics -> Seq(Queues)] /\ stats \in [Topics -> BusTopicStats]
  BY DEF BaseInv, TypeOK
<1>1. TypeOK' /\ LoopBounds'
  BY <1>0, PublishTypeOK, PublishLoopBounds
<1>2. pc[p] # "idle" /\ booted' = booted
  BY DEF PublishStep, MakeEvent_Store, MakeEvent_Reload, AllocateEventId, Publish_TakeLock,
     Publish_Begin, SendAccepted, CountDelivered, SendRejected, IncrementDropCount, CountDropped,
     Publish_Return, registryVars
<1> QED
  BY <1>1, <1>2 DEF BaseInv, Running

\* So does a receive.
LEMMA BaseReceive ==
  ASSUME BaseInv, NEW q \in Queues, XQueueReceive(q)
  PROVE  BaseInv'
<1>0. /\ TypeOK /\ LoopBounds
      /\ pc \in [Tasks -> PCs] /\ evt \in [Tasks -> Event] /\ idx \in [Tasks -> Nat]
      /\ subscribers \in [Topics -> Seq(Queues)] /\ stats \in [Topics -> BusTopicStats]
  BY DEF BaseInv, TypeOK
<1>1. /\ queue' = [queue EXCEPT ![q] = Tail(@)]
      /\ received' = [received EXCEPT ![q] = Append(@, Head(queue[q]))]
      /\ queue[q] # <<>> /\ queue[q] \in Seq(Event) /\ received[q] \in Seq(Event)
  BY <1>0 DEF XQueueReceive, TypeOK
<1>2. Tail(queue[q]) \in Seq(Event) /\ Append(received[q], Head(queue[q])) \in Seq(Event)
  BY <1>1
<1>3. queue' \in [Queues -> Seq(Event)] /\ received' \in [Queues -> Seq(Event)]
  BY <1>0, <1>1, <1>2 DEF TypeOK
<1>4. UNCHANGED <<booted, subscribers, lock, stats, s_dropCount, s_nextEventId, s_taskSequences,
                  pc, evt, idx, accepted, result, snapshot>>
  BY DEF XQueueReceive, registryVars, localVars
<1> QED
  BY <1>0, <1>3, <1>4 DEF BaseInv, TypeOK, LoopBounds, Running

\* The steps of EventBus keep it.
LEMMA BaseNext == BaseInv /\ [Next]_vars => BaseInv'
<1> SUFFICES ASSUME BaseInv, [Next]_vars PROVE BaseInv'
  OBVIOUS
<1>1. CASE Bus_GetTopicStats
  BY <1>1, BusAssumption
     DEF Bus_GetTopicStats, registryVars, localVars, BaseInv, TypeOK, LoopBounds, Running
<1>2. CASE UNCHANGED vars
  BY <1>2 DEF vars, BaseInv, TypeOK, LoopBounds, Running
<1> QED
  BY <1>1, <1>2, BaseSubscribe, BaseStart, BasePublish, BaseReceive, BusAssumption
     DEF Next, Quiescent

-----------------------------------------------------------------------------
(* The mutexes and the statistics.                                         *)

\* Bus_Init establishes the invariant.
LEMMA InitInv == Init => BusInv
<1> SUFFICES ASSUME Init PROVE BusInv
  OBVIOUS
<1>1. TypeOK
  BY InitTypeOK
<1>2. LockOwner /\ LoopBounds
  BY BusAssumption DEF Init, LockOwner, LoopBounds, PublishSteps, Offering
<1>3. QuietStart /\ StatsInv /\ SnapshotConsistent
  BY BusAssumption
     DEF Init, QuietStart, StatsInv, SnapshotConsistent, ZeroStats, Offered, Offering
<1> QED
  BY <1>1, <1>2, <1>3 DEF BusInv

\* A step that p takes while it holds no mutex, and that touches neither the
\* registry nor the statistics nor another task.
LEMMA OutsideLock ==
  ASSUME BusInv, TypeOK', Running, NEW p \in Tasks,
         pc[p] \notin PublishSteps, pc'[p] \notin PublishSteps,
         \A r \in Tasks \ {p} : pc'[r] = pc[r] /\ evt'[r] = evt[r],
         UNCHANGED <<booted, subscribers, lock, stats, idx, snapshot>>
  PROVE  BusInv'
<1>1. LockOwner'
  BY DEF BusInv, LockOwner
<1>2. LoopBounds'
  BY DEF BusInv, LoopBounds, PublishSteps, Offering
<1>3. QuietStart' /\ SnapshotConsistent'
  BY DEF BusInv, QuietStart, SnapshotConsistent, Running
<1>4. StatsInv'
  BY DEF BusInv, StatsInv, Offered, PublishSteps, Offering
<1> QED
  BY <1>1, <1>2, <1>3, <1>4 DEF BusInv

\* A step that p takes inside the loop of Bus_PublishWithCount: it accounts for
\* as many subscribers as it moves idx.
LEMMA InsideLoop ==
  ASSUME BusInv, TypeOK', NEW p \in Tasks, NEW t \in Topics, t = evt[p].topic,
         pc[p] \in Offering \cup {"send"}, pc'[p] \in Offering \cup {"send"},
         \A r \in Tasks \ {p} : pc'[r] = pc[r] /\ idx'[r] = idx[r],
         \A u \in Topics \ {t} : stats'[u] = stats[u],
         stats'[t].published = stats[t].published,
         stats'[t].subscribers = stats[t].subscribers,
         stats'[t].delivered + stats'[t].dropped + idx[p]
           = stats[t].delivered + stats[t].dropped + idx'[p],
         idx'[p] >= idx[p],
         idx'[p] <= Len(subscribers[t]) + 1,
         pc'[p] \in Offering => idx'[p] <= Len(subscribers[t]),
         UNCHANGED <<booted, subscribers, lock, evt, snapshot>>
  PROVE  BusInv'
<1>0. /\ Offering \cup {"send"} \subseteq PublishSteps
      /\ "publish" \notin Offering \cup {"send"}
      /\ "idle" \notin Offering \cup {"send"}
  BY DEF Offering, PublishSteps
<1>1. LockOwner'
  BY <1>0 DEF BusInv, LockOwner
<1>2. lock[t] = p /\ t \in Topics /\ \A r \in Tasks \ {p} : evt[r].topic = t => pc[r] \notin PublishSteps
  BY <1>0 DEF BusInv, LockOwner
<1>3. LoopBounds'
  <2> SUFFICES ASSUME NEW r \in Tasks
               PROVE  /\ idx'[r] >= 1
                      /\ pc'[r] \in Offering => idx'[r] <= Len(subscribers[evt[r].topic])
                      /\ pc'[r] = "send" => idx'[r] <= Len(subscribers[evt[r].topic]) + 1
    BY DEF LoopBounds
  <2>1. CASE r = p
    <3>1. idx[p] >= 1 /\ idx[p] \in Nat /\ idx'[p] \in Nat
      BY DEF BusInv, LoopBounds, TypeOK
    <3> QED
      BY <2>1, <3>1
  <2>2. CASE r # p
    BY <2>2 DEF BusInv, LoopBounds
  <2> QED
    BY <2>1, <2>2
<1>4. Running
  BY <1>0 DEF BusInv, QuietStart
<1>5. QuietStart' /\ SnapshotConsistent'
  BY <1>4 DEF BusInv, QuietStart, SnapshotConsistent, Running
<1>6. StatsInv'
  <2>1. Offered(t, idx[p])
    BY DEF BusInv, StatsInv
  <2>2. /\ stats[t] \in BusTopicStats /\ stats'[t] \in BusTopicStats
        /\ idx[p] \in Nat /\ idx'[p] \in Nat
        /\ Len(subscribers[t]) \in Nat
    BY DEF BusInv, TypeOK
  <2>3. stats[t].published * Len(subscribers[t]) \in Nat
    <3>1. stats[t].published \in Nat
      BY <2>2 DEF BusTopicStats
    <3> QED
      BY <2>2, <3>1, ProductType
  <2>4. Offered(t, idx[p])'
    <3> DEFINE k == stats[t].published * Len(subscribers[t])
               l == Len(subscribers[t])
               before == stats[t].delivered + stats[t].dropped
               after == stats'[t].delivered + stats'[t].dropped
               i == idx[p]
               j == idx'[p]
    <3>1. k \in Nat /\ l \in Nat /\ before \in Nat /\ after \in Nat /\ i \in Nat /\ j \in Nat
      <4>1. k \in Nat /\ l \in Nat /\ i \in Nat /\ j \in Nat
        BY <2>2, <2>3
      <4>2. before \in Nat
        <5>1. stats[t].delivered \in Nat /\ stats[t].dropped \in Nat
          BY <2>2 DEF BusTopicStats
        <5> QED
          BY <5>1
      <4>3. after \in Nat
        <5>1. stats'[t].delivered \in Nat /\ stats'[t].dropped \in Nat
          BY <2>2 DEF BusTopicStats
        <5> QED
          BY <5>1
      <4> QED
        BY <4>1, <4>2, <4>3
    <3>2. before + l = k + (i - 1)
      BY <2>1 DEF Offered
    <3>3. after + i = before + j
      OBVIOUS
    <3>4. Offered(t, idx[p])' <=> after + l = k + (j - 1)
      BY DEF Offered
    <3> HIDE DEF k, l, before, after, i, j
    <3>5. after + l = k + (j - 1)
      BY <3>1, <3>2, <3>3
    <3> QED
      BY <3>4, <3>5
  <2>5. \A u \in Topics : u # t => \A n : Offered(u, n)' <=> Offered(u, n)
    BY DEF Offered
  <2>6. \A u \in Topics : lock'[u] = NoTask => Offered(u, Len(subscribers[u]) + 1)'
    BY <1>2, <2>5, BusAssumption DEF BusInv, StatsInv
  <2>7. \A u \in Topics : stats'[u].subscribers = Len(subscribers'[u])
    BY DEF BusInv, StatsInv
  <2>8. \A r \in Tasks :
          /\ pc'[r] = "publish" =>
               Offered(evt[r].topic, Len(subscribers[evt[r].topic]) + 1)'
          /\ pc'[r] \in Offering \cup {"send"} => Offered(evt[r].topic, idx[r])'
    <3> TAKE r \in Tasks
    <3>1. CASE r = p
      BY <1>0, <2>4, <3>1
    <3>2. CASE r # p /\ pc[r] \in PublishSteps
      <4>1. evt[r].topic \in Topics /\ evt[r].topic # t
        BY <1>2, <3>2 DEF BusInv, TypeOK, Event
      <4> QED
        BY <2>5, <3>2, <4>1 DEF BusInv, StatsInv
    <3>3. CASE r # p /\ pc[r] \notin PublishSteps
      BY <1>0, <3>3 DEF PublishSteps
    <3> QED
      BY <3>1, <3>2, <3>3
  <2> QED
    BY <2>6, <2>7, <2>8 DEF StatsInv
<1> QED
  BY <1>1, <1>3, <1>5, <1>6 DEF BusInv

\* xSemaphoreTake: a balanced topic gets its owner.
LEMMA TakeLockInv ==
  ASSUME BusInv, TypeOK', NEW p \in Tasks, Publish_TakeLock(p)
  PROVE  BusInv'
<1> DEFINE t == evt[p].topic
<1>0. t \in Topics /\ pc[p] = "lock" /\ lock[t] = NoTask
  BY DEF Publish_TakeLock, BusInv, TypeOK, Event
<1>1. /\ pc' = [pc EXCEPT ![p] = "publish"]
      /\ lock' = [lock EXCEPT ![t] = p]
      /\ UNCHANGED <<booted, subscribers, stats, evt, idx, snapshot>>
  BY DEF Publish_TakeLock, registryVars, localVars
<1>2. pc \in [Tasks -> PCs] /\ lock \in [Topics -> Tasks \cup {NoTask}]
  BY DEF BusInv, TypeOK
<1>3. LockOwner'
  BY <1>0, <1>1, <1>2, BusAssumption DEF BusInv, LockOwner, PublishSteps
<1>4. LoopBounds'
  BY <1>0, <1>1, <1>2 DEF BusInv, LoopBounds, Offering
<1>5. QuietStart' /\ SnapshotConsistent'
  BY <1>0, <1>1 DEF BusInv, QuietStart, SnapshotConsistent, Running
<1>6. StatsInv'
  <2>1. \A u, n : Offered(u, n)' <=> Offered(u, n)
    BY <1>1 DEF Offered
  <2>2. Offered(t, Len(subscribers[t]) + 1)
    BY <1>0 DEF BusInv, StatsInv
  <2> HIDE DEF t
  <2>3. \A u \in Topics : lock'[u] = NoTask => lock[u] = NoTask
    BY <1>0, <1>1, <1>2, BusAssumption
  <2>4. \A r \in Tasks : r # p => pc'[r] = pc[r]
    BY <1>1, <1>2
  <2>5. pc'[p] = "publish"
    BY <1>1, <1>2
  <2>6. "publish" \notin Offering \cup {"send"}
    BY DEF Offering
  <2> QED
    BY <1>1, <2>1, <2>2, <2>3, <2>4, <2>5, <2>6 DEF BusInv, StatsInv, t
<1> QED
  BY <1>3, <1>4, <1>5, <1>6 DEF BusInv

\* Counting the event unbalances its topic by the number of its subscribers.
LEMMA BeginInv ==
  ASSUME BusInv, TypeOK', NEW p \in Tasks, Publish_Begin(p)
  PROVE  BusInv'
<1> DEFINE t == evt[p].topic
           n == Len(subscribers[t])
<1>0. /\ t \in Topics /\ pc[p] = "publish" /\ n \in Nat
      /\ stats[t] \in BusTopicStats
  BY DEF Publish_Begin, BusInv, TypeOK, Event
<1>1. /\ pc' = [pc EXCEPT ![p] = "send"]
      /\ idx' = [idx EXCEPT ![p] = 1]
      /\ stats' = [stats EXCEPT ![t] = SetSubscribers(IncPublished(stats[t]), n)]
      /\ UNCHANGED <<booted, subscribers, lock, evt, snapshot>>
  BY DEF Publish_Begin, registryVars
<1>2. /\ pc \in [Tasks -> PCs] /\ idx \in [Tasks -> Nat]
      /\ stats \in [Topics -> BusTopicStats]
  BY DEF BusInv, TypeOK
<1>3. LockOwner'
  BY <1>0, <1>1, <1>2 DEF BusInv, LockOwner, PublishSteps
<1>4. LoopBounds'
  BY <1>0, <1>1, <1>2 DEF BusInv, LoopBounds, Offering
<1>5. QuietStart' /\ SnapshotConsistent'
  BY <1>0, <1>1 DEF BusInv, QuietStart, SnapshotConsistent, Running
<1>6. /\ stats'[t].published = stats[t].published + 1
      /\ stats'[t].delivered = stats[t].delivered
      /\ stats'[t].dropped = stats[t].dropped
      /\ stats'[t].subscribers = n
  <2>1. IncPublished(stats[t]) \in BusTopicStats
    BY <1>0, StatsUpdates
  <2>2. stats'[t] = SetSubscribers(IncPublished(stats[t]), n)
    BY <1>0, <1>1, <1>2
  <2> HIDE DEF t, n
  <2> QED
    BY <1>0, <2>1, <2>2, StatsUpdates
<1>7. lock[t] = p /\ \A r \in Tasks \ {p} : evt[r].topic = t => pc[r] \notin PublishSteps
  BY <1>0 DEF BusInv, LockOwner, PublishSteps
<1>8. Offered(t, idx[p])'
  <2> DEFINE s == stats[t].published
             d == stats[t].delivered + stats[t].dropped
  <2>1. d + n = s * n + (n + 1 - 1)
    BY <1>0 DEF BusInv, StatsInv, Offered
  <2>2. s \in Nat /\ n \in Nat
    BY <1>0 DEF BusTopicStats
  <2>3. Offered(t, idx[p])' <=> d + n = (s + 1) * n + (1 - 1)
    BY <1>1, <1>2, <1>6 DEF Offered
  <2>4. d \in Nat
    <3>1. stats[t].delivered \in Nat /\ stats[t].dropped \in Nat
      BY <1>0 DEF BusTopicStats
    <3> QED
      BY <3>1
  <2> HIDE DEF s, d, n, t
  <2>5. (s + 1) * n = s * n + n /\ s * n \in Nat
    BY <2>2
  <2> QED
    BY <2>1, <2>2, <2>3, <2>4, <2>5
<1>9. StatsInv'
  <2>1. \A u \in Topics : u # t => stats'[u] = stats[u]
    BY <1>0, <1>1, <1>2
  <2>2. \A u \in Topics : u # t => \A k : Offered(u, k)' <=> Offered(u, k)
    BY <1>1, <2>1 DEF Offered
  <2>3. \A u \in Topics : lock'[u] = NoTask => Offered(u, Len(subscribers[u]) + 1)'
    BY <1>1, <1>7, <2>2, BusAssumption DEF BusInv, StatsInv
  <2>4. \A u \in Topics : stats'[u].subscribers = Len(subscribers'[u])
    BY <1>1, <1>6, <2>1 DEF BusInv, StatsInv
  <2>5. \A r \in Tasks :
          /\ pc'[r] = "publish" =>
               Offered(evt[r].topic, Len(subscribers[evt[r].topic]) + 1)'
          /\ pc'[r] \in Offering \cup {"send"} => Offered(evt[r].topic, idx[r])'
    <3> TAKE r \in Tasks
    <3>1. CASE r = p
      BY <1>1, <1>2, <1>8, <3>1
    <3>2. CASE r # p /\ pc[r] \in PublishSteps
      <4>1. evt[r].topic \in Topics /\ evt[r].topic # t
        BY <1>7, <3>2 DEF BusInv, TypeOK, Event
      <4>2. pc'[r] = pc[r] /\ idx'[r] = idx[r] /\ evt'[r] = evt[r]
        BY <1>1, <1>2, <3>2
      <4> QED
        BY <1>1, <2>2, <3>2, <4>1, <4>2 DEF BusInv, StatsInv
    <3>3. CASE r # p /\ pc[r] \notin PublishSteps
      BY <1>1, <1>2, <3>3 DEF PublishSteps, Offering
    <3> QED
      BY <3>1, <3>2, <3>3
  <2> QED
    BY <1>1, <2>3, <2>4, <2>5 DEF StatsInv
<1> QED
  BY <1>3, <1>4, <1>5, <1>9 DEF BusInv

\* xSemaphoreGive: the loop has offered the event to every subscriber.
LEMMA ReturnInv ==
  ASSUME BusInv, TypeOK', NEW p \in Tasks, Publish_Return(p)
  PROVE  BusInv'
<1> DEFINE t == evt[p].topic
<1>0. /\ t \in Topics /\ pc[p] = "send" /\ ~InLoop(p)
      /\ idx[p] = Len(subscribers[t]) + 1
  <2>1. t \in Topics /\ pc[p] = "send" /\ ~InLoop(p)
    BY DEF Publish_Return, BusInv, TypeOK, Event
  <2>2. idx[p] \in Nat /\ Len(subscribers[t]) \in Nat
    BY <2>1 DEF BusInv, TypeOK
  <2>3. idx[p] <= Len(subscribers[t]) + 1
    BY <2>1 DEF BusInv, LoopBounds
  <2> QED
    BY <2>1, <2>2, <2>3 DEF InLoop
<1>1. /\ pc' = [pc EXCEPT ![p] = "idle"]
      /\ lock' = [lock EXCEPT ![t] = NoTask]
      /\ UNCHANGED <<booted, subscribers, stats, evt, idx, snapshot>>
  BY DEF Publish_Return, registryVars, localVars
<1>2. pc \in [Tasks -> PCs] /\ lock \in [Topics -> Tasks \cup {NoTask}]
  BY DEF BusInv, TypeOK
<1>3. LockOwner'
  <2>1. lock[t] = p
    BY <1>0 DEF BusInv, LockOwner, PublishSteps
  <2> QED
    BY <1>0, <1>1, <1>2, <2>1, BusAssumption DEF BusInv, LockOwner, PublishSteps
<1>4. LoopBounds'
  BY <1>0, <1>1, <1>2 DEF BusInv, LoopBounds, Offering
<1>5. QuietStart' /\ SnapshotConsistent'
  BY <1>0, <1>1 DEF BusInv, QuietStart, SnapshotConsistent, Running
<1>6. StatsInv'
  <2>1. \A u, n : Offered(u, n)' <=> Offered(u, n)
    BY <1>1 DEF Offered
  <2>2. Offered(t, Len(subscribers[t]) + 1)
    BY <1>0 DEF BusInv, StatsInv
  <2> HIDE DEF t
  <2>3. \A u \in Topics : u # t => lock'[u] = lock[u]
    BY <1>0, <1>1, <1>2
  <2>4. \A r \in Tasks : r # p => pc'[r] = pc[r]
    BY <1>1, <1>2
  <2>5. pc'[p] = "idle"
    BY <1>1, <1>2
  <2>6. "idle" \notin Offering \cup {"send", "publish"}
    BY DEF Offering
  <2> QED
    BY <1>1, <2>1, <2>2, <2>3, <2>4, <2>5, <2>6 DEF BusInv, StatsInv
<1> QED
  BY <1>3, <1>4, <1>5, <1>6 DEF BusInv

\* Every step of a publish call preserves the invariant.
LEMMA PublishInv ==
  ASSUME BusInv, NEW p \in Tasks, PublishStep(p)
  PROVE  BusInv'
<1> DEFINE t == evt[p].topic
<1>0. /\ TypeOK'
      /\ t \in Topics
      /\ pc \in [Tasks -> PCs] /\ evt \in [Tasks -> Event] /\ idx \in [Tasks -> Nat]
      /\ stats \in [Topics -> BusTopicStats] /\ stats[t] \in BusTopicStats
      /\ Len(subscribers[t]) \in Nat
      /\ idx[p] >= 1
  <2>1. TypeOK'
    BY PublishTypeOK DEF BusInv
  <2>2. t \in Topics
    BY DEF BusInv, TypeOK, Event
  <2>3. stats[t] \in BusTopicStats /\ Len(subscribers[t]) \in Nat
    BY <2>2 DEF BusInv, TypeOK
  <2> QED
    BY <2>1, <2>2, <2>3 DEF BusInv, TypeOK, LoopBounds
<1>1. CASE MakeEvent_Store(p) \/ MakeEvent_Reload(p) \/ AllocateEventId(p)
  <2>1. /\ pc[p] \notin PublishSteps /\ pc[p] # "idle" /\ pc'[p] \notin PublishSteps
        /\ \A r \in Tasks \ {p} : pc'[r] = pc[r] /\ evt'[r] = evt[r]
        /\ UNCHANGED <<booted, subscribers, lock, stats, idx, snapshot>>
    BY <1>0, <1>1 DEF MakeEvent_Store, MakeEvent_Reload, AllocateEventId, PublishSteps,
                      registryVars, localVars
  <2>2. Running
    BY <2>1 DEF BusInv, QuietStart
  <2> QED
    BY <1>0, <2>1, <2>2, OutsideLock
<1>2. CASE Publish_TakeLock(p)
  BY <1>0, <1>2, TakeLockInv
<1>3. CASE Publish_Begin(p)
  BY <1>0, <1>3, BeginInv
<1>4. CASE SendAccepted(p) \/ SendRejected(p) \/ IncrementDropCount(p)
  <2>1. /\ pc[p] \in Offering \cup {"send"} /\ pc'[p] \in Offering \cup {"send"}
        /\ \A r \in Tasks \ {p} : pc'[r] = pc[r]
        /\ UNCHANGED <<booted, subscribers, lock, evt, snapshot, stats, idx>>
    BY <1>0, <1>4 DEF SendAccepted, SendRejected, IncrementDropCount, Offering,
                      registryVars, localVars
  <2>2. idx[p] <= Len(subscribers[t])
    BY <1>4 DEF SendAccepted, SendRejected, IncrementDropCount, InLoop, BusInv,
                LoopBounds, Offering
  <2>3. /\ idx'[p] = idx[p] /\ stats' = stats
        /\ idx'[p] >= idx[p] /\ idx'[p] <= Len(subscribers[t]) + 1
    BY <1>0, <2>1, <2>2
  <2> HIDE DEF t
  <2> QED
    BY <1>0, <2>1, <2>2, <2>3, InsideLoop DEF t
<1>5. CASE CountDelivered(p) \/ CountDropped(p)
  <2>1. /\ pc[p] \in Offering \cup {"send"} /\ pc'[p] = "send"
        /\ \A r \in Tasks \ {p} : pc'[r] = pc[r] /\ idx'[r] = idx[r]
        /\ idx'[p] = idx[p] + 1
        /\ UNCHANGED <<booted, subscribers, lock, evt, snapshot>>
    BY <1>0, <1>5 DEF CountDelivered, CountDropped, Offering, registryVars
  <2>2. pc[p] \in Offering /\ idx[p] <= Len(subscribers[t])
    BY <1>5 DEF CountDelivered, CountDropped, BusInv, LoopBounds, Offering
  <2>3. /\ \A u \in Topics \ {t} : stats'[u] = stats[u]
        /\ stats'[t].published = stats[t].published
        /\ stats'[t].subscribers = stats[t].subscribers
        /\ \/ stats'[t].delivered = stats[t].delivered + 1 /\ stats'[t].dropped = stats[t].dropped
           \/ stats'[t].delivered = stats[t].delivered /\ stats'[t].dropped = stats[t].dropped + 1
    <3>1. CASE CountDelivered(p)
      <4> DEFINE n == Len(queue[Current(p)])
      <4>1. n \in Nat
        <5>1. Current(p) \in Queues
          BY <1>0, <2>2, CurrentType DEF BusInv, InLoop
        <5> QED
          BY <5>1 DEF BusInv, TypeOK
      <4>2. stats' = [stats EXCEPT ![t] = RaiseDepth(IncDelivered(stats[t]), n)]
        BY <3>1 DEF CountDelivered
      <4> HIDE DEF n, t
      <4>3. IncDelivered(stats[t]) \in BusTopicStats
        BY <1>0, <4>1, StatsUpdates
      <4>4. stats'[t] = RaiseDepth(IncDelivered(stats[t]), n)
        BY <1>0, <4>2
      <4> QED
        BY <1>0, <4>1, <4>2, <4>3, <4>4, StatsUpdates
    <3>2. CASE CountDropped(p)
      <4>1. stats' = [stats EXCEPT ![t] = IncDropped(stats[t])]
        BY <3>2 DEF CountDropped
      <4> HIDE DEF t
      <4>2. stats'[t] = IncDropped(stats[t])
        BY <1>0, <4>1
      <4> QED
        BY <1>0, <4>1, <4>2, StatsUpdates
    <3> QED
      BY <1>5, <3>1, <3>2
  <2>4. stats'[t].delivered + stats'[t].dropped + idx[p]
          = stats[t].delivered + stats[t].dropped + idx'[p]
    <3>1. stats[t].delivered \in Nat /\ stats[t].dropped \in Nat /\ idx[p] \in Nat
      BY <1>0 DEF BusTopicStats
    <3> HIDE DEF t
    <3> QED
      BY <2>1, <2>3, <3>1
  <2>5. /\ idx'[p] >= idx[p] /\ idx'[p] <= Len(subscribers[t]) + 1
        /\ pc'[p] \notin Offering /\ pc'[p] \in Offering \cup {"send"}
    BY <1>0, <2>1, <2>2 DEF Offering
  <2> HIDE DEF t
  <2> QED
    BY <1>0, <2>1, <2>3, <2>4, <2>5, InsideLoop DEF t
<1>6. CASE Publish_Return(p)
  BY <1>0, <1>6, ReturnInv
<1> QED
  BY <1>1, <1>2, <1>3, <1>4, <1>5, <1>6 DEF PublishStep

\* Bus_Subscribe runs before the scheduler starts, when nothing is published.
LEMMA SubscribeInv ==
  ASSUME BusInv, Bus_Subscribe
  PROVE  BusInv'
<1> DEFINE t == Subscriptions[booted + 1][1]
           q == Subscriptions[booted + 1][2]
<1>1. ~Running /\ booted \in Nat /\ booted + 1 \in 1 .. Len(Subscriptions)
  <2>1. ~Running
    BY DEF Bus_Subscribe
  <2>2. booted \in 0 .. Len(Subscriptions) /\ Len(Subscriptions) \in Nat
    BY BusAssumption DEF BusInv, TypeOK
  <2> QED
    BY <2>1, <2>2 DEF Running
<1>2. t \in Topics /\ q \in Queues
  <2>1. Subscriptions[booted + 1] \in Topics \X Queues
    BY <1>1, BusAssumption
  <2> QED
    BY <2>1
<1>3. /\ \A p \in Tasks : pc[p] = "idle"
      /\ \A u \in Topics : stats[u].published = 0 /\ stats[u].delivered = 0
                             /\ stats[u].dropped = 0
      /\ snapshot = ZeroStats
  BY <1>1 DEF BusInv, QuietStart
<1>4. /\ booted' = booted + 1
      /\ UNCHANGED <<lock, s_dropCount, s_nextEventId, s_taskSequences, queue, received, pc,
                     evt, idx, accepted, result, snapshot>>
  BY DEF Bus_Subscribe, localVars
<1>5. \/ UNCHANGED <<subscribers, stats>>
      \/ /\ subscribers' = [subscribers EXCEPT ![t] = Append(subscribers[t], q)]
         /\ stats' = [stats EXCEPT ![t].subscribers = Len(subscribers[t]) + 1]
  BY DEF Bus_Subscribe
<1>6. /\ subscribers \in [Topics -> Seq(Queues)] /\ subscribers[t] \in Seq(Queues)
      /\ stats \in [Topics -> BusTopicStats] /\ stats[t] \in BusTopicStats
  BY <1>2 DEF BusInv, TypeOK
<1> HIDE DEF t, q
<1>7. subscribers' \in [Topics -> Seq(Queues)]
  <2>1. Append(subscribers[t], q) \in Seq(Queues)
    BY <1>2, <1>6
  <2> QED
    BY <1>2, <1>5, <1>6, <2>1
<1>8. /\ stats' \in [Topics -> BusTopicStats]
      /\ \A u \in Topics : /\ stats'[u].published = 0
                             /\ stats'[u].delivered = 0
                             /\ stats'[u].dropped = 0
                             /\ stats'[u].subscribers = Len(subscribers'[u])
  <2>1. \A u \in Topics : stats[u].subscribers = Len(subscribers[u])
    BY DEF BusInv, StatsInv
  <2>2. CASE UNCHANGED <<subscribers, stats>>
    BY <1>3, <1>6, <2>1, <2>2
  <2>3. CASE /\ subscribers' = [subscribers EXCEPT ![t] = Append(subscribers[t], q)]
             /\ stats' = [stats EXCEPT ![t].subscribers = Len(subscribers[t]) + 1]
    <3>1. Len(subscribers[t]) + 1 \in Nat /\ Len(subscribers'[t]) = Len(subscribers[t]) + 1
      BY <1>2, <1>6, <2>3
    <3>2. stats' = [stats EXCEPT ![t] = SetSubscribers(stats[t], Len(subscribers[t]) + 1)]
      BY <2>3 DEF SetSubscribers
    <3>3. \A u \in Topics : u # t => stats'[u] = stats[u] /\ subscribers'[u] = subscribers[u]
      BY <1>2, <1>6, <2>3
    <3>4. stats'[t] = SetSubscribers(stats[t], Len(subscribers[t]) + 1)
      BY <1>2, <1>6, <3>2
    <3>5. /\ SetSubscribers(stats[t], Len(subscribers[t]) + 1) \in BusTopicStats
          /\ stats'[t].published = 0 /\ stats'[t].delivered = 0 /\ stats'[t].dropped = 0
          /\ stats'[t].subscribers = Len(subscribers'[t])
      BY <1>2, <1>3, <1>6, <3>1, <3>4, StatsUpdates
    <3> QED
      BY <1>2, <1>3, <1>6, <2>1, <3>2, <3>3, <3>5
  <2> QED
    BY <1>5, <2>2, <2>3
<1>9. TypeOK'
  <2>1. booted' \in 0 .. Len(Subscriptions)
    BY <1>1, <1>4, BusAssumption
  <2> QED
    BY <1>4, <1>7, <1>8, <2>1 DEF BusInv, TypeOK
<1>10. LockOwner'
  BY <1>4 DEF BusInv, LockOwner
<1>11. LoopBounds' /\ QuietStart'
  BY <1>3, <1>4, <1>8 DEF BusInv, LoopBounds, QuietStart, Offering
<1>12. SnapshotConsistent'
  BY <1>3, <1>4 DEF SnapshotConsistent, ZeroStats
<1>13. StatsInv'
  <2>1. \A u \in Topics : Len(subscribers'[u]) \in Nat
    BY <1>7
  <2>2. \A u \in Topics : Offered(u, Len(subscribers[u]) + 1)'
    BY <1>8, <2>1 DEF Offered
  <2> QED
    BY <1>3, <1>4, <1>8, <2>2 DEF StatsInv, Offering
<1> QED
  BY <1>9, <1>10, <1>11, <1>12, <1>13 DEF BusInv

\* A receive takes an event from one end of a queue and leaves the bus alone.
LEMMA ReceiveInv ==
  ASSUME BusInv, NEW q \in Queues, XQueueReceive(q)
  PROVE  BusInv'
<1>1. /\ UNCHANGED <<booted, subscribers, lock, stats, s_dropCount, s_nextEventId,
                     s_taskSequences, pc, evt, idx, accepted, result, snapshot>>
      /\ queue[q] # <<>>
      /\ received' = [received EXCEPT ![q] = Append(received[q], Head(queue[q]))]
      /\ queue' = [queue EXCEPT ![q] = Tail(queue[q])]
  BY DEF XQueueReceive, registryVars, localVars
<1>2. queue[q] \in Seq(Event) /\ received[q] \in Seq(Event)
  BY DEF BusInv, TypeOK
<1>3. Head(queue[q]) \in Event /\ Tail(queue[q]) \in Seq(Event)
  BY <1>1, <1>2
<1>4. Append(received[q], Head(queue[q])) \in Seq(Event)
  BY <1>2, <1>3
<1>5. TypeOK'
  BY <1>1, <1>3, <1>4 DEF BusInv, TypeOK
<1>6. LockOwner' /\ LoopBounds' /\ QuietStart' /\ SnapshotConsistent'
  BY <1>1 DEF BusInv, LockOwner, LoopBounds, QuietStart, SnapshotConsistent, Running
<1>7. StatsInv'
  BY <1>1 DEF BusInv, StatsInv, Offered
<1> QED
  BY <1>5, <1>6, <1>7 DEF BusInv

\* A snapshot is taken of a topic that nobody is publishing on.
LEMMA GetStatsInv ==
  ASSUME BusInv, Bus_GetTopicStats
  PROVE  BusInv'
<1>1. /\ Running /\ lock[StatsTopic] = NoTask /\ snapshot' = stats[StatsTopic]
      /\ UNCHANGED <<booted, subscribers, lock, stats, s_dropCount, s_nextEventId,
                     s_taskSequences, queue, received, pc, evt, idx, accepted, result>>
  BY DEF Bus_GetTopicStats, registryVars, localVars
<1>2. /\ stats[StatsTopic] \in BusTopicStats
      /\ Len(subscribers[StatsTopic]) \in Nat
  BY BusAssumption DEF BusInv, TypeOK
<1>3. TypeOK'
  BY <1>1, <1>2 DEF BusInv, TypeOK
<1>4. LockOwner' /\ LoopBounds' /\ QuietStart'
  BY <1>1 DEF BusInv, LockOwner, LoopBounds, QuietStart, Running
<1>5. StatsInv'
  BY <1>1 DEF BusInv, StatsInv, Offered
<1>6. SnapshotConsistent'
  <2> DEFINE n == Len(subscribers[StatsTopic])
             d == stats[StatsTopic].delivered + stats[StatsTopic].dropped
             k == stats[StatsTopic].published * n
  <2>1. stats[StatsTopic].subscribers = n
    BY BusAssumption DEF BusInv, StatsInv
  <2>2. d + n = k + (n + 1 - 1)
    BY <1>1, BusAssumption DEF BusInv, StatsInv, Offered
  <2>3. d \in Nat /\ k \in Nat /\ n \in Nat
    <3>1. /\ stats[StatsTopic].delivered \in Nat
          /\ stats[StatsTopic].dropped \in Nat
          /\ stats[StatsTopic].published \in Nat
      BY <1>2 DEF BusTopicStats
    <3> QED
      BY <1>2, <3>1, ProductType, SMTT(30)
  <2> HIDE DEF d, k, n
  <2>4. d = k
    BY <2>2, <2>3
  <2> QED
    BY <1>1, <2>1, <2>4 DEF SnapshotConsistent, d, k, n
<1> QED
  BY <1>3, <1>4, <1>5, <1>6 DEF BusInv

\* Every step of the bus and its clients preserves the invariant.
LEMMA NextInv == BusInv /\ [Next]_vars => BusInv'
<1> SUFFICES ASSUME BusInv, [Next]_vars PROVE BusInv'
  OBVIOUS
<1>1. CASE Bus_Subscribe
  BY <1>1, SubscribeInv
<1>2. ASSUME NEW p \in Tasks, NEW site \in CallSites, NEW x \in Payloads,
             MakeEvent_Load(p, site, x) \/ UnstampedEvent(p, site, x)
      PROVE  BusInv'
  <2>1. TypeOK'
    BY <1>2, StartTypeOK, BusAssumption DEF BusInv
  <2>2. pc \in [Tasks -> PCs] /\ evt \in [Tasks -> Event]
    BY DEF BusInv, TypeOK
  <2>3. /\ Running
        /\ pc[p] \notin PublishSteps /\ pc'[p] \notin PublishSteps
        /\ \A r \in Tasks \ {p} : pc'[r] = pc[r] /\ evt'[r] = evt[r]
        /\ UNCHANGED <<booted, subscribers, lock, stats, idx, snapshot>>
    BY <1>2, <2>2 DEF MakeEvent_Load, UnstampedEvent, PublishSteps, registryVars
  <2> QED
    BY <2>1, <2>3, OutsideLock
<1>3. ASSUME NEW p \in Tasks, PublishStep(p) PROVE BusInv'
  BY <1>3, PublishInv
<1>4. ASSUME NEW q \in Queues, XQueueReceive(q) PROVE BusInv'
  BY <1>4, ReceiveInv
<1>5. CASE Bus_GetTopicStats
  BY <1>5, GetStatsInv
<1>6. CASE UNCHANGED vars
  <2>1. UNCHANGED <<booted, subscribers, lock, stats, s_dropCount, s_nextEventId,
                    s_taskSequences, queue, received, pc, evt, idx, accepted, result,
                    snapshot>>
    BY <1>6 DEF vars
  <2>2. TypeOK' /\ LockOwner' /\ LoopBounds'
    BY <2>1 DEF BusInv, TypeOK, LockOwner, LoopBounds
  <2>3. QuietStart' /\ StatsInv' /\ SnapshotConsistent'
    BY <2>1 DEF BusInv, QuietStart, StatsInv, Offered, SnapshotConsistent, Running
  <2> QED
    BY <2>2, <2>3 DEF BusInv
<1> QED
  BY <1>1, <1>2, <1>3, <1>4, <1>5, <1>6 DEF Next, Quiescent

-----------------------------------------------------------------------------
(* The theorems.                                                           *)

\* The conjunction is an invariant of the bus.
LEMMA Invariance == Spec => []BusInv
BY InitInv, NextInv, PTL DEF Spec

\* Every variable of the bus keeps its type; in particular the loop of
\* Bus_PublishWithCount never sends to something that is not a queue.
THEOREM TypeCorrect == Spec => []TypeOK
<1>1. BusInv => TypeOK
  BY DEF BusInv
<1> QED
  BY Invariance, <1>1, PTL

\* A topic's mutex is held by the task that is publishing on the topic, and by
\* no other: publishers on one topic exclude each other.
THEOREM MutualExclusion == Spec => []LockOwner
<1>1. BusInv => LockOwner
  BY DEF BusInv
<1> QED
  BY Invariance, <1>1, PTL

\* Between two publications on a topic, its deliveries and drops add up to its
\* publications times its subscribers.
THEOREM StatisticsBalance == Spec => []StatsBalance
<1>1. BusInv => StatsBalance
  <2> SUFFICES ASSUME BusInv, NEW t \in Topics, lock[t] = NoTask
               PROVE  stats[t].delivered + stats[t].dropped
                        = stats[t].published * Len(subscribers[t])
    BY DEF StatsBalance
  <2> DEFINE n == Len(subscribers[t])
             d == stats[t].delivered + stats[t].dropped
             k == stats[t].published * n
  <2>1. d + n = k + (n + 1 - 1)
    BY DEF BusInv, StatsInv, Offered
  <2>2. d \in Nat /\ k \in Nat /\ n \in Nat
    <3>1. stats[t] \in BusTopicStats /\ n \in Nat
      BY DEF BusInv, TypeOK
    <3>2. stats[t].delivered \in Nat /\ stats[t].dropped \in Nat /\ stats[t].published \in Nat
      BY <3>1 DEF BusTopicStats
    <3> HIDE DEF n
    <3>3. d \in Nat
      BY <3>2
    <3>4. k \in Nat
      BY <3>1, <3>2
    <3> QED
      BY <3>1, <3>3, <3>4
  <2> HIDE DEF d, k, n
  <2>3. d = k
    BY <2>1, <2>2
  <2> QED
    BY <2>3 DEF d, k, n
<1> QED
  BY Invariance, <1>1, PTL

\* Diagnostics never reads statistics in the middle of a fan-out.
THEOREM SnapshotsConsistent == Spec => []SnapshotConsistent
<1>1. BusInv => SnapshotConsistent
  BY DEF BusInv
<1> QED
  BY Invariance, <1>1, PTL

-----------------------------------------------------------------------------
(* The inductive invariant of ids and deliveries.                          *)

\* Where a task has the id of its event.
Numbered == {"lock"} \cup PublishSteps

\* How many of the topic's subscribers may hold the event p publishes.
Tried(p) ==
  IF pc[p] = "sent" THEN idx[p]
  ELSE IF pc[p] \in {"send", "drop", "dropped"} THEN idx[p] - 1 ELSE 0

\* The subscribers of a topic are different queues, each from its own call.
SubscriberInv ==
  \A t \in Topics :
    /\ \A k \in DOMAIN subscribers[t] :
         \E n \in 1 .. booted : Subscriptions[n] = <<t, subscribers[t][k]>>
    /\ \A j, k \in DOMAIN subscribers[t] :
         subscribers[t][j] = subscribers[t][k] => j = k

\* No id is ahead of the allocator, and two events in progress differ in it.
FreshIds ==
  /\ \A p \in Tasks : pc[p] \in Numbered => evt[p].eventId < s_nextEventId
  /\ \A p, r \in Tasks :
       /\ pc[p] \in Numbered /\ pc[r] \in Numbered
       /\ evt[p].eventId = evt[r].eventId
       => p = r
  /\ \A q \in Queues : \A i \in DOMAIN Delivered(q) :
       Delivered(q)[i].eventId < s_nextEventId

\* What carries the id of an event in progress is that event, at a subscriber
\* that its loop has reached.
OwnEvent ==
  \A p \in Tasks, q \in Queues : \A i \in DOMAIN Delivered(q) :
    pc[p] \in Numbered /\ Delivered(q)[i].eventId = evt[p].eventId =>
      /\ Delivered(q)[i] = evt[p]
      /\ \E k \in 1 .. Tried(p) : subscribers[evt[p].topic][k] = q

IdInv == SubscriberInv /\ FreshIds /\ OwnEvent /\ EventIdIdentifies

\* The consumer of q has seen or will see the event of p.
Holds(p, q) == \E i \in DOMAIN Delivered(q) : Delivered(q)[i] = evt[p]

\* The subscribers before idx that hold the event of p.
Got(p) == {k \in 1 .. idx[p] - 1 : Holds(p, subscribers[evt[p].topic][k])}

\* SentCountExact in the middle of the loop.
SentInv ==
  \A p \in Tasks :
    /\ pc[p] \in Offering \cup {"send"} =>
         /\ accepted[p] = Cardinality(Got(p))
         /\ result[p] <=> accepted[p] = idx[p] - 1
         /\ accepted[p] <= idx[p] - 1
    /\ pc[p] = "sent" => Holds(p, Current(p))

-----------------------------------------------------------------------------
(* What the queues have been given.                                        *)

\* An element added to the second of two sequences is added to the two together.
LEMMA AppendToConcat ==
  ASSUME NEW S, NEW a \in Seq(S), NEW b \in Seq(S), NEW e \in S
  PROVE  a \o Append(b, e) = Append(a \o b, e)
<1>1. a \o b \in Seq(S) /\ Append(b, e) \in Seq(S)
  OBVIOUS
<1>2. a \o Append(b, e) \in Seq(S) /\ Append(a \o b, e) \in Seq(S)
  BY <1>1
<1>3. Len(a \o Append(b, e)) = Len(Append(a \o b, e))
  BY <1>1
<1>4. \A i \in 1 .. Len(a \o Append(b, e)) : (a \o Append(b, e))[i] = Append(a \o b, e)[i]
  BY <1>1
<1> QED
  BY <1>2, <1>3, <1>4, SeqEqual

\* The first element of the second sequence may as well be the last of the first.
LEMMA ConcatHead ==
  ASSUME NEW S, NEW a \in Seq(S), NEW b \in Seq(S), b # <<>>
  PROVE  Append(a, Head(b)) \o Tail(b) = a \o b
<1>1. /\ Head(b) \in S /\ Tail(b) \in Seq(S) /\ Len(b) \in Nat /\ Len(b) >= 1
      /\ Len(Tail(b)) = Len(b) - 1 /\ Len(a) \in Nat
  OBVIOUS
<1>2. Append(a, Head(b)) \in Seq(S) /\ Len(Append(a, Head(b))) = Len(a) + 1
  BY <1>1
<1> DEFINE l == Append(a, Head(b)) \o Tail(b)
           r == a \o b
<1>3. l \in Seq(S) /\ r \in Seq(S)
  BY <1>1, <1>2, ConcatProperties
<1>4. Len(l) = Len(r)
  BY <1>1, <1>2, ConcatProperties
<1>5. ASSUME NEW i \in 1 .. Len(l) PROVE l[i] = r[i]
  <2>1. l[i] = IF i <= Len(a) + 1 THEN Append(a, Head(b))[i] ELSE Tail(b)[i - (Len(a) + 1)]
    BY <1>1, <1>2, ConcatProperties
  <2>2. r[i] = IF i <= Len(a) THEN a[i] ELSE b[i - Len(a)]
    BY <1>4, ConcatProperties
  <2> QED
    BY <1>1, <2>1, <2>2, <1>4
<1> QED
  BY <1>3, <1>4, <1>5, SeqEqual

\* What a queue has been given is a sequence of events.
LEMMA DeliveredType ==
  ASSUME TypeOK, NEW q \in Queues
  PROVE  /\ Delivered(q) \in Seq(Event)
         /\ DOMAIN Delivered(q) = 1 .. Len(Delivered(q))
         /\ Len(Delivered(q)) \in Nat
         /\ \A i \in DOMAIN Delivered(q) : Delivered(q)[i] \in Event
<1>1. received[q] \in Seq(Event) /\ queue[q] \in Seq(Event)
  BY DEF TypeOK
<1>2. Delivered(q) \in Seq(Event)
  BY <1>1 DEF Delivered
<1> QED
  BY <1>2

\* A send adds its event at the end of what the queue has been given.
LEMMA SendDelivers ==
  ASSUME TypeOK, NEW q \in Queues, NEW e \in Event,
         queue' = [queue EXCEPT ![q] = Append(queue[q], e)],
         received' = received
  PROVE  /\ \A r \in Queues : r # q => Delivered(r)' = Delivered(r)
         /\ Delivered(q)' = Append(Delivered(q), e)
         /\ DOMAIN Delivered(q)' = 1 .. Len(Delivered(q)) + 1
         /\ \A i \in DOMAIN Delivered(q) : Delivered(q)'[i] = Delivered(q)[i]
         /\ Delivered(q)'[Len(Delivered(q)) + 1] = e
<1>1. received[q] \in Seq(Event) /\ queue[q] \in Seq(Event)
  BY DEF TypeOK
<1>2. \A r \in Queues : r # q => queue'[r] = queue[r]
  BY DEF TypeOK
<1>3. queue'[q] = Append(queue[q], e)
  BY DEF TypeOK
<1>4. received[q] \o Append(queue[q], e) = Append(received[q] \o queue[q], e)
  <2> DEFINE a == received[q]
             b == queue[q]
  <2>1. a \in Seq(Event) /\ b \in Seq(Event)
    BY <1>1
  <2> HIDE DEF a, b
  <2>2. a \o Append(b, e) = Append(a \o b, e)
    BY <2>1, AppendToConcat
  <2> QED
    BY <2>2 DEF a, b
<1>5. Delivered(q)' = Append(Delivered(q), e)
  BY <1>3, <1>4 DEF Delivered
<1>6. Delivered(q) \in Seq(Event)
  BY DeliveredType
<1>7. \A r \in Queues : r # q => Delivered(r)' = Delivered(r)
  BY <1>2 DEF Delivered
<1> DEFINE d == Delivered(q)
           n == Delivered(q)'
<1>8. d \in Seq(Event) /\ n = Append(d, e)
  BY <1>5, <1>6
<1> HIDE DEF d, n
<1>9. /\ DOMAIN n = 1 .. Len(d) + 1
      /\ \A i \in DOMAIN d : n[i] = d[i]
      /\ n[Len(d) + 1] = e
  BY <1>8
<1> QED
  BY <1>5, <1>7, <1>9 DEF d, n

\* A receive moves an event from the queue to its consumer.
LEMMA ReceiveDelivers ==
  ASSUME TypeOK, NEW q \in Queues, XQueueReceive(q)
  PROVE  \A r \in Queues : Delivered(r)' = Delivered(r)
<1>1. received[q] \in Seq(Event) /\ queue[q] \in Seq(Event) /\ queue[q] # <<>>
  BY DEF TypeOK, XQueueReceive
<1>2. /\ received'[q] = Append(received[q], Head(queue[q]))
      /\ queue'[q] = Tail(queue[q])
      /\ \A r \in Queues : r # q => received'[r] = received[r] /\ queue'[r] = queue[r]
  BY DEF TypeOK, XQueueReceive
<1>3. Append(received[q], Head(queue[q])) \o Tail(queue[q]) = received[q] \o queue[q]
  BY <1>1, ConcatHead
<1> QED
  BY <1>2, <1>3 DEF Delivered

\* The subscriber at idx does not hold the event before the send.
LEMMA CurrentNotReached ==
  ASSUME BusInv, IdInv, NEW p \in Tasks, InLoop(p),
         pc[p] \in {"send", "drop", "dropped"}
  PROVE  /\ Current(p) \in Queues
         /\ \A i \in DOMAIN Delivered(Current(p)) :
              Delivered(Current(p))[i].eventId # evt[p].eventId
<1>1. /\ evt[p].topic \in Topics /\ idx[p] \in Nat /\ idx[p] >= 1
      /\ subscribers[evt[p].topic] \in Seq(Queues)
  BY DEF BusInv, TypeOK, LoopBounds, Event
<1>2. Current(p) \in Queues
  BY <1>1, CurrentType DEF BusInv
<1>3. pc[p] \in Numbered /\ Tried(p) = idx[p] - 1
  BY DEF Numbered, PublishSteps, Tried
<1>4. ASSUME NEW i \in DOMAIN Delivered(Current(p)),
             Delivered(Current(p))[i].eventId = evt[p].eventId
      PROVE  FALSE
  <2>1. PICK k \in 1 .. Tried(p) : subscribers[evt[p].topic][k] = Current(p)
    BY <1>2, <1>3, <1>4 DEF IdInv, OwnEvent
  <2>2. k \in DOMAIN subscribers[evt[p].topic] /\ idx[p] \in DOMAIN subscribers[evt[p].topic] /\ k # idx[p]
    BY <1>1, <1>3 DEF InLoop
  <2> QED
    BY <1>1, <2>1, <2>2 DEF IdInv, SubscriberInv, Current
<1> QED
  BY <1>2, <1>4

-----------------------------------------------------------------------------
(* Ids.                                                                    *)

\* Tried is a number of subscribers.
LEMMA TriedType ==
  ASSUME BusInv, NEW p \in Tasks
  PROVE  Tried(p) \in Nat
<1>1. idx[p] \in Nat /\ idx[p] >= 1
  BY DEF BusInv, TypeOK, LoopBounds
<1> QED
  BY <1>1 DEF Tried

\* Nothing has an id before the first publication.
LEMMA IdInit == Init => IdInv /\ SentInv
<1> SUFFICES ASSUME Init PROVE IdInv /\ SentInv
  OBVIOUS
<1>1. \A q \in Queues : Delivered(q) = <<>>
  BY DEF Init, Delivered
<1>2. SubscriberInv
  BY DEF Init, SubscriberInv
<1>3. FreshIds /\ OwnEvent /\ EventIdIdentifies
  BY <1>1 DEF Init, FreshIds, OwnEvent, EventIdIdentifies, Numbered, PublishSteps
<1>4. SentInv
  BY DEF Init, SentInv, Offering
<1> QED
  BY <1>2, <1>3, <1>4 DEF IdInv

\* A step that gives no queue an event and numbers none.
LEMMA IdQuiet ==
  ASSUME BusInv, BusInv', IdInv,
         \A q \in Queues : Delivered(q)' = Delivered(q),
         UNCHANGED <<booted, subscribers, s_nextEventId>>,
         \A r \in Tasks : pc'[r] \in Numbered =>
           pc[r] \in Numbered /\ evt'[r] = evt[r] /\ Tried(r)' >= Tried(r)
  PROVE  IdInv'
<1>1. SubscriberInv'
  BY DEF IdInv, SubscriberInv
<1>2. FreshIds'
  BY DEF IdInv, FreshIds
<1>3. EventIdIdentifies'
  BY DEF IdInv, EventIdIdentifies
<1>4. OwnEvent'
  <2> SUFFICES ASSUME NEW p \in Tasks, NEW q \in Queues, NEW i \in DOMAIN Delivered(q),
                      pc'[p] \in Numbered, Delivered(q)[i].eventId = evt'[p].eventId
               PROVE  /\ Delivered(q)[i] = evt'[p]
                      /\ \E k \in 1 .. Tried(p)' : subscribers[evt'[p].topic][k] = q
    BY DEF OwnEvent
  <2>1. pc[p] \in Numbered /\ evt'[p] = evt[p]
    OBVIOUS
  <2>2. PICK k \in 1 .. Tried(p) : subscribers[evt[p].topic][k] = q
    BY <2>1 DEF IdInv, OwnEvent
  <2>3. Delivered(q)[i] = evt[p]
    BY <2>1 DEF IdInv, OwnEvent
  <2>4. Tried(p) \in Nat /\ Tried(p)' \in Nat /\ Tried(p)' >= Tried(p)
    <3>1. Tried(p) \in Nat
      BY TriedType
    <3>2. idx'[p] \in Nat /\ idx'[p] >= 1
      BY DEF BusInv, TypeOK, LoopBounds
    <3>3. Tried(p)' \in Nat
      BY <3>2 DEF Tried
    <3> QED
      BY <3>1, <3>3
  <2>5. k \in 1 .. Tried(p)'
    BY <2>4
  <2> QED
    BY <2>1, <2>2, <2>3, <2>5
<1> QED
  BY <1>1, <1>2, <1>3, <1>4 DEF IdInv

\* AllocateEventId takes an id that no event has.
LEMMA AllocateId ==
  ASSUME BusInv, BusInv', IdInv, NEW p \in Tasks, AllocateEventId(p)
  PROVE  IdInv'
<1>1. /\ evt' = [evt EXCEPT ![p].eventId = s_nextEventId]
      /\ s_nextEventId' = s_nextEventId + 1
      /\ pc' = [pc EXCEPT ![p] = "lock"]
      /\ UNCHANGED <<booted, subscribers, queue, received, idx>>
  BY DEF AllocateEventId, registryVars
<1>2. /\ pc \in [Tasks -> PCs] /\ evt \in [Tasks -> Event] /\ s_nextEventId \in Nat
      /\ evt[p] \in Event
  BY DEF BusInv, TypeOK
<1>3. \A r \in Tasks \ {p} : pc'[r] = pc[r] /\ evt'[r] = evt[r] /\ Tried(r)' = Tried(r)
  BY <1>1, <1>2 DEF Tried
<1>4. evt'[p].eventId = s_nextEventId /\ pc'[p] = "lock"
  BY <1>1, <1>2 DEF Event
<1>5. \A q \in Queues : Delivered(q)' = Delivered(q)
  BY <1>1 DEF Delivered
<1>6. SubscriberInv' /\ EventIdIdentifies'
  <2>1. SubscriberInv'
    BY <1>1 DEF IdInv, SubscriberInv
  <2>2. EventIdIdentifies'
    BY <1>5 DEF IdInv, EventIdIdentifies
  <2> QED
    BY <2>1, <2>2
<1>7. \A q \in Queues : \A i \in DOMAIN Delivered(q) :
        Delivered(q)[i].eventId \in Nat /\ Delivered(q)[i].eventId < s_nextEventId
  <2> TAKE q \in Queues
  <2> TAKE i \in DOMAIN Delivered(q)
  <2>1. Delivered(q)[i] \in Event
    BY DeliveredType DEF BusInv
  <2> QED
    BY <2>1 DEF IdInv, FreshIds, Event
<1>8. \A r \in Tasks : evt[r].eventId \in Nat
  BY <1>2 DEF Event
<1>9. FreshIds'
  <2>1. ASSUME NEW r \in Tasks, pc'[r] \in Numbered
        PROVE  evt'[r].eventId < s_nextEventId'
    BY <1>1, <1>2, <1>3, <1>4, <1>8, <2>1 DEF IdInv, FreshIds
  <2>2. ASSUME NEW r \in Tasks, NEW u \in Tasks, pc'[r] \in Numbered, pc'[u] \in Numbered,
               evt'[r].eventId = evt'[u].eventId
        PROVE  r = u
    BY <1>1, <1>2, <1>3, <1>4, <1>8, <2>2 DEF IdInv, FreshIds
  <2>3. \A q \in Queues : \A i \in DOMAIN Delivered(q) : Delivered(q)[i].eventId < s_nextEventId'
    BY <1>1, <1>2, <1>7
  <2> QED
    BY <1>5, <2>1, <2>2, <2>3 DEF FreshIds
<1>10. OwnEvent'
  <2> SUFFICES ASSUME NEW r \in Tasks, NEW q \in Queues, NEW i \in DOMAIN Delivered(q),
                      pc'[r] \in Numbered, Delivered(q)[i].eventId = evt'[r].eventId
               PROVE  /\ Delivered(q)[i] = evt'[r]
                      /\ \E k \in 1 .. Tried(r)' : subscribers[evt'[r].topic][k] = q
    BY <1>1, <1>5 DEF OwnEvent
  <2>1. r # p
    BY <1>2, <1>4, <1>7
  <2> QED
    BY <1>3, <2>1 DEF IdInv, OwnEvent
<1> QED
  BY <1>6, <1>9, <1>10 DEF IdInv

\* The loop sends each subscriber an event that it does not hold.
LEMMA SendId ==
  ASSUME BusInv, BusInv', IdInv, NEW p \in Tasks, SendAccepted(p)
  PROVE  IdInv'
<1>0. PICK c \in Queues : c = Current(p)
  BY CurrentNotReached DEF SendAccepted
<1>1. /\ pc[p] = "send" /\ InLoop(p)
      /\ queue' = [queue EXCEPT ![c] = Append(queue[c], evt[p])]
      /\ pc' = [pc EXCEPT ![p] = "sent"]
      /\ UNCHANGED <<booted, subscribers, s_nextEventId, received, evt, idx>>
  BY <1>0 DEF SendAccepted, registryVars, localVars
<1>2. c \in Queues /\ \A i \in DOMAIN Delivered(c) : Delivered(c)[i].eventId # evt[p].eventId
  BY <1>0, <1>1, CurrentNotReached
<1>3. /\ pc \in [Tasks -> PCs] /\ evt[p] \in Event
      /\ idx[p] \in Nat /\ idx[p] >= 1
  BY DEF BusInv, TypeOK, LoopBounds
<1>4. subscribers[evt[p].topic][idx[p]] = c
  BY <1>0 DEF Current
<1> DEFINE n == Len(Delivered(c)) + 1
<1>5. /\ \A r \in Queues : r # c => Delivered(r)' = Delivered(r)
      /\ DOMAIN Delivered(c)' = 1 .. n
      /\ \A i \in DOMAIN Delivered(c) : Delivered(c)'[i] = Delivered(c)[i]
      /\ Delivered(c)'[n] = evt[p]
      /\ DOMAIN Delivered(c) = 1 .. n - 1
      /\ n \in Nat \ {0}
  <2>1. /\ \A r \in Queues : r # c => Delivered(r)' = Delivered(r)
        /\ DOMAIN Delivered(c)' = 1 .. n
        /\ \A i \in DOMAIN Delivered(c) : Delivered(c)'[i] = Delivered(c)[i]
        /\ Delivered(c)'[n] = evt[p]
    BY <1>1, <1>2, <1>3, SendDelivers DEF BusInv
  <2>2. Len(Delivered(c)) \in Nat /\ DOMAIN Delivered(c) = 1 .. Len(Delivered(c))
    BY <1>2, DeliveredType DEF BusInv
  <2> QED
    BY <2>1, <2>2
<1> HIDE DEF n
<1>6. \A q \in Queues : \A i \in DOMAIN Delivered(q)' :
        \/ i \in DOMAIN Delivered(q) /\ Delivered(q)'[i] = Delivered(q)[i]
        \/ q = c /\ i = n /\ Delivered(q)'[i] = evt[p]
  BY <1>5
<1>7. /\ \A r \in Tasks : pc'[r] \in Numbered <=> pc[r] \in Numbered
      /\ pc[p] \in Numbered
      /\ \A r \in Tasks : r # p => Tried(r)' = Tried(r)
      /\ Tried(p) = idx[p] - 1 /\ Tried(p)' = idx[p]
  BY <1>1, <1>3 DEF Numbered, PublishSteps, Tried
<1>8. SubscriberInv'
  BY <1>1 DEF IdInv, SubscriberInv
<1>9. FreshIds'
  <2>1. \A q \in Queues : \A i \in DOMAIN Delivered(q)' : Delivered(q)'[i].eventId < s_nextEventId
    BY <1>6, <1>7 DEF IdInv, FreshIds
  <2> QED
    BY <1>1, <1>7, <2>1 DEF IdInv, FreshIds
<1>10. \A q \in Queues : \A i \in DOMAIN Delivered(q) :
         Delivered(q)[i].eventId = evt[p].eventId => q # c /\ Delivered(q)[i] = evt[p]
  BY <1>2, <1>7 DEF IdInv, OwnEvent
<1>11. EventIdIdentifies'
  <2> SUFFICES ASSUME NEW q1 \in Queues, NEW q2 \in Queues,
                      NEW i \in DOMAIN Delivered(q1)', NEW j \in DOMAIN Delivered(q2)',
                      Delivered(q1)'[i].eventId = Delivered(q2)'[j].eventId
               PROVE  Delivered(q1)'[i] = Delivered(q2)'[j] /\ (q1 = q2 => i = j)
    BY DEF EventIdIdentifies
  <2>1. CASE i \in DOMAIN Delivered(q1) /\ Delivered(q1)'[i] = Delivered(q1)[i]
    <3>1. CASE j \in DOMAIN Delivered(q2) /\ Delivered(q2)'[j] = Delivered(q2)[j]
      BY <2>1, <3>1 DEF IdInv, EventIdIdentifies
    <3>2. CASE q2 = c /\ j = n /\ Delivered(q2)'[j] = evt[p]
      BY <1>10, <2>1, <3>2
    <3> QED
      BY <1>6, <3>1, <3>2
  <2>2. CASE q1 = c /\ i = n /\ Delivered(q1)'[i] = evt[p]
    <3>1. CASE j \in DOMAIN Delivered(q2) /\ Delivered(q2)'[j] = Delivered(q2)[j]
      BY <1>10, <2>2, <3>1
    <3>2. CASE q2 = c /\ j = n /\ Delivered(q2)'[j] = evt[p]
      BY <2>2, <3>2
    <3> QED
      BY <1>6, <3>1, <3>2
  <2> QED
    BY <1>6, <2>1, <2>2
<1>12. OwnEvent'
  <2> SUFFICES ASSUME NEW r \in Tasks, NEW q \in Queues, NEW i \in DOMAIN Delivered(q)',
                      pc[r] \in Numbered, Delivered(q)'[i].eventId = evt[r].eventId
               PROVE  /\ Delivered(q)'[i] = evt[r]
                      /\ \E k \in 1 .. Tried(r)' : subscribers[evt[r].topic][k] = q
    BY <1>1, <1>7 DEF OwnEvent
  <2>1. CASE i \in DOMAIN Delivered(q) /\ Delivered(q)'[i] = Delivered(q)[i]
    <3>1. Delivered(q)[i] = evt[r] /\ \E k \in 1 .. Tried(r) : subscribers[evt[r].topic][k] = q
      BY <2>1 DEF IdInv, OwnEvent
    <3>2. 1 .. Tried(r) \subseteq 1 .. Tried(r)'
      BY <1>3, <1>7
    <3> QED
      BY <2>1, <3>1, <3>2
  <2>2. CASE q = c /\ i = n /\ Delivered(q)'[i] = evt[p]
    <3>1. r = p
      BY <1>7, <2>2 DEF IdInv, FreshIds
    <3>2. idx[p] \in 1 .. Tried(p)'
      BY <1>3, <1>7
    <3> QED
      BY <1>4, <2>2, <3>1, <3>2
  <2> QED
    BY <1>6, <2>1, <2>2
<1> QED
  BY <1>8, <1>9, <1>11, <1>12 DEF IdInv

\* Bus_Subscribe adds a queue that its topic does not have.
LEMMA SubscribeApart ==
  ASSUME TypeOK, SubscriberInv, Bus_Subscribe
  PROVE  SubscriberInv'
<1>1. /\ ~Running /\ booted \in Nat /\ booted + 1 \in DOMAIN Subscriptions
      /\ DOMAIN Subscriptions = 1 .. Len(Subscriptions) /\ Len(Subscriptions) \in Nat
  <2>1. booted \in 0 .. Len(Subscriptions) /\ Len(Subscriptions) \in Nat
    BY BusAssumption DEF TypeOK
  <2> QED
    BY <2>1, BusAssumption DEF Running, Bus_Subscribe
<1>2. PICK t \in Topics, q \in Queues : Subscriptions[booted + 1] = <<t, q>>
  BY <1>1, BusAssumption
<1>3. Subscriptions[booted + 1][1] = t /\ Subscriptions[booted + 1][2] = q
  BY <1>2
<1>4. /\ booted' = booted + 1
      /\ UNCHANGED <<queue, received, pc, evt>>
      /\ \/ subscribers' = subscribers
         \/ subscribers' = [subscribers EXCEPT ![t] = Append(subscribers[t], q)]
  BY <1>3 DEF Bus_Subscribe, localVars
<1> SUFFICES ASSUME NEW u \in Topics
             PROVE  /\ \A k \in DOMAIN subscribers'[u] :
                         \E n \in 1 .. booted + 1 : Subscriptions[n] = <<u, subscribers'[u][k]>>
                    /\ \A j, k \in DOMAIN subscribers'[u] :
                         subscribers'[u][j] = subscribers'[u][k] => j = k
  BY <1>4 DEF SubscriberInv
<1>5. /\ \A k \in DOMAIN subscribers[u] :
           \E n \in 1 .. booted : Subscriptions[n] = <<u, subscribers[u][k]>>
      /\ \A j, k \in DOMAIN subscribers[u] : subscribers[u][j] = subscribers[u][k] => j = k
  BY DEF SubscriberInv
<1>6. 1 .. booted \subseteq 1 .. booted + 1 /\ booted + 1 \in 1 .. booted + 1
  BY <1>1
<1>7. CASE subscribers'[u] = subscribers[u]
  BY <1>5, <1>6, <1>7
<1>8. CASE u = t /\ subscribers'[u] = Append(subscribers[u], q)
  <2> DEFINE s == subscribers[u]
             a == subscribers'[u]
             l == Len(subscribers[u]) + 1
  <2>1. s \in Seq(Queues) /\ a = Append(s, q)
    BY <1>8 DEF TypeOK
  <2>2. /\ DOMAIN a = DOMAIN s \cup {l} /\ l \notin DOMAIN s
        /\ \A k \in DOMAIN s : a[k] = s[k]
        /\ a[l] = q
    BY <2>1
  <2>3. \A k \in DOMAIN s : s[k] # q
    <3> SUFFICES ASSUME NEW k \in DOMAIN s, s[k] = q PROVE FALSE
      OBVIOUS
    <3>1. PICK n \in 1 .. booted : Subscriptions[n] = <<u, q>>
      BY <1>5
    <3>2. n \in DOMAIN Subscriptions /\ n # booted + 1
      BY <1>1
    <3> QED
      BY <1>1, <1>2, <1>8, <3>1, <3>2, SubscribedOnce
  <2>4. \A k \in DOMAIN s : \E n \in 1 .. booted + 1 : Subscriptions[n] = <<u, s[k]>>
    BY <1>5, <1>6
  <2>5. \E n \in 1 .. booted + 1 : Subscriptions[n] = <<u, q>>
    BY <1>2, <1>6, <1>8
  <2>6. \A j, k \in DOMAIN s : s[j] = s[k] => j = k
    BY <1>5
  <2> HIDE DEF s, a, l
  <2>7. \A k \in DOMAIN a : \E n \in 1 .. booted + 1 : Subscriptions[n] = <<u, a[k]>>
    BY <2>2, <2>4, <2>5
  <2>8. \A j, k \in DOMAIN a : a[j] = a[k] => j = k
    BY <2>2, <2>3, <2>6
  <2> QED
    BY <2>7, <2>8 DEF a
<1>9. subscribers'[u] = subscribers[u] \/ (u = t /\ subscribers'[u] = Append(subscribers[u], q))
  BY <1>4 DEF TypeOK
<1> QED
  BY <1>7, <1>8, <1>9

\* The ids do not notice it.
LEMMA SubscribeId ==
  ASSUME BusInv, BusInv', IdInv, Bus_Subscribe
  PROVE  IdInv'
<1>1. ~Running /\ UNCHANGED <<s_nextEventId, queue, received, pc, evt>>
  BY DEF Bus_Subscribe, localVars
<1>2. \A p \in Tasks : pc[p] = "idle"
  BY <1>1 DEF BusInv, QuietStart
<1>3. \A r \in Queues : Delivered(r)' = Delivered(r)
  BY <1>1 DEF Delivered
<1>4. FreshIds'
  BY <1>1, <1>3 DEF IdInv, FreshIds
<1>5. OwnEvent'
  BY <1>1, <1>2 DEF OwnEvent, Numbered, PublishSteps
<1>6. EventIdIdentifies'
  BY <1>3 DEF IdInv, EventIdIdentifies
<1> QED
  BY <1>4, <1>5, <1>6, SubscribeApart DEF BusInv, IdInv

-----------------------------------------------------------------------------
(* The count of accepted sends.                                            *)

\* The set that accepted counts is finite.
LEMMA GotFinite ==
  ASSUME BusInv, NEW p \in Tasks
  PROVE  IsFiniteSet(Got(p)) /\ Cardinality(Got(p)) \in Nat
<1>1. idx[p] - 1 \in Int
  BY DEF BusInv, TypeOK
<1>2. IsFiniteSet(1 .. idx[p] - 1)
  BY <1>1, FS_Interval
<1>3. Got(p) \in SUBSET (1 .. idx[p] - 1)
  BY DEF Got
<1> QED
  BY <1>2, <1>3, FS_Subset, FS_CardinalityType

\* A step that gives no queue an event and counts none.
LEMMA SentQuiet ==
  ASSUME SentInv,
         \A q \in Queues : Delivered(q)' = Delivered(q),
         UNCHANGED subscribers, BusInv, BusInv',
         \A r \in Tasks : pc'[r] \in Offering \cup {"send"} =>
           /\ pc[r] \in Offering \cup {"send"}
           /\ pc'[r] = "sent" => pc[r] = "sent"
           /\ evt'[r] = evt[r] /\ idx'[r] = idx[r]
           /\ accepted'[r] = accepted[r] /\ result'[r] = result[r]
  PROVE  SentInv'
<1> SUFFICES ASSUME NEW p \in Tasks, pc'[p] \in Offering \cup {"send"}
             PROVE  /\ accepted'[p] = Cardinality(Got(p)')
                    /\ result'[p] <=> accepted'[p] = idx'[p] - 1
                    /\ accepted'[p] <= idx'[p] - 1
                    /\ pc'[p] = "sent" => Holds(p, Current(p))'
  BY DEF SentInv, Offering
<1>1. /\ pc[p] \in Offering \cup {"send"}
      /\ pc'[p] = "sent" => pc[p] = "sent"
      /\ evt'[p] = evt[p] /\ idx'[p] = idx[p]
      /\ accepted'[p] = accepted[p] /\ result'[p] = result[p]
  OBVIOUS
<1>2. \A k \in 1 .. idx[p] - 1 : subscribers[evt[p].topic][k] \in Queues
  <2>1. /\ subscribers[evt[p].topic] \in Seq(Queues) /\ idx[p] \in Nat
        /\ idx[p] <= Len(subscribers[evt[p].topic]) + 1
    <3>1. evt[p].topic \in Topics /\ idx[p] \in Nat
      BY DEF BusInv, TypeOK, Event
    <3>2. subscribers[evt[p].topic] \in Seq(Queues)
      BY <3>1 DEF BusInv, TypeOK
    <3> QED
      BY <1>1, <3>1, <3>2 DEF BusInv, LoopBounds
  <2> QED
    BY <2>1
<1>3. \A q \in Queues : Holds(p, q)' <=> Holds(p, q)
  BY <1>1 DEF Holds
<1>4. Got(p)' = Got(p)
  BY <1>1, <1>2, <1>3 DEF Got
<1>5. pc[p] = "sent" => Current(p) \in Queues /\ Current(p)' = Current(p)
  <2>1. pc[p] = "sent" => InLoop(p) /\ idx[p] >= 1
    BY DEF BusInv, LoopBounds, InLoop, Offering
  <2> QED
    BY <1>1, <2>1, CurrentType DEF BusInv, Current
<1>6. pc[p] = "sent" => Holds(p, Current(p))'
  BY <1>1, <1>3, <1>5 DEF SentInv, Holds
<1> QED
  BY <1>1, <1>4, <1>6 DEF SentInv

\* What a task's loop has gone through are queues.
LEMMA LoopQueues ==
  ASSUME BusInv, NEW p \in Tasks, pc[p] \in Offering \cup {"send"}
  PROVE  /\ evt[p].topic \in Topics /\ idx[p] \in Nat /\ idx[p] >= 1
         /\ subscribers[evt[p].topic] \in Seq(Queues)
         /\ idx[p] <= Len(subscribers[evt[p].topic]) + 1
         /\ 1 .. idx[p] - 1 \subseteq DOMAIN subscribers[evt[p].topic]
         /\ \A k \in 1 .. idx[p] - 1 : subscribers[evt[p].topic][k] \in Queues
<1>1. evt[p].topic \in Topics /\ idx[p] \in Nat
  BY DEF BusInv, TypeOK, Event
<1>2. subscribers[evt[p].topic] \in Seq(Queues)
  BY <1>1 DEF BusInv, TypeOK
<1>3. idx[p] >= 1 /\ idx[p] <= Len(subscribers[evt[p].topic]) + 1
  BY <1>1, <1>2 DEF BusInv, LoopBounds
<1> QED
  BY <1>1, <1>2, <1>3

\* An accepted send is counted for its own task only.
LEMMA SendSent ==
  ASSUME BusInv, BusInv', IdInv, SentInv, NEW p \in Tasks, SendAccepted(p)
  PROVE  SentInv'
<1>0. PICK c \in Queues : c = Current(p)
  BY CurrentNotReached DEF SendAccepted
<1>1. /\ pc[p] = "send" /\ InLoop(p)
      /\ queue' = [queue EXCEPT ![c] = Append(queue[c], evt[p])]
      /\ pc' = [pc EXCEPT ![p] = "sent"]
      /\ UNCHANGED <<subscribers, received, evt, idx, accepted, result>>
  BY <1>0 DEF SendAccepted, registryVars, localVars
<1>2. pc \in [Tasks -> PCs] /\ evt[p] \in Event
  BY DEF BusInv, TypeOK
<1>3. /\ \A r \in Queues : r # c => Delivered(r)' = Delivered(r)
      /\ DOMAIN Delivered(c)' = 1 .. Len(Delivered(c)) + 1
      /\ \A i \in DOMAIN Delivered(c) : Delivered(c)'[i] = Delivered(c)[i]
      /\ Delivered(c)'[Len(Delivered(c)) + 1] = evt[p]
  BY <1>1, <1>2, SendDelivers DEF BusInv
<1>4. Len(Delivered(c)) \in Nat /\ DOMAIN Delivered(c) = 1 .. Len(Delivered(c))
  BY DeliveredType DEF BusInv
<1>5. Holds(p, c)'
  BY <1>1, <1>3, <1>4 DEF Holds
<1>6. \A r \in Tasks, q \in Queues : evt[r] # evt[p] \/ q # c => (Holds(r, q)' <=> Holds(r, q))
  BY <1>1, <1>3, <1>4 DEF Holds
<1>7. SUFFICES ASSUME NEW r \in Tasks, pc'[r] \in Offering \cup {"send"}
               PROVE  /\ accepted'[r] = Cardinality(Got(r)')
                      /\ result'[r] <=> accepted'[r] = idx'[r] - 1
                      /\ accepted'[r] <= idx'[r] - 1
                      /\ pc'[r] = "sent" => Holds(r, Current(r))'
  BY DEF SentInv, Offering
<1>8. /\ pc[r] \in Offering \cup {"send"}
      /\ pc'[r] = "sent" => pc[r] = "sent" \/ r = p
  BY <1>1, <1>2, <1>7 DEF Offering
<1>9. \A k \in 1 .. idx[r] - 1 :
        Holds(r, subscribers[evt[r].topic][k])' <=> Holds(r, subscribers[evt[r].topic][k])
  <2> TAKE k \in 1 .. idx[r] - 1
  <2>1. PICK q \in Queues : q = subscribers[evt[r].topic][k]
    BY <1>8, LoopQueues
  <2>2. (Holds(r, q)' <=> Holds(r, q))
    <3>1. CASE r # p
      <4>1. evt[r].eventId # evt[p].eventId
        BY <1>1, <1>8, <3>1 DEF IdInv, FreshIds, Numbered, PublishSteps, Offering
      <4> QED
        BY <1>6, <4>1
    <3>2. CASE r = p
      <4>1. /\ k \in DOMAIN subscribers[evt[p].topic]
            /\ idx[p] \in DOMAIN subscribers[evt[p].topic]
            /\ k # idx[p]
            /\ evt[p].topic \in Topics
        BY <1>1, <1>8, <3>2, LoopQueues DEF InLoop
      <4>2. q # c
        BY <1>0, <2>1, <3>2, <4>1 DEF IdInv, SubscriberInv, Current
      <4> QED
        BY <1>6, <4>2
    <3> QED
      BY <3>1, <3>2
  <2>3. subscribers'[evt'[r].topic][k] = q
    BY <1>1, <2>1
  <2> QED
    BY <1>1, <2>1, <2>2 DEF Holds
<1>10. Got(r)' = Got(r)
  BY <1>1, <1>9 DEF Got
<1>11. pc'[r] = "sent" => Holds(r, Current(r))'
  <2>1. CASE r = p
    <3>1. Current(p)' = c
      BY <1>0, <1>1 DEF Current
    <3> QED
      BY <1>5, <2>1, <3>1 DEF Holds
  <2>2. CASE r # p /\ pc[r] = "sent"
    <3>1. InLoop(r) /\ idx[r] >= 1
      BY <2>2 DEF BusInv, LoopBounds, InLoop, Offering
    <3>2. PICK q \in Queues : q = Current(r)
      BY <3>1, CurrentType DEF BusInv
    <3>3. Current(r)' = q
      BY <1>1, <3>2 DEF Current
    <3>4. Holds(r, q)
      BY <2>2, <3>2 DEF SentInv
    <3>5. evt[r].eventId # evt[p].eventId
      BY <1>1, <2>2 DEF IdInv, FreshIds, Numbered, PublishSteps
    <3>6. Holds(r, q)'
      BY <1>6, <3>4, <3>5
    <3> QED
      BY <3>3, <3>6 DEF Holds
  <2> QED
    BY <1>8, <2>1, <2>2
<1> QED
  BY <1>1, <1>8, <1>10, <1>11 DEF SentInv

\* The loop moves on, and counts the subscriber that it leaves if that holds the
\* event.
LEMMA CountSent ==
  ASSUME BusInv, BusInv', IdInv, SentInv, NEW p \in Tasks,
         CountDelivered(p) \/ CountDropped(p)
  PROVE  SentInv'
<1> DEFINE L == Offering \cup {"send"}
<1>1. /\ pc[p] \in Offering
      /\ idx' = [idx EXCEPT ![p] = idx[p] + 1]
      /\ pc' = [pc EXCEPT ![p] = "send"]
      /\ UNCHANGED <<subscribers, queue, received, evt>>
  BY DEF CountDelivered, CountDropped, registryVars, Offering
<1>2. /\ pc \in [Tasks -> PCs] /\ idx \in [Tasks -> Nat] /\ accepted \in [Tasks -> Nat]
      /\ result \in [Tasks -> BOOLEAN]
  BY DEF BusInv, TypeOK
<1>3. \A q \in Queues, r \in Tasks : Holds(r, q)' <=> Holds(r, q)
  BY <1>1 DEF Holds, Delivered
<1>4. \A r \in Tasks : r # p => /\ pc'[r] = pc[r] /\ idx'[r] = idx[r]
                                /\ accepted'[r] = accepted[r] /\ result'[r] = result[r]
  BY <1>1, <1>2 DEF CountDelivered, CountDropped
<1>5. \A r \in Tasks : r # p => (pc[r] = "sent" => Holds(r, Current(r))')
  <2> SUFFICES ASSUME NEW r \in Tasks, r # p, pc[r] = "sent" PROVE Holds(r, Current(r))'
    OBVIOUS
  <2>1. Current(r)' = Current(r)
    BY <1>1, <1>4 DEF Current
  <2>2. Holds(r, Current(r))
    BY DEF SentInv
  <2> QED
    BY <1>1, <2>1, <2>2 DEF Holds, Delivered
<1>6. \A r \in Tasks : r # p => Got(r)' = Got(r)
  BY <1>1, <1>4 DEF Got, Holds, Delivered
<1>7. PICK c \in Queues : c = Current(p)
  <2>1. InLoop(p) /\ idx[p] >= 1
    BY <1>1 DEF BusInv, LoopBounds, InLoop
  <2> QED
    BY <2>1, CurrentType DEF BusInv
<1>8. idx[p] \in Nat /\ idx[p] >= 1 /\ idx'[p] = idx[p] + 1 /\ pc'[p] = "send"
  BY <1>1, <1>2 DEF BusInv, LoopBounds
<1>9. Got(p)' = IF Holds(p, c) THEN Got(p) \cup {idx[p]} ELSE Got(p)
  <2>1. \A k : Holds(p, subscribers[evt[p].topic][k])' <=> Holds(p, subscribers[evt[p].topic][k])
    BY <1>1 DEF Holds, Delivered
  <2>2. Got(p)' = {k \in 1 .. idx[p] : Holds(p, subscribers[evt[p].topic][k])}
    BY <1>8, <2>1 DEF Got
  <2>3. subscribers[evt[p].topic][idx[p]] = c
    BY <1>7 DEF Current
  <2>4. 1 .. idx[p] = (1 .. idx[p] - 1) \cup {idx[p]}
    BY <1>8
  <2> QED
    BY <2>2, <2>3, <2>4 DEF Got
<1>10. idx[p] \notin Got(p) /\ IsFiniteSet(Got(p)) /\ Cardinality(Got(p)) \in Nat
  BY <1>8, GotFinite DEF Got
<1>11. /\ accepted[p] = Cardinality(Got(p))
       /\ result[p] <=> accepted[p] = idx[p] - 1
       /\ accepted[p] <= idx[p] - 1
  BY <1>1 DEF SentInv
<1>12. /\ accepted'[p] = Cardinality(Got(p)')
       /\ result'[p] <=> accepted'[p] = idx'[p] - 1
       /\ accepted'[p] <= idx'[p] - 1
  <2>1. CASE CountDelivered(p)
    <3>1. Holds(p, c)
      BY <1>7, <2>1 DEF CountDelivered, SentInv
    <3>2. Cardinality(Got(p)') = Cardinality(Got(p)) + 1
      BY <1>9, <1>10, <3>1, FS_AddElement
    <3>3. accepted'[p] = accepted[p] + 1 /\ result'[p] = result[p]
      BY <1>2, <2>1 DEF CountDelivered
    <3> QED
      BY <1>2, <1>8, <1>10, <1>11, <3>2, <3>3
  <2>2. CASE CountDropped(p)
    <3>1. InLoop(p) /\ pc[p] = "dropped"
      BY <1>1, <2>2 DEF CountDropped, BusInv, LoopBounds, InLoop
    <3>2. ~Holds(p, c)
      BY <1>7, <3>1, CurrentNotReached DEF Holds
    <3>3. accepted'[p] = accepted[p] /\ result'[p] = FALSE
      BY <1>2, <2>2 DEF CountDropped
    <3> QED
      BY <1>2, <1>8, <1>9, <1>10, <1>11, <3>2, <3>3
  <2> QED
    BY <2>1, <2>2
<1> SUFFICES ASSUME NEW r \in Tasks
             PROVE  /\ pc'[r] \in L =>
                         /\ accepted'[r] = Cardinality(Got(r)')
                         /\ result'[r] <=> accepted'[r] = idx'[r] - 1
                         /\ accepted'[r] <= idx'[r] - 1
                    /\ pc'[r] = "sent" => Holds(r, Current(r))'
  BY DEF SentInv
<1>13. CASE r = p
  BY <1>8, <1>12, <1>13
<1>14. CASE r # p
  BY <1>4, <1>5, <1>6, <1>14 DEF SentInv
<1> QED
  BY <1>13, <1>14

-----------------------------------------------------------------------------
(* Ids and counts together.                                                *)

\* Publish_Begin starts the count from nothing.
LEMMA BeginSent ==
  ASSUME BusInv, BusInv', SentInv, NEW p \in Tasks, Publish_Begin(p)
  PROVE  SentInv'
<1>1. /\ pc[p] = "publish"
      /\ idx' = [idx EXCEPT ![p] = 1]
      /\ accepted' = [accepted EXCEPT ![p] = 0]
      /\ result' = [result EXCEPT ![p] = TRUE]
      /\ pc' = [pc EXCEPT ![p] = "send"]
      /\ UNCHANGED <<subscribers, queue, received, evt>>
  BY DEF Publish_Begin, registryVars
<1>2. /\ pc \in [Tasks -> PCs] /\ idx \in [Tasks -> Nat] /\ accepted \in [Tasks -> Nat]
      /\ result \in [Tasks -> BOOLEAN]
  BY DEF BusInv, TypeOK
<1> SUFFICES ASSUME NEW r \in Tasks, pc'[r] \in Offering \cup {"send"}
             PROVE  /\ accepted'[r] = Cardinality(Got(r)')
                    /\ result'[r] <=> accepted'[r] = idx'[r] - 1
                    /\ accepted'[r] <= idx'[r] - 1
                    /\ pc'[r] = "sent" => Holds(r, Current(r))'
  BY DEF SentInv, Offering
<1>3. CASE r = p
  <2>1. idx'[p] = 1 /\ accepted'[p] = 0 /\ result'[p] = TRUE /\ pc'[p] = "send"
    BY <1>1, <1>2
  <2>2. Got(p)' = {}
    BY <2>1 DEF Got
  <2>3. Cardinality(Got(p)') = 0
    BY <2>2, FS_EmptySet
  <2> QED
    BY <1>3, <2>1, <2>3
<1>4. CASE r # p
  <2>1. /\ pc'[r] = pc[r] /\ idx'[r] = idx[r] /\ accepted'[r] = accepted[r]
        /\ result'[r] = result[r]
    BY <1>1, <1>2, <1>4, SMTT(30)
  <2>2. Got(r)' = Got(r)
    BY <1>1, <2>1, ZenonT(60) DEF Got, Holds, Delivered
  <2>3. Current(r)' = Current(r)
    BY <1>1, <2>1 DEF Current
  <2>4. pc[r] = "sent" => Holds(r, Current(r))'
    BY <1>1, <2>3 DEF SentInv, Holds, Delivered
  <2> QED
    BY <2>1, <2>2, <2>4 DEF SentInv
<1> QED
  BY <1>3, <1>4

\* Every step of a publish call preserves the invariants.
LEMMA PublishDelivery ==
  ASSUME BusInv, BusInv', IdInv, SentInv, NEW p \in Tasks, PublishStep(p)
  PROVE  IdInv' /\ SentInv'
<1>0. /\ pc \in [Tasks -> PCs] /\ idx \in [Tasks -> Nat] /\ evt \in [Tasks -> Event]
      /\ idx[p] \in Nat /\ idx[p] >= 1
  BY DEF BusInv, TypeOK, LoopBounds
<1>00. Offering \cup {"send"} \subseteq Numbered
  BY DEF Offering, Numbered, PublishSteps
<1>a. ASSUME UNCHANGED <<queue, received>>
      PROVE  \A q \in Queues : Delivered(q)' = Delivered(q)
  BY <1>a DEF Delivered
<1>1. CASE MakeEvent_Store(p) \/ MakeEvent_Reload(p)
  <2>1. /\ pc[p] \notin Numbered /\ pc'[p] \notin Numbered
        /\ \A r \in Tasks : r # p => pc'[r] = pc[r] /\ evt'[r] = evt[r]
        /\ UNCHANGED <<booted, subscribers, s_nextEventId, queue, received, idx, accepted, result>>
    BY <1>0, <1>1
       DEF MakeEvent_Store, MakeEvent_Reload, registryVars, localVars, Numbered, PublishSteps
  <2>2. \A r \in Tasks : r # p => Tried(r)' = Tried(r) /\ Tried(r) \in Nat
    BY <2>1, TriedType DEF Tried
  <2>3. IdInv'
    BY <1>a, <2>1, <2>2, IdQuiet
  <2>4. SentInv'
    BY <1>a, <1>00, <2>1, SentQuiet
  <2> QED
    BY <2>3, <2>4
<1>2. CASE AllocateEventId(p)
  <2>1. /\ pc[p] \notin Offering \cup {"send"} /\ pc'[p] \notin Offering \cup {"send"}
        /\ \A r \in Tasks : r # p => pc'[r] = pc[r] /\ evt'[r] = evt[r]
        /\ UNCHANGED <<subscribers, queue, received, idx, accepted, result>>
    BY <1>0, <1>2 DEF AllocateEventId, registryVars, Offering
  <2>2. SentInv'
    BY <1>a, <2>1, SentQuiet
  <2> QED
    BY <1>2, <2>2, AllocateId
<1>3. CASE Publish_TakeLock(p) \/ Publish_Return(p) \/ SendRejected(p) \/ IncrementDropCount(p)
  <2>1. /\ \A r \in Tasks : r # p => pc'[r] = pc[r]
        /\ pc'[p] \in Numbered => pc[p] \in Numbered
        /\ pc'[p] \in Offering \cup {"send"} =>
             pc[p] \in Offering \cup {"send"} /\ pc'[p] # "sent"
        /\ UNCHANGED <<booted, subscribers, s_nextEventId, queue, received, evt, idx, accepted,
                       result>>
    BY <1>0, <1>3
       DEF Publish_TakeLock, Publish_Return, SendRejected, IncrementDropCount, registryVars,
           localVars, Numbered, PublishSteps, Offering
  <2>2. \A r \in Tasks : pc'[r] \in Numbered => Tried(r)' >= Tried(r)
    <3>1. \A r \in Tasks : r # p => Tried(r)' = Tried(r) /\ Tried(r) \in Nat
      BY <2>1, TriedType DEF Tried
    <3>2. pc'[p] \in Numbered => Tried(p)' = Tried(p) /\ Tried(p) \in Nat
      BY <1>0, <1>3, TriedType
         DEF Publish_TakeLock, Publish_Return, SendRejected, IncrementDropCount, Tried,
             localVars, Numbered, PublishSteps
    <3> QED
      BY <3>1, <3>2
  <2>3. IdInv'
    BY <1>a, <2>1, <2>2, IdQuiet
  <2>4. SentInv'
    BY <1>a, <2>1, SentQuiet
  <2> QED
    BY <2>3, <2>4
<1>4. CASE Publish_Begin(p)
  <2>1. /\ \A r \in Tasks : r # p => pc'[r] = pc[r] /\ idx'[r] = idx[r]
        /\ pc[p] = "publish" /\ pc'[p] = "send" /\ idx'[p] = 1
        /\ UNCHANGED <<booted, subscribers, s_nextEventId, queue, received, evt>>
    BY <1>0, <1>4 DEF Publish_Begin, registryVars
  <2>2. \A r \in Tasks : Tried(r)' >= Tried(r)
    <3>1. \A r \in Tasks : r # p => Tried(r)' = Tried(r) /\ Tried(r) \in Nat
      BY <2>1, TriedType DEF Tried
    <3>2. Tried(p)' = 0 /\ Tried(p) = 0
      BY <2>1 DEF Tried
    <3> QED
      BY <3>1, <3>2
  <2>3. \A r \in Tasks : pc'[r] \in Numbered => pc[r] \in Numbered
    BY <2>1 DEF Numbered, PublishSteps
  <2>4. IdInv'
    BY <1>a, <2>1, <2>2, <2>3, IdQuiet
  <2> QED
    BY <1>4, <2>4, BeginSent
<1>5. CASE SendAccepted(p)
  BY <1>5, SendId, SendSent
<1>6. CASE CountDelivered(p) \/ CountDropped(p)
  <2>1. /\ \A r \in Tasks : r # p => pc'[r] = pc[r] /\ idx'[r] = idx[r]
        /\ pc[p] \in {"sent", "dropped"} /\ pc'[p] = "send" /\ idx'[p] = idx[p] + 1
        /\ UNCHANGED <<booted, subscribers, s_nextEventId, queue, received, evt>>
    BY <1>0, <1>6 DEF CountDelivered, CountDropped, registryVars
  <2>2. \A r \in Tasks : Tried(r)' >= Tried(r)
    <3>1. \A r \in Tasks : r # p => Tried(r)' = Tried(r) /\ Tried(r) \in Nat
      BY <2>1, TriedType DEF Tried
    <3>2. Tried(p)' = idx[p] /\ Tried(p) \in {idx[p], idx[p] - 1}
      BY <1>0, <2>1 DEF Tried
    <3> QED
      BY <1>0, <3>1, <3>2
  <2>3. \A r \in Tasks : pc'[r] \in Numbered => pc[r] \in Numbered
    BY <2>1 DEF Numbered, PublishSteps
  <2>4. IdInv'
    BY <1>a, <2>1, <2>2, <2>3, IdQuiet
  <2> QED
    BY <1>6, <2>4, CountSent
<1> QED
  BY <1>1, <1>2, <1>3, <1>4, <1>5, <1>6 DEF PublishStep

\* Every step of the bus and its clients preserves the invariants.
LEMMA NextDelivery ==
  BusInv /\ BusInv' /\ IdInv /\ SentInv /\ [Next]_vars => IdInv' /\ SentInv'
<1> SUFFICES ASSUME BusInv, BusInv', IdInv, SentInv, [Next]_vars PROVE IdInv' /\ SentInv'
  OBVIOUS
<1>0. pc \in [Tasks -> PCs] /\ evt \in [Tasks -> Event]
  BY DEF BusInv, TypeOK
<1>a. \A r \in Tasks : Tried(r) \in Nat
  BY TriedType
<1>1. CASE Bus_Subscribe
  <2>1. \A p \in Tasks : pc'[p] = "idle"
    BY <1>1 DEF Bus_Subscribe, BusInv, QuietStart
  <2>2. SentInv'
    BY <2>1 DEF SentInv, Offering
  <2> QED
    BY <1>1, <2>2, SubscribeId
<1>2. ASSUME NEW p \in Tasks, NEW site \in CallSites, NEW x \in Payloads,
             MakeEvent_Load(p, site, x) \/ UnstampedEvent(p, site, x)
      PROVE  IdInv' /\ SentInv'
  <2>1. /\ pc'[p] \notin Numbered
        /\ \A r \in Tasks : r # p => pc'[r] = pc[r] /\ evt'[r] = evt[r]
        /\ UNCHANGED <<booted, subscribers, s_nextEventId, queue, received, idx, accepted, result>>
    BY <1>0, <1>2 DEF MakeEvent_Load, UnstampedEvent, registryVars, Numbered, PublishSteps
  <2>2. \A r \in Tasks : r # p => Tried(r)' = Tried(r)
    BY <2>1 DEF Tried
  <2>3. \A q \in Queues : Delivered(q)' = Delivered(q)
    BY <2>1 DEF Delivered
  <2>4. Offering \cup {"send"} \subseteq Numbered
    BY DEF Offering, Numbered, PublishSteps
  <2>5. IdInv'
    BY <1>a, <2>1, <2>2, <2>3, IdQuiet
  <2>6. SentInv'
    BY <2>1, <2>3, <2>4, SentQuiet
  <2> QED
    BY <2>5, <2>6
<1>3. ASSUME NEW p \in Tasks, PublishStep(p) PROVE IdInv' /\ SentInv'
  BY <1>3, PublishDelivery
<1>4. ASSUME \/ \E q \in Queues : XQueueReceive(q)
             \/ Bus_GetTopicStats
             \/ UNCHANGED vars
      PROVE  IdInv' /\ SentInv'
  <2>1. UNCHANGED <<booted, subscribers, s_nextEventId, pc, evt, idx, accepted, result>>
    BY <1>4 DEF XQueueReceive, Bus_GetTopicStats, vars, registryVars, localVars
  <2>2. \A r \in Queues : Delivered(r)' = Delivered(r)
    <3>1. CASE \E q \in Queues : XQueueReceive(q)
      BY <3>1, ReceiveDelivers DEF BusInv
    <3>2. CASE Bus_GetTopicStats \/ UNCHANGED vars
      BY <3>2 DEF Bus_GetTopicStats, vars, Delivered
    <3> QED
      BY <1>4, <3>1, <3>2
  <2>3. \A r \in Tasks : Tried(r)' = Tried(r)
    BY <2>1 DEF Tried
  <2>4. IdInv'
    BY <1>a, <2>1, <2>2, <2>3, IdQuiet
  <2>5. SentInv'
    BY <2>1, <2>2, SentQuiet
  <2> QED
    BY <2>4, <2>5
<1> QED
  BY <1>1, <1>2, <1>3, <1>4 DEF Next, Quiescent

\* Ids and counts are invariants of the bus.
LEMMA DeliveryInvariance == Spec => [](BusInv /\ IdInv /\ SentInv)
<1>1. Init => BusInv /\ IdInv /\ SentInv
  BY InitInv, IdInit
<1>2. BusInv /\ IdInv /\ SentInv /\ [Next]_vars => (BusInv /\ IdInv /\ SentInv)'
  BY NextInv, NextDelivery
<1> QED
  BY <1>1, <1>2, PTL DEF Spec

\* A subscriber never sees one event twice, and an id that two subscribers see
\* is the same event: AllocateEventId hands out each id once, under s_dropLock,
\* and the loop of Bus_PublishWithCount reaches a queue once.
THEOREM IdsIdentifyEvents == Spec => []EventIdIdentifies
<1>1. IdInv => EventIdIdentifies
  BY DEF IdInv
<1> QED
  BY DeliveryInvariance, <1>1, PTL

\* *sentCount of Bus_PublishWithCount is the number of subscribers that have the
\* event, and the result is pdPASS exactly when all of them have.
THEOREM SentCounts == Spec => []SentCountExact
<1>1. BusInv /\ IdInv /\ SentInv => SentCountExact
  <2> SUFFICES ASSUME BusInv, SentInv, NEW p \in Tasks,
                      pc[p] = "send", idx[p] > Len(subscribers[evt[p].topic])
               PROVE  /\ accepted[p] = Cardinality({i \in DOMAIN subscribers[evt[p].topic] :
                           \E k \in DOMAIN Delivered(subscribers[evt[p].topic][i]) :
                             Delivered(subscribers[evt[p].topic][i])[k] = evt[p]})
                      /\ result[p] <=> accepted[p] = Len(subscribers[evt[p].topic])
    BY DEF SentCountExact
  <2>1. pc[p] \in Offering \cup {"send"}
    OBVIOUS
  <2>2. idx[p] - 1 = Len(subscribers[evt[p].topic])
    BY <2>1, LoopQueues
  <2>3. DOMAIN subscribers[evt[p].topic] = 1 .. idx[p] - 1
    BY <2>1, <2>2, LoopQueues
  <2> QED
    BY <2>1, <2>2, <2>3 DEF SentInv, Got, Holds
<1> QED
  BY DeliveryInvariance, <1>1, PTL

-----------------------------------------------------------------------------
(* Sequence numbers.                                                       *)

\* The call sites that number their events use each name from one task only.
\* publishSimple breaks this, and then StampedInOrder does not hold.  Nothing is
\* asked of the sites that leave the number at zero: the watchdog's is one.
OneTaskPerSource ==
  \A a, b \in CallSites :
    a.stamped /\ b.stamped /\ a.source = b.source => a.task = b.task

\* The task has begun an event that makeEvent numbers.
Stamped(p) == pc[p] # "idle" /\ evt[p].sequence # 0

\* A numbered event carries a name of its task, and the last number of the name.
NumberInv ==
  \A p \in Tasks :
    /\ Stamped(p) =>
         /\ \E site \in CallSites :
              site.task = p /\ site.stamped /\ site.source = evt[p].source
         /\ evt[p].sequence = IF pc[p] = "store"
                              THEN s_taskSequences[evt[p].source] + 1
                              ELSE s_taskSequences[evt[p].source]
    /\ pc[p] \in {"store", "reload"} => evt[p].sequence # 0

\* What has been delivered is numbered below what its source numbers next, and
\* below the event in progress unless it is that event.
OrderInv ==
  /\ \A q \in Queues : \A i \in DOMAIN Delivered(q) :
       Delivered(q)[i].sequence <= s_taskSequences[Delivered(q)[i].source]
  /\ \A p \in Tasks, q \in Queues : \A i \in DOMAIN Delivered(q) :
       Stamped(p) /\ Delivered(q)[i].source = evt[p].source =>
         \/ Delivered(q)[i].sequence < evt[p].sequence
         \/ pc[p] \in Numbered /\ Delivered(q)[i].eventId = evt[p].eventId

SequenceInv == NumberInv /\ OrderInv /\ StampedInOrder

\* Two tasks never have numbered events of one source in progress.
LEMMA StampedApart ==
  ASSUME OneTaskPerSource, NumberInv, NEW p \in Tasks, NEW r \in Tasks,
         Stamped(p), Stamped(r), evt[p].source = evt[r].source
  PROVE  p = r
BY DEF OneTaskPerSource, NumberInv

\* The counters start at zero.
LEMMA SequenceInit == Init => SequenceInv
<1> SUFFICES ASSUME Init PROVE SequenceInv
  OBVIOUS
<1>1. \A q \in Queues : Delivered(q) = <<>>
  BY DEF Init, Delivered
<1>2. NumberInv
  BY DEF Init, NumberInv, Stamped
<1>3. OrderInv /\ StampedInOrder
  BY <1>1 DEF Init, OrderInv, StampedInOrder
<1> QED
  BY <1>2, <1>3 DEF SequenceInv

\* A step that gives no queue an event and numbers none.
LEMMA SequenceQuiet ==
  ASSUME SequenceInv, UNCHANGED s_taskSequences,
         \A q \in Queues : Delivered(q)' = Delivered(q),
         \A r \in Tasks :
           \/ pc'[r] = "idle"
           \/ pc'[r] = pc[r] /\ evt'[r] = evt[r]
           \/ /\ evt'[r] = evt[r]
              /\ pc[r] \notin {"idle", "store", "reload"}
              /\ pc'[r] \notin {"idle", "store", "reload"}
              /\ pc[r] \in Numbered => pc'[r] \in Numbered
  PROVE  SequenceInv'
<1>1. ASSUME NEW r \in Tasks, Stamped(r)'
      PROVE  Stamped(r) /\ evt'[r] = evt[r] /\ (pc'[r] = "store" <=> pc[r] = "store")
             /\ (pc[r] \in Numbered => pc'[r] \in Numbered)
  BY <1>1 DEF Stamped
<1>2. NumberInv'
  <2> SUFFICES ASSUME NEW r \in Tasks
               PROVE  /\ Stamped(r)' =>
                           /\ \E site \in CallSites :
                                site.task = r /\ site.stamped /\ site.source = evt'[r].source
                           /\ evt'[r].sequence = IF pc'[r] = "store"
                                                 THEN s_taskSequences[evt'[r].source] + 1
                                                 ELSE s_taskSequences[evt'[r].source]
                      /\ pc'[r] \in {"store", "reload"} => evt'[r].sequence # 0
    BY DEF NumberInv
  <2>1. pc'[r] \in {"store", "reload"} => pc[r] = pc'[r] /\ evt'[r] = evt[r]
    OBVIOUS
  <2> QED
    BY <1>1, <2>1 DEF SequenceInv, NumberInv
<1>3. OrderInv'
  <2> SUFFICES ASSUME NEW r \in Tasks, Stamped(r)', NEW q \in Queues, NEW i \in DOMAIN Delivered(q),
                      Delivered(q)[i].source = evt'[r].source
               PROVE  \/ Delivered(q)[i].sequence < evt'[r].sequence
                      \/ pc'[r] \in Numbered /\ Delivered(q)[i].eventId = evt'[r].eventId
    BY DEF SequenceInv, OrderInv
  <2> QED
    BY <1>1 DEF SequenceInv, OrderInv
<1>4. StampedInOrder'
  BY DEF SequenceInv, StampedInOrder
<1> QED
  BY <1>2, <1>3, <1>4 DEF SequenceInv

\* makeEvent loads a counter that no numbered event of the name is ahead of.
LEMMA SequenceLoad ==
  ASSUME OneTaskPerSource, BusInv, BusInv', SequenceInv,
         NEW p \in Tasks, NEW site \in CallSites, NEW x \in Payloads,
         MakeEvent_Load(p, site, x) \/ UnstampedEvent(p, site, x)
  PROVE  SequenceInv'
<1>1. /\ \A q \in Queues : Delivered(q)' = Delivered(q)
      /\ UNCHANGED s_taskSequences
      /\ site.task = p /\ pc[p] = "idle"
      /\ pc'[p] \in {"store", "alloc"}
      /\ \A r \in Tasks : r # p => pc'[r] = pc[r] /\ evt'[r] = evt[r]
  BY ZenonT(60) DEF MakeEvent_Load, UnstampedEvent, Delivered, BusInv, TypeOK
<1>2. \/ /\ pc'[p] = "store" /\ site.stamped /\ site.source \in Sources
         /\ evt'[p].source = site.source
         /\ evt'[p].sequence = s_taskSequences[site.source] + 1
      \/ pc'[p] = "alloc" /\ evt'[p].sequence = 0
  <2>1. evt \in [Tasks -> Event] /\ pc \in [Tasks -> PCs] /\ site.source \in Sources
    BY BusAssumption DEF BusInv, TypeOK, CallSite
  <2> QED
    BY <2>1 DEF MakeEvent_Load, UnstampedEvent
<1>3. s_taskSequences \in [Sources -> Nat]
  BY DEF BusInv, TypeOK
<1>4. NumberInv'
  <2> SUFFICES ASSUME NEW r \in Tasks
               PROVE  /\ Stamped(r)' =>
                           /\ \E s \in CallSites :
                                s.task = r /\ s.stamped /\ s.source = evt'[r].source
                           /\ evt'[r].sequence = IF pc'[r] = "store"
                                                 THEN s_taskSequences[evt'[r].source] + 1
                                                 ELSE s_taskSequences[evt'[r].source]
                      /\ pc'[r] \in {"store", "reload"} => evt'[r].sequence # 0
    BY <1>1 DEF NumberInv
  <2>1. CASE r = p
    BY <1>1, <1>2, <1>3, <2>1 DEF Stamped
  <2>2. CASE r # p
    BY <1>1, <2>2 DEF SequenceInv, NumberInv, Stamped
  <2> QED
    BY <2>1, <2>2
<1>5. OrderInv'
  <2> SUFFICES ASSUME NEW r \in Tasks, Stamped(r)', NEW q \in Queues, NEW i \in DOMAIN Delivered(q),
                      Delivered(q)[i].source = evt'[r].source
               PROVE  \/ Delivered(q)[i].sequence < evt'[r].sequence
                      \/ pc'[r] \in Numbered /\ Delivered(q)[i].eventId = evt'[r].eventId
    BY <1>1 DEF SequenceInv, OrderInv
  <2>1. CASE r = p
    <3>1. /\ evt'[p].source = site.source /\ site.source \in Sources
          /\ evt'[p].sequence = s_taskSequences[site.source] + 1
      BY <1>2, <2>1 DEF Stamped
    <3>2. Delivered(q)[i].sequence \in Nat
      BY DeliveredType DEF BusInv, Event
    <3>3. Delivered(q)[i].sequence <= s_taskSequences[site.source]
      BY <2>1, <3>1 DEF SequenceInv, OrderInv
    <3> QED
      BY <1>3, <2>1, <3>1, <3>2, <3>3
  <2>2. CASE r # p
    BY <1>1, <2>2 DEF SequenceInv, OrderInv, Stamped
  <2> QED
    BY <2>1, <2>2
<1>6. StampedInOrder'
  BY <1>1 DEF SequenceInv, StampedInOrder
<1> QED
  BY <1>4, <1>5, <1>6 DEF SequenceInv

\* Nobody else numbers events of the name between the load and the reload.
LEMMA SequenceStore ==
  ASSUME OneTaskPerSource, BusInv, BusInv', SequenceInv, NEW p \in Tasks,
         MakeEvent_Store(p) \/ MakeEvent_Reload(p) \/ AllocateEventId(p)
  PROVE  SequenceInv'
<1> DEFINE s == evt[p].source
<1>1. /\ \A q \in Queues : Delivered(q)' = Delivered(q)
      /\ \A r \in Tasks : r # p => pc'[r] = pc[r] /\ evt'[r] = evt[r]
      /\ pc[p] \notin Numbered /\ pc[p] # "idle"
      /\ pc'[p] \notin {"idle", "store"}
  BY DEF MakeEvent_Store, MakeEvent_Reload, AllocateEventId, registryVars, localVars, Delivered,
         BusInv, TypeOK, Numbered, PublishSteps
<1>2. /\ evt \in [Tasks -> Event] /\ pc \in [Tasks -> PCs] /\ s_taskSequences \in [Sources -> Nat]
      /\ evt[p] \in Event /\ s \in Sources /\ evt[p].sequence \in Nat
  BY DEF BusInv, TypeOK, Event
<1>3. evt'[p].source = s /\ evt'[p].sequence = evt[p].sequence
  <2>1. CASE MakeEvent_Store(p) \/ AllocateEventId(p)
    BY <1>2, <2>1 DEF MakeEvent_Store, AllocateEventId, localVars, Event
  <2>2. CASE MakeEvent_Reload(p)
    <3>1. evt[p].sequence = s_taskSequences[s]
      BY <2>2 DEF MakeEvent_Reload, SequenceInv, NumberInv, Stamped
    <3> QED
      BY <1>2, <2>2, <3>1 DEF MakeEvent_Reload, Event
  <2> QED
    BY <2>1, <2>2
<1>4. /\ s_taskSequences' \in [Sources -> Nat]
      /\ \A u \in Sources : u # s => s_taskSequences'[u] = s_taskSequences[u]
      /\ s_taskSequences'[s] >= s_taskSequences[s]
      /\ evt[p].sequence # 0 => s_taskSequences'[s] = evt[p].sequence
      /\ evt[p].sequence = 0 => s_taskSequences' = s_taskSequences
  <2>1. CASE MakeEvent_Store(p)
    <3>1. evt[p].sequence = s_taskSequences[s] + 1
      BY <2>1 DEF MakeEvent_Store, SequenceInv, NumberInv, Stamped
    <3> QED
      BY <1>2, <2>1, <3>1 DEF MakeEvent_Store, BusInv, TypeOK
  <2>2. CASE MakeEvent_Reload(p) \/ AllocateEventId(p)
    <3>1. s_taskSequences' = s_taskSequences
      BY <2>2 DEF MakeEvent_Reload, AllocateEventId
    <3>2. evt[p].sequence # 0 => s_taskSequences[s] = evt[p].sequence
      BY <2>2 DEF MakeEvent_Reload, AllocateEventId, SequenceInv, NumberInv, Stamped
    <3> QED
      BY <1>2, <3>1, <3>2
  <2> QED
    BY <2>1, <2>2
<1>5. Stamped(p)' <=> Stamped(p)
  BY <1>1, <1>3 DEF Stamped
<1>6. ASSUME NEW r \in Tasks, r # p, Stamped(r)'
      PROVE  Stamped(r) /\ evt[r].source \in Sources /\ (evt[p].sequence = 0 \/ evt[r].source # s)
  <2>1. Stamped(r) /\ evt[r].source \in Sources
    BY <1>1, <1>2, <1>6 DEF Stamped, Event
  <2> QED
    BY <1>1, <1>6, <2>1, StampedApart DEF Stamped, SequenceInv
<1>7. NumberInv'
  <2> SUFFICES ASSUME NEW r \in Tasks
               PROVE  /\ Stamped(r)' =>
                           /\ \E site \in CallSites :
                                site.task = r /\ site.stamped /\ site.source = evt'[r].source
                           /\ evt'[r].sequence = IF pc'[r] = "store"
                                                 THEN s_taskSequences'[evt'[r].source] + 1
                                                 ELSE s_taskSequences'[evt'[r].source]
                      /\ pc'[r] \in {"store", "reload"} => evt'[r].sequence # 0
    BY DEF NumberInv
  <2>1. CASE r = p
    <3>1. Stamped(p)' =>
            /\ \E site \in CallSites : site.task = p /\ site.stamped /\ site.source = evt'[p].source
            /\ evt'[p].sequence = s_taskSequences'[evt'[p].source]
      BY <1>3, <1>4, <1>5 DEF SequenceInv, NumberInv, Stamped
    <3>2. pc'[p] = "reload" => evt'[p].sequence # 0
      <4>1. pc'[p] = "reload" => pc[p] = "store"
        BY <1>2 DEF MakeEvent_Store, MakeEvent_Reload, AllocateEventId
      <4> QED
        BY <1>3, <4>1 DEF SequenceInv, NumberInv
    <3> QED
      BY <1>1, <2>1, <3>1, <3>2
  <2>2. CASE r # p
    <3>1. Stamped(r)' => s_taskSequences'[evt[r].source] = s_taskSequences[evt[r].source]
      BY <1>4, <1>6, <2>2
    <3> QED
      BY <1>1, <1>6, <2>2, <3>1 DEF SequenceInv, NumberInv
  <2> QED
    BY <2>1, <2>2
<1>8. OrderInv'
  <2>1. ASSUME NEW q \in Queues, NEW i \in DOMAIN Delivered(q)
        PROVE  Delivered(q)[i].sequence <= s_taskSequences'[Delivered(q)[i].source]
    <3>1. /\ Delivered(q)[i].sequence \in Nat /\ Delivered(q)[i].source \in Sources
          /\ Delivered(q)[i].sequence <= s_taskSequences[Delivered(q)[i].source]
      BY DeliveredType DEF BusInv, Event, SequenceInv, OrderInv
    <3> QED
      BY <1>2, <1>4, <3>1
  <2>2. ASSUME NEW r \in Tasks, Stamped(r)', NEW q \in Queues, NEW i \in DOMAIN Delivered(q),
               Delivered(q)[i].source = evt'[r].source
        PROVE  \/ Delivered(q)[i].sequence < evt'[r].sequence
               \/ pc'[r] \in Numbered /\ Delivered(q)[i].eventId = evt'[r].eventId
    <3>1. CASE r = p
      BY <1>1, <1>3, <1>5, <2>2, <3>1 DEF SequenceInv, OrderInv
    <3>2. CASE r # p
      BY <1>1, <1>6, <2>2, <3>2 DEF SequenceInv, OrderInv
    <3> QED
      BY <3>1, <3>2
  <2> QED
    BY <1>1, <2>1, <2>2 DEF OrderInv
<1>9. StampedInOrder'
  BY <1>1 DEF SequenceInv, StampedInOrder
<1> QED
  BY <1>7, <1>8, <1>9 DEF SequenceInv

\* The loop sends each subscriber the newest event of its source.
LEMMA SequenceSend ==
  ASSUME OneTaskPerSource, BusInv, BusInv', IdInv, SequenceInv, NEW p \in Tasks, SendAccepted(p)
  PROVE  SequenceInv'
<1>0. PICK c \in Queues : c = Current(p)
  BY CurrentNotReached DEF SendAccepted
<1>1. /\ pc[p] = "send" /\ InLoop(p)
      /\ queue' = [queue EXCEPT ![c] = Append(queue[c], evt[p])]
      /\ pc' = [pc EXCEPT ![p] = "sent"]
      /\ UNCHANGED <<s_taskSequences, received, evt>>
  BY <1>0 DEF SendAccepted, localVars
<1>2. \A i \in DOMAIN Delivered(c) : Delivered(c)[i].eventId # evt[p].eventId
  BY <1>0, <1>1, CurrentNotReached
<1>3. pc \in [Tasks -> PCs] /\ evt[p] \in Event /\ s_taskSequences \in [Sources -> Nat]
  BY DEF BusInv, TypeOK
<1> DEFINE n == Len(Delivered(c)) + 1
<1>4. /\ \A r \in Queues : r # c => Delivered(r)' = Delivered(r)
      /\ DOMAIN Delivered(c)' = 1 .. n
      /\ \A i \in DOMAIN Delivered(c) : Delivered(c)'[i] = Delivered(c)[i]
      /\ Delivered(c)'[n] = evt[p]
  BY <1>1, <1>3, SendDelivers DEF BusInv
<1>5. n \in Nat \ {0} /\ DOMAIN Delivered(c) = 1 .. n - 1
  <2>1. Len(Delivered(c)) \in Nat /\ DOMAIN Delivered(c) = 1 .. Len(Delivered(c))
    BY DeliveredType DEF BusInv
  <2> QED
    BY <2>1
<1> HIDE DEF n
<1>6. \A q \in Queues : \A i \in DOMAIN Delivered(q)' :
        \/ i \in DOMAIN Delivered(q) /\ Delivered(q)'[i] = Delivered(q)[i]
        \/ q = c /\ i = n /\ Delivered(q)'[i] = evt[p]
  BY <1>4, <1>5
<1>7. \A r \in Tasks : /\ Stamped(r)' <=> Stamped(r)
                       /\ pc'[r] \in {"store", "reload"} => pc'[r] = pc[r]
                       /\ pc'[r] = "store" <=> pc[r] = "store"
                       /\ pc'[r] \in Numbered <=> pc[r] \in Numbered
  BY <1>1, <1>3 DEF Stamped, Numbered, PublishSteps
<1>8. pc[p] \in Numbered /\ (Stamped(p) <=> evt[p].sequence # 0)
  BY <1>1 DEF Numbered, PublishSteps, Stamped
<1>9. NumberInv'
  BY <1>1, <1>7 DEF SequenceInv, NumberInv
<1>10. evt[p].sequence \in Nat /\ evt[p].sequence <= s_taskSequences[evt[p].source]
  <2>1. evt[p].sequence \in Nat /\ evt[p].source \in Sources
    BY <1>3 DEF Event
  <2>2. evt[p].sequence # 0 => evt[p].sequence = s_taskSequences[evt[p].source]
    BY <1>1, <1>8 DEF SequenceInv, NumberInv
  <2> QED
    BY <1>3, <2>1, <2>2
<1>11. OrderInv'
  <2>1. ASSUME NEW q \in Queues, NEW i \in DOMAIN Delivered(q)'
        PROVE  Delivered(q)'[i].sequence <= s_taskSequences[Delivered(q)'[i].source]
    BY <1>6, <1>10 DEF SequenceInv, OrderInv
  <2>2. ASSUME NEW r \in Tasks, Stamped(r), NEW q \in Queues, NEW i \in DOMAIN Delivered(q)',
               Delivered(q)'[i].source = evt[r].source, Delivered(q)'[i].sequence # 0
        PROVE  \/ Delivered(q)'[i].sequence < evt[r].sequence
               \/ pc[r] \in Numbered /\ Delivered(q)'[i].eventId = evt[r].eventId
    <3>1. CASE i \in DOMAIN Delivered(q) /\ Delivered(q)'[i] = Delivered(q)[i]
      BY <2>2, <3>1 DEF SequenceInv, OrderInv
    <3>2. CASE q = c /\ i = n /\ Delivered(q)'[i] = evt[p]
      <4>1. r = p
        BY <1>8, <2>2, <3>2, StampedApart DEF SequenceInv
      <4> QED
        BY <1>8, <3>2, <4>1
    <3> QED
      BY <1>6, <3>1, <3>2
  <2>3. ASSUME NEW r \in Tasks, Stamped(r), NEW q \in Queues, NEW i \in DOMAIN Delivered(q)',
               Delivered(q)'[i].sequence = 0
        PROVE  Delivered(q)'[i].sequence < evt[r].sequence
    <3>1. evt[r].sequence \in Nat \ {0}
      BY <2>3 DEF Stamped, BusInv, TypeOK, Event
    <3> QED
      BY <2>3, <3>1
  <2> QED
    BY <1>1, <1>7, <2>1, <2>2, <2>3 DEF OrderInv
<1>12. StampedInOrder'
  <2> SUFFICES ASSUME NEW q \in Queues, NEW i \in DOMAIN Delivered(q)', NEW j \in DOMAIN Delivered(q)',
                      i < j, Delivered(q)'[i].source = Delivered(q)'[j].source,
                      Delivered(q)'[i].sequence # 0, Delivered(q)'[j].sequence # 0
               PROVE  Delivered(q)'[i].sequence < Delivered(q)'[j].sequence
    BY DEF StampedInOrder
  <2>1. CASE j \in DOMAIN Delivered(q) /\ Delivered(q)'[j] = Delivered(q)[j]
    <3>1. i \in DOMAIN Delivered(q) /\ Delivered(q)'[i] = Delivered(q)[i]
      BY <1>5, <1>6, <2>1
    <3> QED
      BY <2>1, <3>1 DEF SequenceInv, StampedInOrder
  <2>2. CASE q = c /\ j = n /\ Delivered(q)'[j] = evt[p]
    <3>1. i \in DOMAIN Delivered(c) /\ Delivered(q)'[i] = Delivered(c)[i]
      BY <1>4, <1>5, <1>6, <2>2
    <3>2. Stamped(p)
      BY <1>8, <2>2
    <3> QED
      BY <1>2, <2>2, <3>1, <3>2 DEF SequenceInv, OrderInv
  <2> QED
    BY <1>6, <2>1, <2>2
<1> QED
  BY <1>9, <1>11, <1>12 DEF SequenceInv

\* Every step preserves the order of the sources.
LEMMA SequenceNext ==
  ASSUME OneTaskPerSource
  PROVE  BusInv /\ BusInv' /\ IdInv /\ SequenceInv /\ [Next]_vars => SequenceInv'
<1> SUFFICES ASSUME BusInv, BusInv', IdInv, SequenceInv, [Next]_vars PROVE SequenceInv'
  OBVIOUS
<1>0. pc \in [Tasks -> PCs]
  BY DEF BusInv, TypeOK
<1>1. ASSUME NEW p \in Tasks, NEW site \in CallSites, NEW x \in Payloads,
             MakeEvent_Load(p, site, x) \/ UnstampedEvent(p, site, x)
      PROVE  SequenceInv'
  BY <1>1, SequenceLoad
<1>2. ASSUME NEW p \in Tasks, PublishStep(p) PROVE SequenceInv'
  <2>1. CASE MakeEvent_Store(p) \/ MakeEvent_Reload(p) \/ AllocateEventId(p)
    BY <2>1, SequenceStore
  <2>2. CASE SendAccepted(p)
    BY <2>2, SequenceSend
  <2>3. CASE \/ Publish_TakeLock(p) \/ Publish_Begin(p) \/ CountDelivered(p) \/ SendRejected(p)
             \/ IncrementDropCount(p) \/ CountDropped(p) \/ Publish_Return(p)
    <3>1. /\ UNCHANGED <<s_taskSequences, queue, received, evt>>
          /\ \A r \in Tasks : r # p => pc'[r] = pc[r]
          /\ pc[p] \in Numbered /\ pc'[p] \in Numbered \cup {"idle"}
      BY <1>0, <2>3
         DEF Publish_TakeLock, Publish_Begin, CountDelivered, SendRejected, IncrementDropCount,
             CountDropped, Publish_Return, localVars, Numbered, PublishSteps
    <3>2. \A q \in Queues : Delivered(q)' = Delivered(q)
      BY <3>1 DEF Delivered
    <3>3. Numbered \cap {"idle", "store", "reload"} = {}
      BY DEF Numbered, PublishSteps
    <3>4. \/ pc'[p] = "idle"
          \/ /\ pc[p] \notin {"idle", "store", "reload"}
             /\ pc'[p] \notin {"idle", "store", "reload"}
             /\ pc'[p] \in Numbered
      BY <3>1, <3>3
    <3> QED
      BY <3>1, <3>2, <3>4, SequenceQuiet
  <2> QED
    BY <1>2, <2>1, <2>2, <2>3 DEF PublishStep
<1>3. ASSUME \/ Bus_Subscribe
             \/ \E q \in Queues : XQueueReceive(q)
             \/ Bus_GetTopicStats
             \/ UNCHANGED vars
      PROVE  SequenceInv'
  <2>1. UNCHANGED <<s_taskSequences, pc, evt>>
    BY <1>3 DEF Bus_Subscribe, XQueueReceive, Bus_GetTopicStats, vars, localVars
  <2>2. \A r \in Queues : Delivered(r)' = Delivered(r)
    <3>1. CASE \E q \in Queues : XQueueReceive(q)
      BY <3>1, ReceiveDelivers DEF BusInv
    <3>2. CASE Bus_Subscribe \/ Bus_GetTopicStats \/ UNCHANGED vars
      BY <3>2 DEF Bus_Subscribe, Bus_GetTopicStats, vars, Delivered
    <3> QED
      BY <1>3, <3>1, <3>2
  <2> QED
    BY <2>1, <2>2, SequenceQuiet
<1> QED
  BY <1>1, <1>2, <1>3 DEF Next, Quiescent

\* When the call sites that use makeEvent give each name to one task, a subscriber
\* sees the numbered events of a name in order, although ++s_taskSequences[source]
\* has no lock and a task's events travel over several topics and may be dropped.
\* The theorem is silent on the events numbered 0; NamesInOrder is not.
THEOREM StampedSourcesInOrder ==
  ASSUME OneTaskPerSource
  PROVE  Spec => []StampedInOrder
<1>1. Init => SequenceInv
  BY SequenceInit
<1>2. BusInv /\ BusInv' /\ IdInv /\ SequenceInv /\ [Next]_vars => SequenceInv'
  BY SequenceNext
<1>3. SequenceInv => StampedInOrder
  BY DEF SequenceInv
<1> QED
  BY <1>1, <1>2, <1>3, DeliveryInvariance, PTL DEF Spec

\* Every call site builds its event with makeEvent.  The watchdog's does not.
AllStamped == \A site \in CallSites : site.stamped

\* No event in progress or delivered has the number 0.
NonzeroInv ==
  /\ \A p \in Tasks : pc[p] # "idle" => evt[p].sequence # 0
  /\ \A q \in Queues : \A i \in DOMAIN Delivered(q) : Delivered(q)[i].sequence # 0

\* Nothing is in progress at first.
LEMMA NonzeroInit == Init => NonzeroInv
<1> SUFFICES ASSUME Init PROVE NonzeroInv
  OBVIOUS
<1>1. \A q \in Queues : Delivered(q) = <<>>
  BY DEF Init, Delivered
<1> QED
  BY <1>1 DEF Init, NonzeroInv

\* makeEvent numbers from 1, the reload finds the number stored, and what is sent
\* is the event in progress.
LEMMA NonzeroNext ==
  ASSUME AllStamped
  PROVE  BusInv /\ SequenceInv /\ NonzeroInv /\ [Next]_vars => NonzeroInv'
<1> SUFFICES ASSUME BusInv, SequenceInv, NonzeroInv, [Next]_vars PROVE NonzeroInv'
  OBVIOUS
<1>0. /\ pc \in [Tasks -> PCs] /\ evt \in [Tasks -> Event]
      /\ s_taskSequences \in [Sources -> Nat]
  BY DEF BusInv, TypeOK
<1>1. ASSUME UNCHANGED <<queue, received>>,
             \A r \in Tasks : pc'[r] # "idle" => evt'[r].sequence # 0
      PROVE  NonzeroInv'
  <2>1. \A q \in Queues : Delivered(q)' = Delivered(q)
    BY <1>1 DEF Delivered
  <2> QED
    BY <1>1, <2>1 DEF NonzeroInv
<1>2. ASSUME NEW p \in Tasks, NEW site \in CallSites, NEW x \in Payloads,
             MakeEvent_Load(p, site, x) \/ UnstampedEvent(p, site, x)
      PROVE  NonzeroInv'
  <2>1. MakeEvent_Load(p, site, x)
    BY <1>2 DEF AllStamped, UnstampedEvent
  <2>2. site.source \in Sources
    BY BusAssumption DEF CallSite
  <2>3. /\ UNCHANGED <<queue, received>>
        /\ evt'[p].sequence = s_taskSequences[site.source] + 1
        /\ \A r \in Tasks : r # p => pc'[r] = pc[r] /\ evt'[r] = evt[r]
    BY <1>0, <2>1 DEF MakeEvent_Load
  <2>4. evt'[p].sequence # 0
    BY <1>0, <2>2, <2>3
  <2> QED
    BY <1>1, <2>3, <2>4 DEF NonzeroInv
<1>3. ASSUME NEW p \in Tasks, PublishStep(p) PROVE NonzeroInv'
  <2>1. CASE MakeEvent_Reload(p)
    <3>1. Stamped(p) /\ pc[p] = "reload"
      BY <2>1 DEF MakeEvent_Reload, NonzeroInv, Stamped
    <3>2. evt[p].sequence = s_taskSequences[evt[p].source]
      BY <3>1 DEF SequenceInv, NumberInv
    <3>3. /\ UNCHANGED <<queue, received>>
          /\ evt'[p].sequence = s_taskSequences[evt[p].source]
          /\ \A r \in Tasks : r # p => pc'[r] = pc[r] /\ evt'[r] = evt[r]
      BY <1>0, <2>1 DEF MakeEvent_Reload, Event
    <3> QED
      BY <1>1, <3>1, <3>2, <3>3 DEF NonzeroInv, Stamped
  <2>2. CASE AllocateEventId(p)
    <3>1. /\ UNCHANGED <<queue, received>> /\ pc[p] # "idle"
          /\ evt'[p].sequence = evt[p].sequence
          /\ \A r \in Tasks : r # p => pc'[r] = pc[r] /\ evt'[r] = evt[r]
      BY <1>0, <2>2 DEF AllocateEventId, Event
    <3> QED
      BY <1>1, <3>1 DEF NonzeroInv
  <2>3. CASE SendAccepted(p)
    <3>0. PICK c \in Queues : c = Current(p)
      BY <2>3, CurrentType DEF SendAccepted, BusInv, LoopBounds
    <3>1. /\ pc[p] = "send" /\ pc' = [pc EXCEPT ![p] = "sent"]
          /\ queue' = [queue EXCEPT ![c] = Append(queue[c], evt[p])]
          /\ UNCHANGED <<received, evt>>
      BY <2>3, <3>0 DEF SendAccepted, localVars
    <3>2. evt[p] \in Event /\ evt[p].sequence # 0
      BY <1>0, <3>1 DEF NonzeroInv
    <3>3. /\ \A r \in Queues : r # c => Delivered(r)' = Delivered(r)
          /\ DOMAIN Delivered(c)' = 1 .. Len(Delivered(c)) + 1
          /\ \A i \in DOMAIN Delivered(c) : Delivered(c)'[i] = Delivered(c)[i]
          /\ Delivered(c)'[Len(Delivered(c)) + 1] = evt[p]
      BY <3>1, <3>2, SendDelivers DEF BusInv
    <3>4. Len(Delivered(c)) \in Nat /\ DOMAIN Delivered(c) = 1 .. Len(Delivered(c))
      BY DeliveredType DEF BusInv
    <3>5. \A q \in Queues : \A i \in DOMAIN Delivered(q)' : Delivered(q)'[i].sequence # 0
      <4> SUFFICES ASSUME NEW q \in Queues, NEW i \in DOMAIN Delivered(q)'
                   PROVE  Delivered(q)'[i].sequence # 0
        OBVIOUS
      <4>1. CASE q # c
        BY <3>3, <4>1 DEF NonzeroInv
      <4>2. CASE q = c
        <5>1. i \in DOMAIN Delivered(c) \/ i = Len(Delivered(c)) + 1
          BY <3>3, <3>4, <4>2
        <5> QED
          BY <3>2, <3>3, <4>2, <5>1 DEF NonzeroInv
      <4> QED
        BY <4>1, <4>2
    <3>6. \A r \in Tasks : pc'[r] # "idle" => evt'[r].sequence # 0
      BY <1>0, <3>1 DEF NonzeroInv
    <3> QED
      BY <3>5, <3>6 DEF NonzeroInv
  <2>4. CASE \/ MakeEvent_Store(p) \/ Publish_TakeLock(p) \/ Publish_Begin(p)
             \/ CountDelivered(p) \/ SendRejected(p) \/ IncrementDropCount(p)
             \/ CountDropped(p) \/ Publish_Return(p)
    <3>1. /\ UNCHANGED <<queue, received, evt>>
          /\ pc[p] # "idle"
          /\ \A r \in Tasks : r # p => pc'[r] = pc[r]
      BY <1>0, <2>4
         DEF MakeEvent_Store, Publish_TakeLock, Publish_Begin, CountDelivered, SendRejected,
             IncrementDropCount, CountDropped, Publish_Return, localVars
    <3> QED
      BY <1>1, <3>1 DEF NonzeroInv
  <2> QED
    BY <1>3, <2>1, <2>2, <2>3, <2>4 DEF PublishStep
<1>4. ASSUME \/ Bus_Subscribe
             \/ \E q \in Queues : XQueueReceive(q)
             \/ Bus_GetTopicStats
             \/ UNCHANGED vars
      PROVE  NonzeroInv'
  <2>1. UNCHANGED <<pc, evt>>
    BY <1>4 DEF Bus_Subscribe, XQueueReceive, Bus_GetTopicStats, vars, localVars
  <2>2. \A r \in Queues : Delivered(r)' = Delivered(r)
    <3>1. CASE \E q \in Queues : XQueueReceive(q)
      BY <3>1, ReceiveDelivers DEF BusInv
    <3>2. CASE Bus_Subscribe \/ Bus_GetTopicStats \/ UNCHANGED vars
      BY <3>2 DEF Bus_Subscribe, Bus_GetTopicStats, vars, Delivered
    <3> QED
      BY <1>4, <3>1, <3>2
  <2> QED
    BY <2>1, <2>2 DEF NonzeroInv
<1> QED
  BY <1>2, <1>3, <1>4 DEF Next, Quiescent

\* When every publisher builds its events with makeEvent, and each name belongs to
\* one task, a subscriber sees all the events of a name with increasing numbers:
\* with StampedSourcesInOrder, the two ways in which the application departs from
\* event_bus.h's "publisher-local sequence" are the only two there are.
THEOREM NamesInOrder ==
  ASSUME OneTaskPerSource, AllStamped
  PROVE  Spec => []SourceFifo
<1>1. Init => SequenceInv /\ NonzeroInv
  BY SequenceInit, NonzeroInit
<1>2. BusInv /\ BusInv' /\ IdInv /\ SequenceInv /\ [Next]_vars => SequenceInv'
  BY SequenceNext
<1>3. BusInv /\ SequenceInv /\ NonzeroInv /\ [Next]_vars => NonzeroInv'
  BY NonzeroNext
<1>4. SequenceInv /\ NonzeroInv => SourceFifo
  BY DEF SequenceInv, NonzeroInv, StampedInOrder, SourceFifo
<1> QED
  BY <1>1, <1>2, <1>3, <1>4, DeliveryInvariance, PTL DEF Spec

-----------------------------------------------------------------------------
(* The counters of drops and deliveries.                                   *)

\* One pair for each unit of the topics' counts f: its cardinality is their sum.
Slots(f) == UNION {{t} \X (1 .. f[t]) : t \in Topics}

\* A count that grows by k adds k to the sum.
LEMMA AddSlots ==
  ASSUME NEW f \in [Topics -> Nat], NEW g \in [Topics -> Nat], NEW t \in Topics, NEW k \in Nat,
         g[t] = f[t] + k, \A u \in Topics : u # t => g[u] = f[u],
         IsFiniteSet(Slots(f))
  PROVE  IsFiniteSet(Slots(g)) /\ Cardinality(Slots(g)) = Cardinality(Slots(f)) + k
<1> DEFINE new == {t} \X (f[t] + 1 .. f[t] + k)
<1>1. f[t] \in Nat /\ g[t] \in Nat
  OBVIOUS
<1>2. 1 .. g[t] = (1 .. f[t]) \cup (f[t] + 1 .. f[t] + k)
  BY <1>1
<1>3. Slots(g) = Slots(f) \cup new
  <2>1. ASSUME NEW y \in Slots(g) PROVE y \in Slots(f) \cup new
    <3>1. PICK u \in Topics : y \in {u} \X (1 .. g[u])
      BY <2>1 DEF Slots
    <3> QED
      BY <1>2, <3>1 DEF Slots
  <2>2. ASSUME NEW y \in Slots(f) PROVE y \in Slots(g)
    <3>1. PICK u \in Topics : y \in {u} \X (1 .. f[u])
      BY <2>2 DEF Slots
    <3> QED
      BY <1>2, <3>1 DEF Slots
  <2>3. new \subseteq Slots(g)
    BY <1>2 DEF Slots
  <2> QED
    BY <2>1, <2>2, <2>3
<1>4. Slots(f) \cap new = {}
  <2> SUFFICES ASSUME NEW y \in Slots(f), y \in new PROVE FALSE
    OBVIOUS
  <2>1. PICK u \in Topics : y \in {u} \X (1 .. f[u])
    BY DEF Slots
  <2>2. y[1] = t /\ y[1] = u /\ y[2] \in 1 .. f[t] /\ y[2] \in f[t] + 1 .. f[t] + k
    BY <2>1
  <2> QED
    BY <1>1, <2>2
<1>5. IsFiniteSet(new) /\ Cardinality(new) = k
  <2>1. IsFiniteSet({t}) /\ Cardinality({t}) = 1
    BY FS_Singleton
  <2> DEFINE lo == f[t] + 1
             hi == f[t] + k
  <2>2. lo \in Int /\ hi \in Int /\ (lo > hi <=> k = 0) /\ hi - lo + 1 = k
    BY <1>1
  <2> HIDE DEF lo, hi
  <2>3. IsFiniteSet(lo .. hi) /\ Cardinality(lo .. hi) = IF lo > hi THEN 0 ELSE hi - lo + 1
    BY <2>2, FS_Interval
  <2>4. IsFiniteSet(lo .. hi) /\ Cardinality(lo .. hi) = k
    BY <2>2, <2>3
  <2>5. IsFiniteSet({t} \X (lo .. hi)) /\ Cardinality({t} \X (lo .. hi)) = 1 * k
    BY <2>1, <2>4, FS_Product, ZenonT(60)
  <2> QED
    BY <2>5 DEF lo, hi
<1> HIDE DEF new
<1>6. Cardinality(Slots(f)) \in Nat
  BY FS_CardinalityType
<1>7. Cardinality(Slots(f) \cap new) = 0
  BY <1>4, FS_EmptySet
<1>8. /\ IsFiniteSet(Slots(f) \cup new)
      /\ Cardinality(Slots(f) \cup new)
           = Cardinality(Slots(f)) + Cardinality(new) - Cardinality(Slots(f) \cap new)
  BY <1>5, FS_Union
<1> QED
  BY <1>3, <1>5, <1>6, <1>7, <1>8

\* A send adds one to the deliveries of its topic.
LEMMA SendCounts ==
  ASSUME TypeOK, NEW c \in Queues, NEW e \in Event,
         queue' = [queue EXCEPT ![c] = Append(queue[c], e)], received' = received,
         NEW t \in Topics, IsFiniteSet(Deliveries(t))
  PROVE  /\ IsFiniteSet(Deliveries(t)')
         /\ Cardinality(Deliveries(t)') =
              IF e.topic = t THEN Cardinality(Deliveries(t)) + 1 ELSE Cardinality(Deliveries(t))
<1> DEFINE n == Len(Delivered(c)) + 1
<1>1. /\ \A r \in Queues : r # c => Delivered(r)' = Delivered(r)
      /\ DOMAIN Delivered(c)' = 1 .. n
      /\ \A i \in DOMAIN Delivered(c) : Delivered(c)'[i] = Delivered(c)[i]
      /\ Delivered(c)'[n] = e
  BY SendDelivers
<1>2. n \in Nat \ {0} /\ DOMAIN Delivered(c) = 1 .. n - 1
  <2>1. Len(Delivered(c)) \in Nat /\ DOMAIN Delivered(c) = 1 .. Len(Delivered(c))
    BY DeliveredType
  <2> QED
    BY <2>1
<1> HIDE DEF n
<1>3. DOMAIN Delivered(c)' = DOMAIN Delivered(c) \cup {n} /\ n \notin DOMAIN Delivered(c)
  BY <1>1, <1>2
<1> DEFINE P(q) == {i \in DOMAIN Delivered(q) : Delivered(q)[i].topic = t}
           N(q) == {i \in DOMAIN Delivered(q)' : Delivered(q)'[i].topic = t}
<1>4. /\ \A q \in Queues : q # c => N(q) = P(q)
      /\ N(c) = IF e.topic = t THEN P(c) \cup {n} ELSE P(c)
      /\ n \notin P(c)
  BY <1>1, <1>3
<1>5. /\ Deliveries(t) = UNION {{q} \X P(q) : q \in Queues}
      /\ Deliveries(t)' = UNION {{q} \X N(q) : q \in Queues}
  BY DEF Deliveries
<1> HIDE DEF P, N
<1>6. CASE e.topic # t
  <2>1. Deliveries(t)' = Deliveries(t)
    BY <1>4, <1>5, <1>6
  <2> QED
    BY <1>6, <2>1
<1>7. CASE e.topic = t
  <2>1. Deliveries(t)' = Deliveries(t) \cup {<<c, n>>}
    <3>1. ASSUME NEW y \in Deliveries(t)' PROVE y \in Deliveries(t) \cup {<<c, n>>}
      <4>1. PICK q \in Queues : y \in {q} \X N(q)
        BY <1>5, <3>1
      <4>2. CASE q # c
        BY <1>4, <1>5, <4>1, <4>2
      <4>3. CASE q = c
        <5>1. y \in {c} \X P(c) \/ y = <<c, n>>
          BY <1>4, <1>7, <4>1, <4>3
        <5> QED
          BY <1>5, <5>1
      <4> QED
        BY <4>2, <4>3
    <3>2. ASSUME NEW y \in Deliveries(t) PROVE y \in Deliveries(t)'
      <4>1. PICK q \in Queues : y \in {q} \X P(q)
        BY <1>5, <3>2
      <4>2. y \in {q} \X N(q)
        BY <1>4, <4>1
      <4> QED
        BY <1>5, <4>2
    <3>3. <<c, n>> \in Deliveries(t)'
      <4>1. <<c, n>> \in {c} \X N(c)
        BY <1>4, <1>7
      <4> QED
        BY <1>5, <4>1
    <3> QED
      BY <3>1, <3>2, <3>3
  <2>2. <<c, n>> \notin Deliveries(t)
    <3> SUFFICES ASSUME <<c, n>> \in Deliveries(t) PROVE FALSE
      OBVIOUS
    <3>1. PICK q \in Queues : <<c, n>> \in {q} \X P(q)
      BY <1>5
    <3> QED
      BY <1>4, <3>1
  <2> QED
    BY <1>7, <2>1, <2>2, FS_AddElement, ZenonT(60)
<1> QED
  BY <1>6, <1>7

\* The publishers between the two counts of a drop, and those on topic t between
\* a send and its count.
Dropping == {p \in Tasks : pc[p] = "dropped"}
Sending(t) == {p \in Tasks : pc[p] = "sent" /\ evt[p].topic = t}

DropsOf == [t \in Topics |-> stats[t].dropped]

CountInv ==
  /\ IsFiniteSet(Dropping) /\ IsFiniteSet(Slots(DropsOf))
  /\ s_dropCount = Cardinality(Slots(DropsOf)) + Cardinality(Dropping)
  /\ \A t \in Topics :
       /\ IsFiniteSet(Sending(t)) /\ IsFiniteSet(Deliveries(t))
       /\ stats[t].delivered + Cardinality(Sending(t)) = Cardinality(Deliveries(t))

\* Nothing has been counted.
LEMMA CountInit == Init => CountInv
<1> SUFFICES ASSUME Init PROVE CountInv
  OBVIOUS
<1>1. Dropping = {} /\ \A t \in Topics : Sending(t) = {}
  BY DEF Init, Dropping, Sending
<1>2. Slots(DropsOf) = {}
  BY DEF Init, Slots, DropsOf, ZeroStats
<1>3. \A t \in Topics : Deliveries(t) = {}
  BY DEF Init, Deliveries, Delivered
<1>4. s_dropCount = 0 /\ \A t \in Topics : stats[t].delivered = 0
  BY DEF Init, ZeroStats
<1> QED
  BY <1>1, <1>2, <1>3, <1>4, FS_EmptySet DEF CountInv

\* A step that neither sends nor counts.
LEMMA CountQuiet ==
  ASSUME CountInv, UNCHANGED s_dropCount, Dropping' = Dropping,
         \A q \in Queues : Delivered(q)' = Delivered(q),
         \A t \in Topics : /\ Sending(t)' = Sending(t)
                           /\ stats'[t].delivered = stats[t].delivered
                           /\ stats'[t].dropped = stats[t].dropped
  PROVE  CountInv'
<1>1. Slots(DropsOf)' = Slots(DropsOf)
  BY DEF Slots, DropsOf
<1>2. \A t \in Topics : Deliveries(t)' = Deliveries(t)
  BY DEF Deliveries
<1> QED
  BY <1>1, <1>2 DEF CountInv

\* SendAccepted: one more event in a queue, not yet counted.
LEMMA SendCount ==
  ASSUME BusInv, BusInv', CountInv, NEW p \in Tasks, SendAccepted(p)
  PROVE  CountInv'
<1>0. PICK c \in Queues : c = Current(p)
  BY CurrentType DEF SendAccepted, BusInv, LoopBounds
<1>1. /\ pc[p] = "send"
      /\ queue' = [queue EXCEPT ![c] = Append(queue[c], evt[p])]
      /\ pc' = [pc EXCEPT ![p] = "sent"]
      /\ UNCHANGED <<s_dropCount, stats, received, evt>>
  BY <1>0 DEF SendAccepted, localVars
<1>2. pc \in [Tasks -> PCs] /\ evt[p] \in Event
  BY DEF BusInv, TypeOK
<1>3. Dropping' = Dropping /\ DropsOf' = DropsOf
  BY <1>1, <1>2 DEF Dropping, DropsOf
<1>4. ASSUME NEW t \in Topics
      PROVE  /\ IsFiniteSet(Sending(t)') /\ IsFiniteSet(Deliveries(t)')
             /\ stats'[t].delivered + Cardinality(Sending(t)') = Cardinality(Deliveries(t)')
  <2>1. /\ IsFiniteSet(Sending(t)) /\ IsFiniteSet(Deliveries(t))
        /\ stats[t].delivered + Cardinality(Sending(t)) = Cardinality(Deliveries(t))
    BY DEF CountInv
  <2>2. /\ Cardinality(Sending(t)) \in Nat /\ stats[t].delivered \in Nat
    BY <2>1, FS_CardinalityType DEF BusInv, TypeOK, BusTopicStats
  <2>3. /\ IsFiniteSet(Deliveries(t)')
        /\ Cardinality(Deliveries(t)') =
             IF evt[p].topic = t THEN Cardinality(Deliveries(t)) + 1 ELSE Cardinality(Deliveries(t))
    BY <1>1, <1>2, <2>1, SendCounts DEF BusInv
  <2>4. CASE evt[p].topic = t
    <3>1. Sending(t)' = Sending(t) \cup {p} /\ p \notin Sending(t)
      BY <1>1, <1>2, <2>4 DEF Sending
    <3>2. IsFiniteSet(Sending(t)') /\ Cardinality(Sending(t)') = Cardinality(Sending(t)) + 1
      BY <2>1, <3>1, FS_AddElement
    <3> QED
      BY <1>1, <2>1, <2>2, <2>3, <2>4, <3>2
  <2>5. CASE evt[p].topic # t
    <3>1. Sending(t)' = Sending(t)
      BY <1>1, <1>2, <2>5 DEF Sending
    <3> QED
      BY <1>1, <2>1, <2>3, <2>5, <3>1
  <2> QED
    BY <2>4, <2>5
<1> QED
  BY <1>1, <1>3, <1>4 DEF CountInv, Slots

\* CountDelivered: the event in the queue is counted.
LEMMA DeliveredCount ==
  ASSUME BusInv, BusInv', CountInv, NEW p \in Tasks, CountDelivered(p)
  PROVE  CountInv'
<1>0. PICK t \in Topics : t = evt[p].topic
  BY DEF BusInv, TypeOK, Event
<1>1. /\ pc[p] = "sent"
      /\ pc' = [pc EXCEPT ![p] = "send"]
      /\ stats' = [stats EXCEPT ![t] = RaiseDepth(IncDelivered(stats[t]), Len(queue[Current(p)]))]
      /\ UNCHANGED <<s_dropCount, queue, received, evt>>
  BY <1>0 DEF CountDelivered
<1>2. /\ pc \in [Tasks -> PCs] /\ stats \in [Topics -> BusTopicStats]
      /\ stats[t] \in BusTopicStats
  BY DEF BusInv, TypeOK
<1>3. /\ \A u \in Topics : u # t => stats'[u] = stats[u]
      /\ stats'[t].delivered = stats[t].delivered + 1
      /\ stats'[t].dropped = stats[t].dropped
  <2>1. Len(queue[Current(p)]) \in Nat
    <3>1. Current(p) \in Queues
      BY <1>1, CurrentType DEF BusInv, LoopBounds, InLoop, Offering
    <3> QED
      BY <3>1 DEF BusInv, TypeOK
  <2>2. IncDelivered(stats[t]) \in BusTopicStats
    BY <1>2, <2>1, StatsUpdates
  <2>3. stats'[t] = RaiseDepth(IncDelivered(stats[t]), Len(queue[Current(p)]))
    BY <1>1, <1>2
  <2>4. /\ stats'[t].delivered = IncDelivered(stats[t]).delivered
        /\ stats'[t].dropped = IncDelivered(stats[t]).dropped
    BY <2>1, <2>2, <2>3, StatsUpdates
  <2>5. /\ IncDelivered(stats[t]).delivered = stats[t].delivered + 1
        /\ IncDelivered(stats[t]).dropped = stats[t].dropped
    BY <1>2, <2>1, StatsUpdates
  <2>6. \A u \in Topics : u # t => stats'[u] = stats[u]
    BY <1>1, <1>2
  <2> QED
    BY <2>4, <2>5, <2>6
<1>4. Dropping' = Dropping /\ DropsOf' = DropsOf
  BY <1>1, <1>2, <1>3 DEF Dropping, DropsOf
<1>5. \A u \in Topics : Deliveries(u)' = Deliveries(u)
  BY <1>1 DEF Deliveries, Delivered
<1>6. ASSUME NEW u \in Topics
      PROVE  /\ IsFiniteSet(Sending(u)')
             /\ stats'[u].delivered + Cardinality(Sending(u)') = Cardinality(Deliveries(u))
  <2>1. /\ IsFiniteSet(Sending(u))
        /\ stats[u].delivered + Cardinality(Sending(u)) = Cardinality(Deliveries(u))
    BY DEF CountInv
  <2>2. CASE u = t
    <3>1. Sending(t)' = Sending(t) \ {p} /\ p \in Sending(t)
      BY <1>0, <1>1, <1>2 DEF Sending
    <3>2. IsFiniteSet(Sending(t)') /\ Cardinality(Sending(t)') = Cardinality(Sending(t)) - 1
      BY <2>1, <2>2, <3>1, FS_RemoveElement
    <3>3. Cardinality(Sending(t)) \in Nat /\ stats[t].delivered \in Nat
      BY <1>2, <2>1, <2>2, FS_CardinalityType DEF BusTopicStats
    <3> QED
      BY <1>3, <2>1, <2>2, <3>2, <3>3
  <2>3. CASE u # t
    <3>1. Sending(u)' = Sending(u)
      BY <1>0, <1>1, <1>2, <2>3 DEF Sending
    <3> QED
      BY <1>3, <2>1, <2>3, <3>1
  <2> QED
    BY <2>2, <2>3
<1> QED
  BY <1>1, <1>4, <1>5, <1>6 DEF CountInv, Slots

\* IncrementDropCount and CountDropped: a drop is counted for the bus, and then
\* for its topic.
LEMMA DroppedCount ==
  ASSUME BusInv, BusInv', CountInv, NEW p \in Tasks, IncrementDropCount(p) \/ CountDropped(p)
  PROVE  CountInv'
<1>0. PICK t \in Topics : t = evt[p].topic
  BY DEF BusInv, TypeOK, Event
<1>1. /\ UNCHANGED <<queue, received, evt>>
      /\ pc \in [Tasks -> PCs] /\ stats \in [Topics -> BusTopicStats]
      /\ stats[t] \in BusTopicStats /\ s_dropCount \in Nat
  BY DEF IncrementDropCount, CountDropped, localVars, BusInv, TypeOK
<1>2. \A u \in Topics : Deliveries(u)' = Deliveries(u) /\ Sending(u)' = Sending(u)
  <2>1. \A u \in Topics : Deliveries(u)' = Deliveries(u)
    BY <1>1 DEF Deliveries, Delivered
  <2>2. \A r \in Tasks : pc'[r] = "sent" <=> pc[r] = "sent"
    BY <1>1 DEF IncrementDropCount, CountDropped
  <2> QED
    BY <1>1, <2>1, <2>2 DEF Sending
<1>3. /\ IsFiniteSet(Dropping) /\ IsFiniteSet(Slots(DropsOf))
      /\ s_dropCount = Cardinality(Slots(DropsOf)) + Cardinality(Dropping)
      /\ Cardinality(Dropping) \in Nat /\ Cardinality(Slots(DropsOf)) \in Nat
  BY FS_CardinalityType DEF CountInv
<1>4. \A u \in Topics : stats'[u].delivered = stats[u].delivered
  <2>1. CASE IncrementDropCount(p)
    BY <2>1 DEF IncrementDropCount
  <2>2. CASE CountDropped(p)
    <3>1. stats' = [stats EXCEPT ![t] = IncDropped(stats[t])]
      BY <1>0, <2>2 DEF CountDropped
    <3>2. IncDropped(stats[t]).delivered = stats[t].delivered
      BY <1>1, StatsUpdates
    <3> QED
      BY <1>1, <3>1, <3>2
  <2> QED
    BY <2>1, <2>2
<1>5. /\ IsFiniteSet(Dropping') /\ IsFiniteSet(Slots(DropsOf)')
      /\ s_dropCount' = Cardinality(Slots(DropsOf)') + Cardinality(Dropping')
  <2>1. CASE IncrementDropCount(p)
    <3>1. Dropping' = Dropping \cup {p} /\ p \notin Dropping /\ DropsOf' = DropsOf
      BY <1>1, <2>1 DEF IncrementDropCount, Dropping, DropsOf
    <3>2. IsFiniteSet(Dropping') /\ Cardinality(Dropping') = Cardinality(Dropping) + 1
      BY <1>3, <3>1, FS_AddElement
    <3>3. Slots(DropsOf)' = Slots(DropsOf) /\ s_dropCount' = s_dropCount + 1
      BY <2>1, <3>1 DEF Slots, IncrementDropCount
    <3> QED
      BY <1>1, <1>3, <3>2, <3>3
  <2>2. CASE CountDropped(p)
    <3>1. Dropping' = Dropping \ {p} /\ p \in Dropping
      BY <1>1, <2>2 DEF CountDropped, Dropping
    <3>2. IsFiniteSet(Dropping') /\ Cardinality(Dropping') = Cardinality(Dropping) - 1
      BY <1>3, <3>1, FS_RemoveElement
    <3>3. stats' = [stats EXCEPT ![t] = IncDropped(stats[t])] /\ s_dropCount' = s_dropCount
      BY <1>0, <2>2 DEF CountDropped
    <3>4. IncDropped(stats[t]).dropped = stats[t].dropped + 1
      BY <1>1, StatsUpdates
    <3>5. /\ \A u \in Topics : u # t => stats'[u] = stats[u]
          /\ stats'[t] = IncDropped(stats[t])
      BY <1>1, <3>3
    <3> DEFINE f == DropsOf
               g == DropsOf'
    <3>6. f \in [Topics -> Nat] /\ g \in [Topics -> Nat]
      BY DEF BusInv, TypeOK, BusTopicStats, DropsOf
    <3>7. g[t] = f[t] + 1 /\ \A u \in Topics : u # t => g[u] = f[u]
      BY <3>4, <3>5 DEF DropsOf
    <3>8. IsFiniteSet(Slots(f)) /\ Slots(DropsOf)' = Slots(g)
      BY <1>3 DEF Slots
    <3> HIDE DEF f, g
    <3>9. IsFiniteSet(Slots(g)) /\ Cardinality(Slots(g)) = Cardinality(Slots(f)) + 1
      BY <3>6, <3>7, <3>8, AddSlots
    <3> QED
      BY <1>1, <1>3, <3>2, <3>3, <3>8, <3>9 DEF f
  <2> QED
    BY <2>1, <2>2
<1> QED
  BY <1>2, <1>4, <1>5 DEF CountInv

\* Every step preserves the counters' meaning.
LEMMA CountNext == BusInv /\ BusInv' /\ CountInv /\ [Next]_vars => CountInv'
<1> SUFFICES ASSUME BusInv, BusInv', CountInv, [Next]_vars PROVE CountInv'
  OBVIOUS
<1>0. /\ pc \in [Tasks -> PCs] /\ stats \in [Topics -> BusTopicStats]
      /\ evt \in [Tasks -> Event] /\ subscribers \in [Topics -> Seq(Queues)]
  BY DEF BusInv, TypeOK
<1>1. ASSUME NEW p \in Tasks,
             UNCHANGED <<s_dropCount, stats, queue, received>>,
             \A r \in Tasks : r # p => pc'[r] = pc[r] /\ evt'[r] = evt[r],
             pc[p] \notin {"sent", "dropped"}, pc'[p] \notin {"sent", "dropped"}
      PROVE  CountInv'
  <2>1. Dropping' = Dropping /\ \A t \in Topics : Sending(t)' = Sending(t)
    BY <1>1 DEF Dropping, Sending
  <2> QED
    BY <1>1, <2>1, CountQuiet DEF Delivered
<1>2. ASSUME NEW p \in Tasks, NEW site \in CallSites, NEW x \in Payloads,
             MakeEvent_Load(p, site, x) \/ UnstampedEvent(p, site, x)
      PROVE  CountInv'
  BY <1>0, <1>1, <1>2 DEF MakeEvent_Load, UnstampedEvent
<1>3. ASSUME NEW p \in Tasks, PublishStep(p) PROVE CountInv'
  <2>1. CASE \/ MakeEvent_Store(p) \/ MakeEvent_Reload(p) \/ AllocateEventId(p)
             \/ Publish_TakeLock(p) \/ SendRejected(p) \/ Publish_Return(p)
    BY <1>0, <1>1, <2>1
       DEF MakeEvent_Store, MakeEvent_Reload, AllocateEventId, Publish_TakeLock, SendRejected,
           Publish_Return, localVars
  <2>2. CASE Publish_Begin(p)
    <3>1. PICK t \in Topics : t = evt[p].topic
      BY <1>0 DEF Event
    <3>2. /\ stats' = [stats EXCEPT ![t] = SetSubscribers(IncPublished(stats[t]), Len(subscribers[t]))]
          /\ pc[p] = "publish" /\ pc' = [pc EXCEPT ![p] = "send"]
          /\ UNCHANGED <<s_dropCount, queue, received, evt>>
      BY <2>2, <3>1 DEF Publish_Begin
    <3>3. Len(subscribers[t]) \in Nat /\ stats[t] \in BusTopicStats
      BY <1>0
    <3>4. IncPublished(stats[t]) \in BusTopicStats
      BY <3>3, StatsUpdates
    <3>5. \A u \in Topics : /\ stats'[u].delivered = stats[u].delivered
                            /\ stats'[u].dropped = stats[u].dropped
      <4>1. stats'[t] = SetSubscribers(IncPublished(stats[t]), Len(subscribers[t]))
        BY <1>0, <3>2
      <4>2. /\ stats'[t].delivered = IncPublished(stats[t]).delivered
            /\ stats'[t].dropped = IncPublished(stats[t]).dropped
        BY <3>3, <3>4, <4>1, StatsUpdates
      <4>3. /\ stats'[t].delivered = stats[t].delivered
            /\ stats'[t].dropped = stats[t].dropped
        BY <3>3, <4>2, StatsUpdates
      <4> QED
        BY <1>0, <3>2, <4>3
    <3>6. Dropping' = Dropping /\ \A u \in Topics : Sending(u)' = Sending(u)
      BY <1>0, <3>2 DEF Dropping, Sending
    <3> QED
      BY <3>2, <3>5, <3>6, CountQuiet DEF Delivered
  <2>3. CASE SendAccepted(p)
    BY <2>3, SendCount
  <2>4. CASE CountDelivered(p)
    BY <2>4, DeliveredCount
  <2>5. CASE IncrementDropCount(p) \/ CountDropped(p)
    BY <2>5, DroppedCount
  <2> QED
    BY <1>3, <2>1, <2>2, <2>3, <2>4, <2>5 DEF PublishStep
<1>4. CASE Bus_Subscribe
  <2>1. /\ UNCHANGED <<s_dropCount, queue, received, pc, evt>>
        /\ \/ stats' = stats
           \/ \E t, n : stats' = [stats EXCEPT ![t].subscribers = n]
    BY <1>4 DEF Bus_Subscribe, localVars
  <2>2. \A u \in Topics : /\ stats'[u].delivered = stats[u].delivered
                          /\ stats'[u].dropped = stats[u].dropped
    BY <1>0, <2>1, ZenonT(60) DEF BusTopicStats
  <2>3. Dropping' = Dropping /\ \A u \in Topics : Sending(u)' = Sending(u)
    BY <2>1 DEF Dropping, Sending
  <2> QED
    BY <2>1, <2>2, <2>3, CountQuiet DEF Delivered
<1>5. ASSUME \/ \E q \in Queues : XQueueReceive(q)
             \/ Bus_GetTopicStats
             \/ UNCHANGED vars
      PROVE  CountInv'
  <2>1. UNCHANGED <<s_dropCount, stats, pc, evt>>
    BY <1>5 DEF XQueueReceive, Bus_GetTopicStats, vars, localVars
  <2>2. \A r \in Queues : Delivered(r)' = Delivered(r)
    <3>1. CASE \E q \in Queues : XQueueReceive(q)
      BY <3>1, ReceiveDelivers DEF BusInv
    <3>2. CASE Bus_GetTopicStats \/ UNCHANGED vars
      BY <3>2 DEF Bus_GetTopicStats, vars, Delivered
    <3> QED
      BY <1>5, <3>1, <3>2
  <2>3. Dropping' = Dropping /\ \A u \in Topics : Sending(u)' = Sending(u)
    BY <2>1 DEF Dropping, Sending
  <2> QED
    BY <2>1, <2>2, <2>3, CountQuiet
<1> QED
  BY <1>2, <1>3, <1>4, <1>5 DEF Next, Quiescent

\* The counters mean what they say in every state.
LEMMA CountInvariance == Spec => []CountInv
<1>1. BusInv /\ BusInv' /\ CountInv /\ [Next]_vars => CountInv'
  BY CountNext
<1> QED
  BY CountInit, Invariance, <1>1, PTL DEF Spec

\* Bus_GetDropCount is the sum of the topics' drop counters and of the drops that
\* are between their two counts, although the two are kept under different locks.
THEOREM DropCounterExact == Spec => []DropCountExact
<1>1. CountInv => DropCountExact
  BY DEF CountInv, DropCountExact, Slots, DropsOf, Dropping
<1> QED
  BY CountInvariance, <1>1, PTL

\* A topic's counter of deliveries is the number of its events that the queues
\* were given, up to the one that is between the send and its count.
THEOREM DeliveryCounterExact == Spec => []DeliveredExact
<1>1. CountInv => DeliveredExact
  BY DEF CountInv, DeliveredExact, Sending
<1> QED
  BY CountInvariance, <1>1, PTL

-----------------------------------------------------------------------------
(* Why a publish call ends: PublishCompletes without the fairness.         *)

\* An upper bound on the steps that remain of task p's publish call: three per
\* subscriber that is still to be offered the event, and those before and after
\* the loop.
StepsLeft(p) ==
  LET all == Len(subscribers[evt[p].topic])
      offers == all + 1 - idx[p]
  IN CASE pc[p] = "idle" -> 0
       [] pc[p] = "store" -> 3 * all + 6
       [] pc[p] = "reload" -> 3 * all + 5
       [] pc[p] = "alloc" -> 3 * all + 4
       [] pc[p] = "lock" -> 3 * all + 3
       [] pc[p] = "publish" -> 3 * all + 2
       [] pc[p] = "send" -> 3 * offers + 1
       [] pc[p] = "drop" -> 3 * offers
       [] OTHER -> 3 * offers - 1

\* Bus_Subscribe never makes a list longer than the array it is kept in.
ListsFit == \A t \in Topics : Len(subscribers[t]) <= MAX_SUBSCRIBERS_PER_TOPIC

\* A publish call that has begun is bounded and does not wait in a circle: what
\* remains is at most three steps per subscriber and six more; a task that waits
\* for a topic's mutex holds none, and the task that holds that mutex is in the loop
\* of Bus_PublishWithCount, where it waits for nothing.
CallsBounded ==
  \A p \in Tasks :
    /\ StepsLeft(p) \in 0 .. 3 * MAX_SUBSCRIBERS_PER_TOPIC + 6
    /\ StepsLeft(p) = 0 <=> pc[p] = "idle"
    /\ pc[p] = "lock" =>
         /\ \A t \in Topics : lock[t] # p
         /\ lock[evt[p].topic] # NoTask => pc[lock[evt[p].topic]] \in PublishSteps

\* Every step of a publish call brings it nearer to its end, and nothing that other
\* tasks or the subscribers do, or leave undone, takes it further away.
CallsAdvance ==
  [][\A p \in Tasks :
       /\ PublishStep(p) => StepsLeft(p)' < StepsLeft(p)
       /\ pc[p] # "idle" => StepsLeft(p)' <= StepsLeft(p)]_vars

\* The lists fit after Bus_Init, and no step makes one too long.
LEMMA ListsStayFit == Spec => []ListsFit
<1>1. Init => ListsFit
  BY BusAssumption DEF Init, ListsFit
<1>2. BusInv /\ ListsFit /\ [Next]_vars => ListsFit'
  <2> SUFFICES ASSUME BusInv, ListsFit, [Next]_vars PROVE ListsFit'
    OBVIOUS
  <2>0. subscribers \in [Topics -> Seq(Queues)]
    BY DEF BusInv, TypeOK
  <2>1. CASE Bus_Subscribe
    <3> DEFINE t == Subscriptions[booted + 1][1]
               q == Subscriptions[booted + 1][2]
    <3>1. booted + 1 \in 1 .. Len(Subscriptions)
      <4>1. booted \in 0 .. Len(Subscriptions) /\ booted # Len(Subscriptions)
        BY <2>1 DEF Bus_Subscribe, Running, BusInv, TypeOK
      <4>2. Len(Subscriptions) \in Nat
        BY BusAssumption
      <4> QED
        BY <4>1, <4>2
    <3>2. t \in Topics /\ q \in Queues
      BY <3>1, BusAssumption
    <3>3. CASE subscribers' = subscribers
      BY <3>3 DEF ListsFit
    <3>4. CASE /\ Len(subscribers[t]) < MAX_SUBSCRIBERS_PER_TOPIC
               /\ subscribers' = [subscribers EXCEPT ![t] = Append(@, q)]
      <4> HIDE DEF t, q
      <4>1. Len(Append(subscribers[t], q)) = Len(subscribers[t]) + 1 /\ Len(subscribers[t]) \in Nat
        BY <2>0, <3>2
      <4>2. \A u \in Topics :
              subscribers'[u] = IF u = t THEN Append(subscribers[t], q) ELSE subscribers[u]
        BY <2>0, <3>2, <3>4
      <4> QED
        BY <3>4, <4>1, <4>2, BusAssumption DEF ListsFit
    <3> QED
      BY <2>1, <3>3, <3>4 DEF Bus_Subscribe
  <2>2. CASE UNCHANGED subscribers
    BY <2>2 DEF ListsFit
  <2> QED
    BY <2>1, <2>2 DEF Next, MakeEvent_Load, UnstampedEvent, PublishStep, MakeEvent_Store,
       MakeEvent_Reload, AllocateEventId, Publish_TakeLock, Publish_Begin, SendAccepted,
       CountDelivered, SendRejected, IncrementDropCount, CountDropped, Publish_Return,
       XQueueReceive, Bus_GetTopicStats, Quiescent, registryVars, vars
<1> QED
  BY <1>1, <1>2, Invariance, PTL DEF Spec

\* A publish call has a bounded number of steps left, and whom it waits for is not
\* waiting: no order of publications on the topics leads to a circle of waits.
THEOREM CallsAreBounded == Spec => []CallsBounded
<1>1. BusInv /\ ListsFit => CallsBounded
  <2> SUFFICES ASSUME BusInv, ListsFit, NEW p \in Tasks
               PROVE  /\ StepsLeft(p) \in 0 .. 3 * MAX_SUBSCRIBERS_PER_TOPIC + 6
                      /\ StepsLeft(p) = 0 <=> pc[p] = "idle"
                      /\ pc[p] = "lock" =>
                           /\ \A t \in Topics : lock[t] # p
                           /\ lock[evt[p].topic] # NoTask =>
                                pc[lock[evt[p].topic]] \in PublishSteps
    BY DEF CallsBounded
  <2>0. /\ pc[p] \in PCs /\ evt[p].topic \in Topics /\ idx[p] \in Nat
        /\ lock[evt[p].topic] \in Tasks \cup {NoTask}
    BY DEF BusInv, TypeOK, Event
  <2> DEFINE all == Len(subscribers[evt[p].topic])
  <2>1. all \in Nat /\ all <= MAX_SUBSCRIBERS_PER_TOPIC
    BY <2>0 DEF BusInv, TypeOK, ListsFit
  <2>2. /\ idx[p] >= 1
        /\ pc[p] \in Offering => idx[p] <= all
        /\ pc[p] = "send" => idx[p] <= all + 1
    BY DEF BusInv, LoopBounds
  <2>3. /\ StepsLeft(p) \in 0 .. 3 * MAX_SUBSCRIBERS_PER_TOPIC + 6
        /\ StepsLeft(p) = 0 <=> pc[p] = "idle"
    <3> DEFINE n == idx[p]
               M == MAX_SUBSCRIBERS_PER_TOPIC
    <3>1. M \in Nat
      BY BusAssumption
    <3>2. StepsLeft(p) = CASE pc[p] = "idle" -> 0
                           [] pc[p] = "store" -> 3 * all + 6
                           [] pc[p] = "reload" -> 3 * all + 5
                           [] pc[p] = "alloc" -> 3 * all + 4
                           [] pc[p] = "lock" -> 3 * all + 3
                           [] pc[p] = "publish" -> 3 * all + 2
                           [] pc[p] = "send" -> 3 * (all + 1 - n) + 1
                           [] pc[p] = "drop" -> 3 * (all + 1 - n)
                           [] OTHER -> 3 * (all + 1 - n) - 1
      BY DEF StepsLeft
    <3>3. /\ n \in Nat /\ n >= 1 /\ all \in Nat /\ all <= M
          /\ pc[p] \in Offering => n <= all
          /\ pc[p] = "send" => n <= all + 1
      BY <2>0, <2>1, <2>2
    <3> HIDE DEF all, n, M
    <3>4. CASE pc[p] \in {"idle", "store", "reload", "alloc", "lock", "publish"}
      BY <3>1, <3>2, <3>3, <3>4 DEF M
    <3>5. CASE pc[p] = "send"
      BY <3>1, <3>2, <3>3, <3>5 DEF M
    <3>6. CASE pc[p] \in Offering
      BY <3>1, <3>2, <3>3, <3>6 DEF M, Offering
    <3> QED
      BY <2>0, <3>4, <3>5, <3>6 DEF PCs, PublishSteps, Offering
  <2>4. ASSUME pc[p] = "lock"
        PROVE  /\ \A t \in Topics : lock[t] # p
               /\ lock[evt[p].topic] # NoTask => pc[lock[evt[p].topic]] \in PublishSteps
    BY <2>0, <2>4 DEF BusInv, LockOwner, PublishSteps
  <2> QED
    BY <2>3, <2>4
<1> QED
  BY Invariance, ListsStayFit, <1>1, PTL

\* What StepsLeft(p) depends on.
LEMMA SameStepsLeft ==
  ASSUME NEW p \in Tasks, subscribers' = subscribers,
         pc'[p] = pc[p], evt'[p] = evt[p], idx'[p] = idx[p]
  PROVE  StepsLeft(p)' = StepsLeft(p)
BY DEF StepsLeft

\* A publish call only gets shorter: a slow subscriber, whose queue stays full, costs
\* its publisher no step more than a drop.
THEOREM CallsAlwaysAdvance == Spec => CallsAdvance
<1> DEFINE Advance == \A p \in Tasks :
             /\ PublishStep(p) => StepsLeft(p)' < StepsLeft(p)
             /\ pc[p] # "idle" => StepsLeft(p)' <= StepsLeft(p)
<1>1. BusInv /\ Next => Advance
  <2> SUFFICES ASSUME BusInv, Next PROVE Advance
    OBVIOUS
  <2>0. /\ pc \in [Tasks -> PCs] /\ evt \in [Tasks -> Event] /\ idx \in [Tasks -> Nat]
        /\ subscribers \in [Topics -> Seq(Queues)]
    BY DEF BusInv, TypeOK
  <2>1. ASSUME NEW p \in Tasks, PublishStep(p)
        PROVE  StepsLeft(p)' < StepsLeft(p)
    <3> DEFINE all == Len(subscribers[evt[p].topic])
    <3>0. evt[p] \in Event /\ idx[p] \in Nat /\ all \in Nat /\ subscribers' = subscribers
      BY <2>0, <2>1 DEF Event, PublishStep, MakeEvent_Store, MakeEvent_Reload, AllocateEventId,
         Publish_TakeLock, Publish_Begin, SendAccepted, CountDelivered, SendRejected,
         IncrementDropCount, CountDropped, Publish_Return, registryVars
    <3>1. evt'[p].topic = evt[p].topic
      BY <2>0, <2>1 DEF Event, PublishStep, MakeEvent_Store, MakeEvent_Reload, AllocateEventId,
         Publish_TakeLock, Publish_Begin, SendAccepted, CountDelivered, SendRejected,
         IncrementDropCount, CountDropped, Publish_Return, localVars
    <3>2. pc[p] \in Offering \/ InLoop(p) => idx[p] <= all
      BY DEF BusInv, LoopBounds, InLoop
    <3>3. pc[p] = "send" => idx[p] <= all + 1
      BY DEF BusInv, LoopBounds
    <3>4. \/ pc[p] = "store" /\ pc'[p] = "reload"
          \/ pc[p] = "reload" /\ pc'[p] = "alloc"
          \/ pc[p] = "alloc" /\ pc'[p] = "lock"
          \/ pc[p] = "lock" /\ pc'[p] = "publish"
          \/ pc[p] = "publish" /\ pc'[p] = "send" /\ idx'[p] = 1
          \/ pc[p] = "send" /\ pc'[p] \in {"sent", "drop"} /\ idx'[p] = idx[p] /\ idx[p] <= all
          \/ pc[p] = "drop" /\ pc'[p] = "dropped" /\ idx'[p] = idx[p]
          \/ pc[p] \in {"sent", "dropped"} /\ pc'[p] = "send" /\ idx'[p] = idx[p] + 1
          \/ pc[p] = "send" /\ pc'[p] = "idle"
      BY <2>0, <2>1 DEF PublishStep, MakeEvent_Store, MakeEvent_Reload, AllocateEventId,
         Publish_TakeLock, Publish_Begin, SendAccepted, CountDelivered, SendRejected,
         IncrementDropCount, CountDropped, Publish_Return, InLoop, localVars
    <3>5. StepsLeft(p)' = CASE pc'[p] = "idle" -> 0
                            [] pc'[p] = "store" -> 3 * all + 6
                            [] pc'[p] = "reload" -> 3 * all + 5
                            [] pc'[p] = "alloc" -> 3 * all + 4
                            [] pc'[p] = "lock" -> 3 * all + 3
                            [] pc'[p] = "publish" -> 3 * all + 2
                            [] pc'[p] = "send" -> 3 * (all + 1 - idx'[p]) + 1
                            [] pc'[p] = "drop" -> 3 * (all + 1 - idx'[p])
                            [] OTHER -> 3 * (all + 1 - idx'[p]) - 1
      BY <3>0, <3>1 DEF StepsLeft
    <3>6. StepsLeft(p) = CASE pc[p] = "idle" -> 0
                           [] pc[p] = "store" -> 3 * all + 6
                           [] pc[p] = "reload" -> 3 * all + 5
                           [] pc[p] = "alloc" -> 3 * all + 4
                           [] pc[p] = "lock" -> 3 * all + 3
                           [] pc[p] = "publish" -> 3 * all + 2
                           [] pc[p] = "send" -> 3 * (all + 1 - idx[p]) + 1
                           [] pc[p] = "drop" -> 3 * (all + 1 - idx[p])
                           [] OTHER -> 3 * (all + 1 - idx[p]) - 1
      BY DEF StepsLeft
    <3> HIDE DEF all
    <3> QED
      BY <3>0, <3>2, <3>3, <3>4, <3>5, <3>6 DEF Offering
  <2>2. ASSUME NEW p \in Tasks, pc[p] # "idle"
        PROVE  StepsLeft(p)' <= StepsLeft(p)
    <3>0. StepsLeft(p) \in Int
      BY <2>0 DEF StepsLeft, Event
    <3>1. CASE PublishStep(p)
      <4>1. StepsLeft(p)' \in Int
        <5>1. /\ pc' \in [Tasks -> PCs] /\ evt' \in [Tasks -> Event] /\ idx' \in [Tasks -> Nat]
              /\ subscribers' \in [Topics -> Seq(Queues)]
          BY NextInv DEF BusInv, TypeOK
        <5> QED
          BY <5>1 DEF StepsLeft, Event
      <4> QED
        BY <2>1, <3>0, <3>1, <4>1
    <3>2. CASE ~PublishStep(p)
      <4> DEFINE UnchangedCall ==
                   /\ subscribers' = subscribers
                   /\ pc'[p] = pc[p] /\ evt'[p] = evt[p] /\ idx'[p] = idx[p]
      <4>1. UnchangedCall
        <5>1. CASE Bus_Subscribe
          BY <2>2, <5>1 DEF BusInv, QuietStart, Bus_Subscribe
        <5>2. ASSUME NEW r \in Tasks, NEW site \in CallSites, NEW x \in Payloads,
                     MakeEvent_Load(r, site, x) \/ UnstampedEvent(r, site, x)
              PROVE  UnchangedCall
          <6>1. r # p
            BY <2>2, <5>2 DEF MakeEvent_Load, UnstampedEvent
          <6> QED
            BY <2>0, <5>2, <6>1 DEF MakeEvent_Load, UnstampedEvent, registryVars
        <5>3. ASSUME NEW r \in Tasks, r # p, PublishStep(r)
              PROVE  UnchangedCall
          BY <2>0, <5>3 DEF PublishStep, MakeEvent_Store, MakeEvent_Reload, AllocateEventId,
             Publish_TakeLock, Publish_Begin, SendAccepted, CountDelivered, SendRejected,
             IncrementDropCount, CountDropped, Publish_Return, registryVars, localVars
        <5>4. CASE (\E q \in Queues : XQueueReceive(q)) \/ Bus_GetTopicStats \/ Quiescent
          BY <5>4 DEF XQueueReceive, Bus_GetTopicStats, Quiescent, registryVars, localVars, vars
        <5> QED
          BY <3>2, <5>1, <5>2, <5>3, <5>4 DEF Next
      <4> QED
        BY <3>0, <4>1, SameStepsLeft
    <3> QED
      BY <3>1, <3>2
  <2> QED
    BY <2>1, <2>2
<1>2. BusInv /\ [Next]_vars => [Advance]_vars
  BY <1>1
<1> HIDE DEF Advance
<1>3. [][Advance]_vars => CallsAdvance
  BY PTL DEF CallsAdvance, Advance
<1> QED
  BY Invariance, <1>2, <1>3, PTL DEF Spec
=============================================================================

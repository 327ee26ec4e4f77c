---------------------------- MODULE FramePathProofs ----------------------------
(***************************************************************************)
(* The zero-copy path keeps the pool's contract, for every number of       *)
(* blocks, frames, subscribers and queue lengths: whatever the queues      *)
(* drop, a block's count is the number of references that remain, and a    *)
(* frame that somebody may still read is not recycled.                     *)
(***************************************************************************)
EXTENDS FramePath, EventBusProofs

-----------------------------------------------------------------------------
(* The inductive invariant.                                                *)

Owning == {"fill", "count", "setref", "make", "publish", "free", "print"}

FrameType ==
  /\ fpc \in {"idle", "fault"} \cup Owning
  /\ frame \in Blocks \cup {NULL}
  /\ frameSeq \in 0 .. MaxFrames
  /\ subscriberCount \in Nat
  /\ freeIdx \in Nat
  /\ holding \in [Queues -> BOOLEAN]

\* Where publishFrameReady is, and what it has found out so far.
SensorInv ==
  /\ ~Running => fpc = "idle"
  /\ fpc \notin {"idle", "publish"} => pc[Sensor] = "idle"
  /\ fpc \in Owning => frame \in Blocks /\ frameSeq > 0
  /\ fpc \in {"setref", "make", "publish", "free"} =>
       subscriberCount = Len(subscribers[FrameSite.topic]) /\ subscriberCount > 0
  /\ fpc = "free" => freeIdx <= subscriberCount

\* Only Sensor publishes frames, each the one it has allocated.
PendingInv ==
  /\ \A p \in Tasks : pc[p] # "idle" /\ evt[p].topic = FrameSite.topic =>
                        p = Sensor /\ fpc = "publish"
  /\ fpc = "publish" /\ pc[Sensor] # "idle" =>
       /\ evt[Sensor].topic = FrameSite.topic
       /\ evt[Sensor].payload = [ptr |-> frame, frame |-> frameSeq]

\* What the queues are given on FRAME_READY are frames, and none of them is to come.
AnnouncedInv ==
  \A q \in Queues : \A k \in DOMAIN Delivered(q) :
    Delivered(q)[k].topic = FrameSite.topic =>
      /\ Delivered(q)[k].payload \in FramePayload
      /\ Delivered(q)[k].payload.frame <= frameSeq

\* The present frame is not announced before its time.
UnsentInv ==
  /\ fpc \in {"fill", "count", "setref", "make"} => SentTo = {}
  /\ fpc \in {"fill", "count", "setref"} => References(frame) = {}

\* The first n subscribers of FRAME_READY.
FirstSubs(n) == {subscribers[FrameSite.topic][k] : k \in 1 .. n}

\* While Bus_PublishWithCount runs for a frame, and when it has returned, accepted
\* is the number of queues that have been sent the frame; they are among the
\* subscribers that the loop has reached.
ProgressInv ==
  fpc = "publish" =>
    /\ IsFiniteSet(SentTo)
    /\ pc[Sensor] \in {"store", "reload", "alloc", "lock", "publish"} => SentTo = {}
    /\ pc[Sensor] \in {"send", "drop", "dropped"} =>
         /\ Cardinality(SentTo) = accepted[Sensor]
         /\ accepted[Sensor] <= idx[Sensor] - 1
         /\ SentTo \subseteq FirstSubs(idx[Sensor] - 1)
    /\ pc[Sensor] = "sent" =>
         /\ Cardinality(SentTo) = accepted[Sensor] + 1
         /\ accepted[Sensor] <= idx[Sensor] - 1
         /\ SentTo \subseteq FirstSubs(idx[Sensor])
    /\ pc[Sensor] = "idle" =>
         Cardinality(SentTo) = accepted[Sensor] /\ accepted[Sensor] <= subscriberCount

\* A task handles a frame that it has received.
HandledInv ==
  \A q \in Queues :
    holding[q] => received[q] # <<>> /\ Handled(q).topic = FrameSite.topic

\* The block holds the frame for as long as publishFrameReady has references to
\* it, which may be a shorter time than it has the pointer.
FilledInv ==
  fpc \in {"count", "setref", "make", "publish"} /\ SensorRefs(frame) > 0 =>
    s_blocks[frame].sequence = frameSeq

\* The number of subscribers fits in the count.
SubscribersFit == \A t \in Topics : Len(subscribers[t]) <= MAX_SUBSCRIBERS_PER_TOPIC

\* What the bus keeps by itself ...
StaticInv == BaseInv /\ SubscriberInv /\ SubscribersFit

\* ... what the users of the pool keep between them ...
UseInv ==
  /\ FrameType /\ SensorInv /\ PendingInv /\ ProgressInv
  /\ AnnouncedInv /\ UnsentInv /\ HandledInv /\ FilledInv /\ FrameIntact
  /\ \A b \in Blocks : IsFiniteSet(References(b))

\* ... and what the pool keeps for users that respect its contract: each block's
\* count is the number of references that are held.
CountedInv ==
  /\ s_blocks \in [Blocks -> PayloadBlock]
  /\ HeldRefs \in [Blocks -> 0 .. RefCountModulus - 1]
  /\ \A b \in Blocks :
       /\ s_blocks[b].refCount = HeldRefs[b]
       /\ s_blocks[b].inUse <=> HeldRefs[b] > 0

FrameInv == StaticInv /\ UseInv /\ CountedInv

\* A step that the contract allows.
ContractStep == [Contract!PoolNext]_<<s_blocks, HeldRefs>>

-----------------------------------------------------------------------------
(* The subscribers' references.                                            *)

\* What is assumed of the call sites.
LEMMA FrameFacts ==
  /\ Sensor \in Tasks /\ FrameSite \in CallSite /\ FaultSite \in CallSite
  /\ FrameSite.topic \in Topics /\ FaultSite.topic # FrameSite.topic
  /\ \A site \in CallSites : site \in CallSite /\ site.topic # FrameSite.topic
  /\ NoPayload \in Payloads /\ FramePayload \subseteq Payloads /\ MaxFrames \in Nat
  /\ MAX_SUBSCRIBERS_PER_TOPIC \in Nat /\ MAX_SUBSCRIBERS_PER_TOPIC < RefCountModulus
BY FrameAssumption, BusAssumption DEF CallSite

\* The places of what a queue has been given.
LEMMA Places ==
  ASSUME TypeOK, NEW q \in Queues
  PROVE  /\ received[q] \in Seq(Event) /\ Len(received[q]) \in Nat
         /\ Delivered(q) \in Seq(Event)
         /\ received[q] # <<>> => /\ Len(received[q]) \in DOMAIN Delivered(q)
                                  /\ Delivered(q)[Len(received[q])] = Handled(q)
         /\ queue[q] # <<>> => /\ Len(received[q]) + 1 \in DOMAIN Delivered(q)
                               /\ Delivered(q)[Len(received[q]) + 1] = Head(queue[q])
         /\ \A k \in DOMAIN Delivered(q) : k \in Nat /\ k <= Len(Delivered(q))
         /\ Len(received[q]) <= Len(Delivered(q))
<1> DEFINE a == received[q]
           b == queue[q]
           d == Delivered(q)
<1>1. a \in Seq(Event) /\ b \in Seq(Event) /\ d = a \o b
  BY DEF TypeOK, Delivered
<1>2. Handled(q) = a[Len(a)]
  BY DEF Handled
<1> HIDE DEF a, b, d
<1>3. /\ Len(a) \in Nat /\ d \in Seq(Event)
      /\ DOMAIN d = 1 .. Len(a) + Len(b) /\ Len(d) = Len(a) + Len(b)
      /\ \A k \in 1 .. Len(a) : d[k] = a[k]
      /\ \A k \in 1 .. Len(b) : d[Len(a) + k] = b[k]
  BY <1>1
<1>4. a # <<>> => Len(a) \in 1 .. Len(a)
  BY <1>1
<1>5. b # <<>> => 1 \in 1 .. Len(b) /\ Head(b) = b[1]
  BY <1>1
<1>6. Len(b) \in Nat
  BY <1>1
<1>7. /\ a # <<>> => Len(a) \in DOMAIN d /\ d[Len(a)] = Handled(q)
      /\ b # <<>> => Len(a) + 1 \in DOMAIN d /\ d[Len(a) + 1] = Head(b)
      /\ \A k \in DOMAIN d : k \in Nat /\ k <= Len(d)
      /\ Len(a) <= Len(d)
  BY <1>2, <1>3, <1>4, <1>5, <1>6
<1> QED
  BY <1>1, <1>3, <1>7 DEF a, b, d

\* A step that touches neither the queues nor what the tasks hold.
LEMMA SameView ==
  ASSUME UNCHANGED <<queue, received, holding>>
  PROVE  /\ \A q \in Queues : Delivered(q)' = Delivered(q) /\ Outstanding(q)' = Outstanding(q)
         /\ \A b \in Blocks : References(b)' = References(b)
         /\ frameSeq' = frameSeq => SentTo' = SentTo
<1>1. \A q \in Queues : Delivered(q)' = Delivered(q)
  BY DEF Delivered
<1>2. \A q \in Queues : Outstanding(q)' = Outstanding(q)
  BY <1>1 DEF Outstanding
<1>3. \A b \in Blocks : References(b)' = References(b)
  BY <1>1, <1>2 DEF References
<1>4. frameSeq' = frameSeq => SentTo' = SentTo
  BY <1>1 DEF SentTo
<1> QED
  BY <1>1, <1>2, <1>3, <1>4

\* A receive passes a reference from the queue to its task.
LEMMA ReceiveView ==
  ASSUME TypeOK, holding \in [Queues -> BOOLEAN], NEW r \in Queues, Receive(r)
  PROVE  /\ \A q \in Queues : Delivered(q)' = Delivered(q) /\ Outstanding(q)' = Outstanding(q)
         /\ \A b \in Blocks : References(b)' = References(b)
         /\ SentTo' = SentTo
<1>1. /\ ~holding[r] /\ XQueueReceive(r) /\ frameSeq' = frameSeq
      /\ holding' = [holding EXCEPT ![r] = (Head(queue[r]).topic = FrameSite.topic)]
  BY DEF Receive
<1>2. \A q \in Queues : Delivered(q)' = Delivered(q)
  BY <1>1, ReceiveDelivers
<1>3. /\ queue[r] # <<>> /\ received[r] \in Seq(Event)
      /\ received' = [received EXCEPT ![r] = Append(received[r], Head(queue[r]))]
      /\ \A q \in Queues : q # r => received'[q] = received[q] /\ holding'[q] = holding[q]
  BY <1>1 DEF XQueueReceive, TypeOK
<1>4. Len(received'[r]) = Len(received[r]) + 1 /\ Len(received[r]) \in Nat
  BY <1>3 DEF TypeOK
<1>5. Outstanding(r)' = Outstanding(r)
  <2>1. Delivered(r)[Len(received[r]) + 1] = Head(queue[r])
    BY <1>3, Places
  <2>2. holding'[r] <=> Delivered(r)[Len(received[r]) + 1].topic = FrameSite.topic
    <3> DEFINE x == Head(queue[r]).topic = FrameSite.topic
    <3>1. holding' = [holding EXCEPT ![r] = x]
      BY <1>1
    <3> HIDE DEF x
    <3>2. holding'[r] <=> x
      BY <3>1
    <3> QED
      BY <2>1, <3>2 DEF x
  <2>3. \A k \in DOMAIN Delivered(r) : k \in Nat
    BY Places
  <2>4. \A k \in DOMAIN Delivered(r) :
          Delivered(r)[k].topic = FrameSite.topic =>
            ((k > Len(received'[r]) \/ (holding'[r] /\ k = Len(received'[r])))
               <=> (k > Len(received[r]) \/ (holding[r] /\ k = Len(received[r]))))
    BY <1>1, <1>4, <2>2, <2>3
  <2> QED
    BY <1>2, <2>4 DEF Outstanding
<1>6. \A q \in Queues : Outstanding(q)' = Outstanding(q)
  BY <1>2, <1>3, <1>5 DEF Outstanding
<1>7. \A b \in Blocks : References(b)' = References(b)
  BY <1>2, <1>6 DEF References
<1>8. SentTo' = SentTo
  BY <1>1, <1>2 DEF SentTo
<1> QED
  BY <1>2, <1>6, <1>7, <1>8

\* The place of the frame that task r is handling.
HandledPlace(r) == <<r, Len(received[r])>>

\* A release gives up the reference to the frame that the task is handling.
LEMMA ReleaseView ==
  ASSUME TypeOK, HandledInv, holding \in [Queues -> BOOLEAN], NEW r \in Queues, ReleaseFrame(r)
  PROVE  /\ \A q \in Queues : Delivered(q)' = Delivered(q) /\ Outstanding(q)' \subseteq Outstanding(q)
         /\ \A q \in Queues : \A k \in Outstanding(q)' : <<q, k>> # HandledPlace(r)
         /\ HandledPlace(r) \in References(Handled(r).payload.ptr)
         /\ \A b \in Blocks : References(b)' = References(b) \ {HandledPlace(r)}
         /\ SentTo' = SentTo
<1>1. /\ holding[r] /\ UNCHANGED <<queue, received, frameSeq>>
      /\ holding' = [holding EXCEPT ![r] = FALSE]
  BY DEF ReleaseFrame, vars
<1>2. /\ received[r] # <<>> /\ Handled(r).topic = FrameSite.topic
      /\ Len(received[r]) \in DOMAIN Delivered(r)
      /\ Delivered(r)[Len(received[r])] = Handled(r)
  BY <1>1, Places DEF HandledInv
<1>3. \A q \in Queues : Delivered(q)' = Delivered(q)
  BY <1>1 DEF Delivered
<1>4. /\ Len(received[r]) \in Outstanding(r)
      /\ Outstanding(r)' = Outstanding(r) \ {Len(received[r])}
      /\ \A q \in Queues : q # r => Outstanding(q)' = Outstanding(q)
  <2>1. Len(received[r]) \in Nat /\ \A k \in DOMAIN Delivered(r) : k \in Nat
    BY Places
  <2>2. ~holding'[r] /\ \A q \in Queues : q # r => holding'[q] = holding[q]
    BY <1>1
  <2> QED
    BY <1>1, <1>2, <1>3, <2>1, <2>2 DEF Outstanding
<1>5. HandledPlace(r) \in References(Handled(r).payload.ptr)
  BY <1>2, <1>4 DEF References, HandledPlace
<1>6. ASSUME NEW b \in Blocks PROVE References(b)' = References(b) \ {HandledPlace(r)}
  <2> DEFINE P(q) == {k \in Outstanding(q) : Delivered(q)[k].payload.ptr = b}
             N(q) == {k \in Outstanding(q)' : Delivered(q)'[k].payload.ptr = b}
             m == Len(received[r])
  <2>1. N(r) = P(r) \ {m} /\ \A q \in Queues : q # r => N(q) = P(q)
    BY <1>3, <1>4
  <2>2. /\ References(b) = UNION {{q} \X P(q) : q \in Queues}
        /\ References(b)' = UNION {{q} \X N(q) : q \in Queues}
        /\ HandledPlace(r) = <<r, m>>
    BY DEF References, HandledPlace
  <2> HIDE DEF P, N, m
  <2>3. ASSUME NEW y \in References(b)' PROVE y \in References(b) \ {<<r, m>>}
    <3>1. PICK q \in Queues : y \in {q} \X N(q)
      BY <2>2, <2>3
    <3>2. y \in {q} \X P(q) /\ y # <<r, m>>
      BY <2>1, <3>1
    <3> QED
      BY <2>2, <3>2
  <2>4. ASSUME NEW y \in References(b), y # <<r, m>> PROVE y \in References(b)'
    <3>1. PICK q \in Queues : y \in {q} \X P(q)
      BY <2>2, <2>4
    <3>2. y \in {q} \X N(q)
      BY <2>1, <2>4, <3>1
    <3> QED
      BY <2>2, <3>2
  <2> QED
    BY <2>2, <2>3, <2>4
<1>7. SentTo' = SentTo
  BY <1>1, <1>3 DEF SentTo
<1>8. \A q \in Queues : \A k \in Outstanding(q)' : <<q, k>> # HandledPlace(r)
  BY <1>4 DEF HandledPlace
<1> QED
  BY <1>3, <1>4, <1>5, <1>6, <1>7, <1>8

\* The place that the next event sent to queue c will have.
NextPlace(c) == Len(Delivered(c)) + 1

\* What a send leaves: one event more in one queue.
LEMMA SendPlaces ==
  ASSUME TypeOK, NEW c \in Queues, NEW e \in Event,
         queue' = [queue EXCEPT ![c] = Append(queue[c], e)],
         UNCHANGED <<received, holding>>
  PROVE  /\ \A q \in Queues : q # c => Delivered(q)' = Delivered(q) /\ Outstanding(q)' = Outstanding(q)
         /\ DOMAIN Delivered(c)' = DOMAIN Delivered(c) \cup {NextPlace(c)}
         /\ \A k \in DOMAIN Delivered(c) : Delivered(c)'[k] = Delivered(c)[k]
         /\ Delivered(c)'[NextPlace(c)] = e
         /\ NextPlace(c) \notin DOMAIN Delivered(c)
         /\ Outstanding(c)' = IF e.topic = FrameSite.topic THEN Outstanding(c) \cup {NextPlace(c)}
                                                           ELSE Outstanding(c)
<1> DEFINE n == NextPlace(c)
<1>1. /\ \A r \in Queues : r # c => Delivered(r)' = Delivered(r)
      /\ DOMAIN Delivered(c)' = 1 .. Len(Delivered(c)) + 1
      /\ \A i \in DOMAIN Delivered(c) : Delivered(c)'[i] = Delivered(c)[i]
      /\ Delivered(c)'[n] = e
  BY SendDelivers DEF NextPlace
<1>2. /\ Delivered(c) \in Seq(Event) /\ Len(received[c]) \in Nat
      /\ Len(received[c]) <= Len(Delivered(c))
  BY Places
<1>3. /\ Len(Delivered(c)) \in Nat /\ DOMAIN Delivered(c) = 1 .. Len(Delivered(c))
  BY <1>2
<1>4. /\ n \in Nat /\ n > Len(received[c])
      /\ DOMAIN Delivered(c)' = DOMAIN Delivered(c) \cup {n}
      /\ n \notin DOMAIN Delivered(c)
  BY <1>1, <1>2, <1>3 DEF NextPlace
<1>5. \A q \in Queues : q # c => Outstanding(q)' = Outstanding(q)
  BY <1>1 DEF Outstanding
<1> HIDE DEF n
<1>6. Outstanding(c)' = IF e.topic = FrameSite.topic THEN Outstanding(c) \cup {n} ELSE Outstanding(c)
  BY <1>1, <1>4 DEF Outstanding
<1> QED
  BY <1>1, <1>4, <1>5, <1>6 DEF n

\* An event of another topic changes no reference.
LEMMA OtherSend ==
  ASSUME TypeOK, NEW c \in Queues, NEW e \in Event, e.topic # FrameSite.topic,
         queue' = [queue EXCEPT ![c] = Append(queue[c], e)],
         UNCHANGED <<received, holding, frameSeq>>
  PROVE  /\ \A q \in Queues : Outstanding(q)' = Outstanding(q)
         /\ \A q \in Queues : \A k \in Outstanding(q) : Delivered(q)'[k] = Delivered(q)[k]
         /\ \A b \in Blocks : References(b)' = References(b)
         /\ SentTo' = SentTo
<1>1. /\ \A q \in Queues : q # c => Delivered(q)' = Delivered(q) /\ Outstanding(q)' = Outstanding(q)
      /\ DOMAIN Delivered(c)' = DOMAIN Delivered(c) \cup {NextPlace(c)}
      /\ \A k \in DOMAIN Delivered(c) : Delivered(c)'[k] = Delivered(c)[k]
      /\ Delivered(c)'[NextPlace(c)] = e
      /\ Outstanding(c)' = Outstanding(c)
  BY SendPlaces
<1>2. /\ \A q \in Queues : Outstanding(q)' = Outstanding(q)
      /\ \A q \in Queues : \A k \in Outstanding(q) : Delivered(q)'[k] = Delivered(q)[k]
  BY <1>1 DEF Outstanding
<1>3. \A b \in Blocks : References(b)' = References(b)
  BY <1>2 DEF References
<1>4. SentTo' = SentTo
  BY <1>1 DEF SentTo
<1> QED
  BY <1>2, <1>3, <1>4

\* A FRAME_READY event adds one reference to its block.
LEMMA FrameSend ==
  ASSUME TypeOK, NEW c \in Queues, NEW e \in Event, e.topic = FrameSite.topic,
         queue' = [queue EXCEPT ![c] = Append(queue[c], e)],
         UNCHANGED <<received, holding, frameSeq>>
  PROVE  /\ \A b \in Blocks : References(b)' = IF e.payload.ptr = b
                                               THEN References(b) \cup {<<c, NextPlace(c)>>}
                                               ELSE References(b)
         /\ \A b \in Blocks : <<c, NextPlace(c)>> \notin References(b)
         /\ e.payload.frame = frameSeq => SentTo' = SentTo \cup {c}
<1> DEFINE n == NextPlace(c)
<1>1. /\ \A q \in Queues : q # c => Delivered(q)' = Delivered(q) /\ Outstanding(q)' = Outstanding(q)
      /\ DOMAIN Delivered(c)' = DOMAIN Delivered(c) \cup {n}
      /\ \A k \in DOMAIN Delivered(c) : Delivered(c)'[k] = Delivered(c)[k]
      /\ Delivered(c)'[n] = e
      /\ n \notin DOMAIN Delivered(c)
      /\ Outstanding(c)' = Outstanding(c) \cup {n}
  BY SendPlaces
<1> HIDE DEF n
<1>2. ASSUME NEW b \in Blocks
      PROVE  /\ References(b)' = IF e.payload.ptr = b THEN References(b) \cup {<<c, n>>} ELSE References(b)
             /\ <<c, n>> \notin References(b)
  <2> DEFINE P(q) == {k \in Outstanding(q) : Delivered(q)[k].payload.ptr = b}
             N(q) == {k \in Outstanding(q)' : Delivered(q)'[k].payload.ptr = b}
  <2>1. \A k \in Outstanding(c) : k \in DOMAIN Delivered(c)
    BY DEF Outstanding
  <2>2. /\ N(c) = IF e.payload.ptr = b THEN P(c) \cup {n} ELSE P(c)
        /\ n \notin P(c)
        /\ \A q \in Queues : q # c => N(q) = P(q)
    BY <1>1, <2>1
  <2>3. /\ References(b) = UNION {{q} \X P(q) : q \in Queues}
        /\ References(b)' = UNION {{q} \X N(q) : q \in Queues}
    BY DEF References
  <2> HIDE DEF P, N
  <2>4. <<c, n>> \notin References(b)
    <3> SUFFICES ASSUME <<c, n>> \in References(b) PROVE FALSE
      OBVIOUS
    <3>1. PICK q \in Queues : <<c, n>> \in {q} \X P(q)
      BY <2>3
    <3> QED
      BY <2>2, <3>1
  <2>5. CASE e.payload.ptr # b
    <3>1. \A q \in Queues : N(q) = P(q)
      BY <2>2, <2>5
    <3> QED
      BY <2>3, <2>4, <2>5, <3>1
  <2>6. CASE e.payload.ptr = b
    <3>1. ASSUME NEW y \in References(b)' PROVE y \in References(b) \cup {<<c, n>>}
      <4>1. PICK q \in Queues : y \in {q} \X N(q)
        BY <2>3, <3>1
      <4>2. y \in {q} \X P(q) \/ y = <<c, n>>
        BY <2>2, <4>1
      <4> QED
        BY <2>3, <4>2
    <3>2. ASSUME NEW y \in References(b) PROVE y \in References(b)'
      <4>1. PICK q \in Queues : y \in {q} \X P(q)
        BY <2>3, <3>2
      <4>2. y \in {q} \X N(q)
        BY <2>2, <4>1
      <4> QED
        BY <2>3, <4>2
    <3>3. <<c, n>> \in References(b)'
      <4>1. <<c, n>> \in {c} \X N(c)
        BY <2>2, <2>6
      <4> QED
        BY <2>3, <4>1
    <3> QED
      BY <2>4, <2>6, <3>1, <3>2, <3>3
  <2> QED
    BY <2>5, <2>6
<1>3. ASSUME e.payload.frame = frameSeq PROVE SentTo' = SentTo \cup {c}
  BY <1>1, <1>3 DEF SentTo
<1> QED
  BY <1>2, <1>3 DEF n

-----------------------------------------------------------------------------
(* The bus.                                                                *)

\* Bus_Subscribe checks the number of subscribers.
LEMMA SubscribeFits ==
  ASSUME TypeOK, SubscribersFit, Bus_Subscribe
  PROVE  SubscribersFit'
<1> DEFINE t == Subscriptions[booted + 1][1]
           q == Subscriptions[booted + 1][2]
<1>1. booted + 1 \in DOMAIN Subscriptions
  <2>1. booted \in 0 .. Len(Subscriptions) /\ booted # Len(Subscriptions)
    BY DEF TypeOK, Bus_Subscribe, Running
  <2> QED
    BY <2>1, BusAssumption
<1>2. Subscriptions[booted + 1] \in Topics \X Queues
  BY <1>1, BusAssumption
<1>3. t \in Topics /\ q \in Queues
  BY <1>2
<1>4. \/ subscribers' = subscribers
      \/ /\ Len(subscribers[t]) < MAX_SUBSCRIBERS_PER_TOPIC
         /\ subscribers' = [subscribers EXCEPT ![t] = Append(subscribers[t], q)]
  BY DEF Bus_Subscribe
<1> HIDE DEF t, q
<1>5. CASE subscribers' = subscribers
  BY <1>5 DEF SubscribersFit
<1>6. CASE /\ Len(subscribers[t]) < MAX_SUBSCRIBERS_PER_TOPIC
           /\ subscribers' = [subscribers EXCEPT ![t] = Append(subscribers[t], q)]
  <2>1. subscribers[t] \in Seq(Queues) /\ MAX_SUBSCRIBERS_PER_TOPIC \in Nat
    BY <1>3, FrameFacts DEF TypeOK
  <2>2. Len(Append(subscribers[t], q)) <= MAX_SUBSCRIBERS_PER_TOPIC
    BY <1>3, <1>6, <2>1
  <2>3. \A u \in Topics : subscribers'[u] = IF u = t THEN Append(subscribers[t], q) ELSE subscribers[u]
    BY <1>6 DEF TypeOK
  <2> QED
    BY <2>2, <2>3 DEF SubscribersFit
<1> QED
  BY <1>4, <1>5, <1>6

\* Nobody but Bus_Subscribe changes the subscribers.
LEMMA SameSubscribers ==
  ASSUME StaticInv, BaseInv', UNCHANGED <<booted, subscribers>>
  PROVE  StaticInv'
BY DEF StaticInv, SubscriberInv, SubscribersFit

\* The bus's own invariant does not depend on what the events carry.
LEMMA StaticNext ==
  ASSUME StaticInv, FrameType, SensorInv, FrameNext
  PROVE  StaticInv'
<1>0. BaseInv /\ TypeOK
  BY DEF StaticInv, BaseInv
<1>1. CASE Bus_Subscribe
  BY <1>0, <1>1, BaseSubscribe, SubscribeApart, SubscribeFits DEF StaticInv
<1>2. ASSUME NEW p \in Tasks, NEW site \in CallSite, NEW x \in Payloads, MakeEvent_Load(p, site, x)
      PROVE  StaticInv'
  <2>1. BaseInv'
    BY <1>0, <1>2, BaseStart
  <2> QED
    BY <1>2, <2>1, SameSubscribers DEF MakeEvent_Load, registryVars
<1>3. ASSUME NEW p \in Tasks, PublishStep(p) PROVE StaticInv'
  <2>1. BaseInv'
    BY <1>0, <1>3, BasePublish
  <2>2. UNCHANGED <<booted, subscribers>>
    BY <1>3 DEF PublishStep, MakeEvent_Store, MakeEvent_Reload, AllocateEventId, Publish_TakeLock,
       Publish_Begin, SendAccepted, CountDelivered, SendRejected, IncrementDropCount, CountDropped,
       Publish_Return, registryVars
  <2> QED
    BY <2>1, <2>2, SameSubscribers
<1>4. ASSUME NEW q \in Queues, Receive(q) PROVE StaticInv'
  <2>1. XQueueReceive(q)
    BY <1>4 DEF Receive
  <2>2. BaseInv'
    BY <1>0, <2>1, BaseReceive
  <2> QED
    BY <2>1, <2>2, SameSubscribers DEF XQueueReceive, registryVars
<1>5. CASE UNCHANGED vars
  BY <1>5 DEF vars, StaticInv, BaseInv, TypeOK, LoopBounds, Running, SubscriberInv, SubscribersFit
<1>6. CASE OtherPublish
  BY <1>2, <1>6, FrameFacts DEF OtherPublish
<1>7. CASE Frame_Fault
  BY <1>2, <1>7, FrameFacts DEF Frame_Fault
<1>8. CASE Frame_Publish
  <2>1. frame \in Blocks /\ frameSeq \in 1 .. MaxFrames
    BY <1>8, FrameFacts DEF Frame_Publish, At, SensorInv, FrameType, Owning
  <2>2. [ptr |-> frame, frame |-> frameSeq] \in Payloads
    BY <2>1, FrameFacts DEF FramePayload
  <2> QED
    BY <1>2, <1>8, <2>2, FrameFacts DEF Frame_Publish
<1>9. ASSUME NEW q \in Queues, ReleaseFrame(q) PROVE StaticInv'
  BY <1>5, <1>9 DEF ReleaseFrame
<1>10. CASE \/ Frame_Alloc \/ Frame_Fill \/ Frame_CountSubscribers \/ Frame_SetRefCount
            \/ Frame_Published \/ Frame_FreeUnsent \/ Frame_FreeDone \/ Frame_Print
            \/ FrameQuiescent
  BY <1>5, <1>10 DEF Frame_Alloc, Frame_Fill, Frame_CountSubscribers, Frame_SetRefCount,
     Frame_Published, Frame_FreeUnsent, Frame_FreeDone, Frame_Print, FrameQuiescent, Quiescent
<1> QED
  BY <1>1, <1>3, <1>4, <1>6, <1>7, <1>8, <1>9, <1>10 DEF FrameNext, PublishFrameReady

-----------------------------------------------------------------------------
(* The pool.                                                               *)

\* What the number of references to a block is.
LEMMA HeldAt ==
  /\ \A b \in Blocks : HeldRefs[b] = SensorRefs(b) + Cardinality(References(b))
  /\ DOMAIN HeldRefs = Blocks
BY DEF HeldRefs

\* The references stay as they are.
LEMMA HeldSame ==
  ASSUME \A b \in Blocks : SensorRefs(b)' + Cardinality(References(b)')
                             = SensorRefs(b) + Cardinality(References(b))
  PROVE  HeldRefs' = HeldRefs
BY DEF HeldRefs

\* The references to one block change.
LEMMA HeldOne ==
  ASSUME NEW b \in Blocks, NEW n,
         \A c \in Blocks : c # b => SensorRefs(c)' + Cardinality(References(c)')
                                      = SensorRefs(c) + Cardinality(References(c)),
         SensorRefs(b)' + Cardinality(References(b)') = n
  PROVE  HeldRefs' = [HeldRefs EXCEPT ![b] = n]
BY DEF HeldRefs

\* The calls of the contract.
LEMMA ContractCalls ==
  /\ UNCHANGED <<s_blocks, HeldRefs>> => ContractStep
  /\ Pool_AllocFails /\ HeldRefs' = HeldRefs => ContractStep
  /\ \A b \in Blocks :
       /\ Pool_AllocSucceeds(b) /\ HeldRefs' = [HeldRefs EXCEPT ![b] = 1] => ContractStep
       /\ /\ HeldRefs[b] > 0
          /\ Pool_Free(b)
          /\ HeldRefs' = [HeldRefs EXCEPT ![b] = HeldRefs[b] - 1]
          => ContractStep
       /\ \A n \in 1 .. MaxFrames :
            /\ HeldRefs[b] = 1
            /\ s_blocks' = [s_blocks EXCEPT ![b].sequence = n]
            /\ HeldRefs' = HeldRefs
            => ContractStep
       /\ \A n \in 1 .. RefCountModulus - 1 :
            /\ HeldRefs[b] = 1
            /\ Pool_SetRefCount(b, n)
            /\ HeldRefs' = [HeldRefs EXCEPT ![b] = n]
            => ContractStep
<1> USE DEF ContractStep, Contract!PoolNext, Contract!Blocks, Blocks
<1>1. UNCHANGED <<s_blocks, HeldRefs>> => ContractStep
  OBVIOUS
<1>2. Pool_AllocFails /\ HeldRefs' = HeldRefs => ContractStep
  BY DEF Contract!AllocFails, Contract!Pool_AllocFails, Pool_AllocFails, Contract!FreeBlocks,
     FreeBlocks
<1>3. ASSUME NEW b \in Blocks, Pool_AllocSucceeds(b), HeldRefs' = [HeldRefs EXCEPT ![b] = 1]
      PROVE  ContractStep
  BY <1>3 DEF Contract!Alloc, Contract!Pool_AllocSucceeds, Pool_AllocSucceeds,
     Contract!FreeBlocks, FreeBlocks
<1>4. ASSUME NEW b \in Blocks, HeldRefs[b] > 0, Pool_Free(b),
             HeldRefs' = [HeldRefs EXCEPT ![b] = HeldRefs[b] - 1]
      PROVE  ContractStep
  BY <1>4 DEF Contract!Release, Contract!Pool_Free, Pool_Free, Contract!ZeroBlock, ZeroBlock
<1>5. ASSUME NEW b \in Blocks, NEW n \in 1 .. MaxFrames, HeldRefs[b] = 1,
             s_blocks' = [s_blocks EXCEPT ![b].sequence = n], HeldRefs' = HeldRefs
      PROVE  ContractStep
  BY <1>5 DEF Contract!Fill
<1>6. ASSUME NEW b \in Blocks, NEW n \in 1 .. RefCountModulus - 1, HeldRefs[b] = 1,
             Pool_SetRefCount(b, n), HeldRefs' = [HeldRefs EXCEPT ![b] = n]
      PROVE  ContractStep
  BY <1>6 DEF Contract!Share, Contract!Pool_SetRefCount, Pool_SetRefCount
<1> QED
  BY <1>1, <1>2, <1>3, <1>4, <1>5, <1>6

\* Users that keep the contract get exact counts: the argument of RefCounting in
\* PoolContractProofs, for the references that the frame path holds.
LEMMA ContractCounts ==
  ASSUME CountedInv, ContractStep
  PROVE  CountedInv'
<1> DEFINE h == HeldRefs
           g == HeldRefs'
           s == s_blocks
           z == s_blocks'
<1>1. /\ s \in [Blocks -> PayloadBlock]
      /\ h \in [Blocks -> 0 .. RefCountModulus - 1]
      /\ \A b \in Blocks : s[b].refCount = h[b] /\ (s[b].inUse <=> h[b] > 0)
  BY DEF CountedInv
<1> SUFFICES /\ z \in [Blocks -> PayloadBlock]
             /\ g \in [Blocks -> 0 .. RefCountModulus - 1]
             /\ \A b \in Blocks : z[b].refCount = g[b] /\ (z[b].inUse <=> g[b] > 0)
  BY DEF CountedInv
<1> USE PoolAssumption DEF Contract!Blocks
<1> HIDE DEF h, g, s, z
<1>2. CASE UNCHANGED <<s_blocks, HeldRefs>>
  BY <1>1, <1>2 DEF h, g, s, z
<1>3. CASE Contract!AllocFails
  BY <1>1, <1>3 DEF Contract!AllocFails, Contract!Pool_AllocFails, h, g, s, z
<1>4. ASSUME NEW b \in Blocks, Contract!Alloc(b)
      PROVE  /\ z \in [Blocks -> PayloadBlock]
             /\ g \in [Blocks -> 0 .. RefCountModulus - 1]
             /\ \A c \in Blocks : z[c].refCount = g[c] /\ (z[c].inUse <=> g[c] > 0)
  <2>1. z = [s EXCEPT ![b] = [inUse |-> TRUE, refCount |-> 1, sequence |-> 0]] /\ g = [h EXCEPT ![b] = 1]
    BY <1>4 DEF Contract!Alloc, Contract!Pool_AllocSucceeds, h, g, s, z
  <2> QED
    BY <1>1, <2>1 DEF PayloadBlock
<1>5. ASSUME NEW b \in Blocks, Contract!AddRef(b)
      PROVE  /\ z \in [Blocks -> PayloadBlock]
             /\ g \in [Blocks -> 0 .. RefCountModulus - 1]
             /\ \A c \in Blocks : z[c].refCount = g[c] /\ (z[c].inUse <=> g[c] > 0)
  <2>1. h[b] > 0 /\ h[b] < RefCountModulus - 1 /\ Contract!Pool_AddRef(b) /\ g = [h EXCEPT ![b] = @ + 1]
    BY <1>5 DEF Contract!AddRef, h, g
  <2>2. s[b].inUse /\ (h[b] + 1) % RefCountModulus = h[b] + 1
    BY <1>1, <2>1
  <2>3. z = [s EXCEPT ![b].refCount = h[b] + 1]
    BY <1>1, <2>1, <2>2 DEF Contract!Pool_AddRef, Blocks, s, z
  <2> QED
    BY <1>1, <2>1, <2>2, <2>3 DEF PayloadBlock
<1>6. ASSUME NEW b \in Blocks, Contract!Release(b)
      PROVE  /\ z \in [Blocks -> PayloadBlock]
             /\ g \in [Blocks -> 0 .. RefCountModulus - 1]
             /\ \A c \in Blocks : z[c].refCount = g[c] /\ (z[c].inUse <=> g[c] > 0)
  <2>1. h[b] > 0 /\ Contract!Pool_Free(b) /\ g = [h EXCEPT ![b] = @ - 1]
    BY <1>6 DEF Contract!Release, h, g
  <2>2. s[b].inUse /\ s[b] \in PayloadBlock /\ s[b].refCount = h[b]
    BY <1>1, <2>1
  <2>3. CASE h[b] > 1
    <3>1. z = [s EXCEPT ![b].refCount = h[b] - 1]
      BY <1>1, <2>1, <2>2, <2>3 DEF Contract!Pool_Free, Blocks, s, z
    <3> QED
      BY <1>1, <2>1, <2>2, <2>3, <3>1 DEF PayloadBlock
  <2>4. CASE h[b] = 1
    <3>1. z = [s EXCEPT ![b] = ZeroBlock]
      BY <2>1, <2>2, <2>4 DEF Contract!Pool_Free, Contract!ZeroBlock, ZeroBlock, Blocks, s, z
    <3> QED
      BY <1>1, <2>1, <2>2, <2>4, <3>1 DEF PayloadBlock, ZeroBlock
  <2> QED
    BY <1>1, <2>1, <2>3, <2>4
<1>7. ASSUME NEW b \in Blocks, NEW n \in 1 .. MaxFrames, Contract!Fill(b, n)
      PROVE  /\ z \in [Blocks -> PayloadBlock]
             /\ g \in [Blocks -> 0 .. RefCountModulus - 1]
             /\ \A c \in Blocks : z[c].refCount = g[c] /\ (z[c].inUse <=> g[c] > 0)
  <2>1. z = [s EXCEPT ![b].sequence = n] /\ g = h
    BY <1>7 DEF Contract!Fill, h, g, s, z
  <2> QED
    BY <1>1, <2>1 DEF PayloadBlock
<1>8. ASSUME NEW b \in Blocks, NEW n \in 1 .. RefCountModulus - 1, Contract!Share(b, n)
      PROVE  /\ z \in [Blocks -> PayloadBlock]
             /\ g \in [Blocks -> 0 .. RefCountModulus - 1]
             /\ \A c \in Blocks : z[c].refCount = g[c] /\ (z[c].inUse <=> g[c] > 0)
  <2>1. h[b] = 1 /\ Contract!Pool_SetRefCount(b, n) /\ g = [h EXCEPT ![b] = n]
    BY <1>8 DEF Contract!Share, h, g
  <2>2. s[b].inUse
    BY <1>1, <2>1
  <2>3. z = [s EXCEPT ![b].refCount = n]
    BY <2>1, <2>2 DEF Contract!Pool_SetRefCount, Blocks, s, z
  <2> QED
    BY <1>1, <2>1, <2>2, <2>3 DEF PayloadBlock
<1> QED
  BY <1>2, <1>3, <1>4, <1>5, <1>6, <1>7, <1>8 DEF ContractStep, Contract!PoolNext, Blocks

\* The numbers of references are numbers, and publishFrameReady has as many left
\* as there are subscribers that the loop has not reached.
LEMMA UnsentRefs ==
  ASSUME FrameInv
  PROVE  /\ \A b \in Blocks : SensorRefs(b) \in Nat /\ Cardinality(References(b)) \in Nat
         /\ \A b \in Blocks : References(b) # {} => Cardinality(References(b)) > 0
         /\ fpc = "publish" => /\ Cardinality(SentTo) \in Nat
                               /\ Cardinality(SentTo) <= subscriberCount
                               /\ pc[Sensor] = "send" /\ InLoop(Sensor) =>
                                    Cardinality(SentTo) < subscriberCount
<1>0. /\ TypeOK /\ LoopBounds /\ FrameType /\ SensorInv /\ PendingInv /\ ProgressInv
      /\ \A b \in Blocks : IsFiniteSet(References(b))
  BY DEF FrameInv, StaticInv, BaseInv, UseInv
<1>1. /\ \A b \in Blocks : Cardinality(References(b)) \in Nat
      /\ \A b \in Blocks : References(b) # {} => Cardinality(References(b)) > 0
  BY <1>0, FS_CardinalityType, FS_EmptySet
<1>2. ASSUME fpc = "publish"
      PROVE  /\ Cardinality(SentTo) \in Nat /\ Cardinality(SentTo) <= subscriberCount
             /\ pc[Sensor] = "send" /\ InLoop(Sensor) => Cardinality(SentTo) < subscriberCount
  <2>1. /\ IsFiniteSet(SentTo) /\ subscriberCount = Len(subscribers[FrameSite.topic])
        /\ pc[Sensor] \in PCs /\ idx[Sensor] \in Nat /\ accepted[Sensor] \in Nat
        /\ subscriberCount \in Nat
    BY <1>0, <1>2, FrameFacts DEF ProgressInv, SensorInv, TypeOK, FrameType
  <2>2. Cardinality(SentTo) \in Nat
    BY <2>1, FS_CardinalityType
  <2>3. CASE pc[Sensor] \in {"store", "reload", "alloc", "lock", "publish"}
    BY <1>0, <1>2, <2>1, <2>3, FS_EmptySet DEF ProgressInv
  <2>4. CASE pc[Sensor] \in {"send", "drop", "dropped"}
    <3>1. evt[Sensor].topic = FrameSite.topic
      BY <1>0, <1>2, <2>4 DEF PendingInv
    <3>2. /\ idx[Sensor] <= subscriberCount + 1 /\ Cardinality(SentTo) <= idx[Sensor] - 1
          /\ InLoop(Sensor) => idx[Sensor] <= subscriberCount
      BY <1>0, <1>2, <2>1, <2>4, <3>1, FrameFacts DEF ProgressInv, LoopBounds, Offering, InLoop
    <3> QED
      BY <2>1, <2>2, <3>2
  <2>5. CASE pc[Sensor] = "sent"
    <3>1. evt[Sensor].topic = FrameSite.topic
      BY <1>0, <1>2, <2>5 DEF PendingInv
    <3>2. idx[Sensor] <= subscriberCount /\ Cardinality(SentTo) <= idx[Sensor]
      BY <1>0, <1>2, <2>1, <2>5, <3>1, FrameFacts DEF ProgressInv, LoopBounds, Offering
    <3> QED
      BY <2>1, <2>2, <2>5, <3>2
  <2>6. CASE pc[Sensor] = "idle"
    BY <1>0, <1>2, <2>2, <2>6 DEF ProgressInv
  <2> QED
    BY <2>1, <2>3, <2>4, <2>5, <2>6 DEF PCs, PublishSteps
<1>3. ASSUME NEW b \in Blocks PROVE SensorRefs(b) \in Nat
  BY <1>0, <1>2 DEF SensorRefs, SensorInv, FrameType, Owning
<1> QED
  BY <1>1, <1>2, <1>3

\* What Pool_Free leaves of a block that has further references.
LEMMA FreeEffect ==
  ASSUME CountedInv, NEW b \in Blocks, HeldRefs[b] > 0, Pool_Free(b)
  PROVE  /\ \A c \in Blocks : c # b => s_blocks'[c] = s_blocks[c]
         /\ HeldRefs[b] > 1 => /\ s_blocks'[b].inUse
                               /\ s_blocks'[b].sequence = s_blocks[b].sequence
<1>1. /\ s_blocks \in [Blocks -> PayloadBlock] /\ s_blocks[b] \in PayloadBlock
      /\ s_blocks[b].inUse /\ s_blocks[b].refCount = HeldRefs[b]
  BY DEF CountedInv
<1>2. CASE HeldRefs[b] > 1
  <2>1. s_blocks' = [s_blocks EXCEPT ![b].refCount = s_blocks[b].refCount - 1]
    BY <1>1, <1>2 DEF Pool_Free
  <2> QED
    BY <1>1, <2>1 DEF PayloadBlock
<1>3. CASE ~(HeldRefs[b] > 1)
  BY <1>1, <1>3 DEF Pool_Free
<1> QED
  BY <1>2, <1>3

\* A step that changes neither the references nor the blocks.
LEMMA SameData ==
  ASSUME FrameInv,
         UNCHANGED <<s_blocks, fpc, frame, frameSeq, subscriberCount, freeIdx>>,
         \A q \in Queues : Outstanding(q)' = Outstanding(q),
         \A q \in Queues : \A k \in Outstanding(q) : Delivered(q)'[k] = Delivered(q)[k],
         \A b \in Blocks : References(b)' = References(b),
         SentTo' = SentTo
  PROVE  /\ UnsentInv' /\ FilledInv' /\ FrameIntact' /\ ContractStep
         /\ \A b \in Blocks : IsFiniteSet(References(b)')
<1>0. /\ UnsentInv /\ FilledInv /\ FrameIntact /\ SensorInv
      /\ \A b \in Blocks : IsFiniteSet(References(b))
  BY DEF FrameInv, UseInv
<1>1. \A b : SensorRefs(b)' = SensorRefs(b)
  BY DEF SensorRefs
<1>2. HeldRefs' = HeldRefs
  BY <1>1, HeldSame
<1>3. UnsentInv'
  <2>1. fpc \in {"fill", "count", "setref"} => frame \in Blocks
    BY <1>0 DEF SensorInv, Owning
  <2> QED
    BY <1>0, <2>1 DEF UnsentInv
<1>4. FilledInv'
  BY <1>0, <1>1 DEF FilledInv
<1>5. FrameIntact'
  BY <1>0 DEF FrameIntact
<1> QED
  BY <1>0, <1>2, <1>3, <1>4, <1>5, ContractCalls

-----------------------------------------------------------------------------
(* Steps of the bus.                                                       *)

\* A step that touches no queue, given that it respects publishFrameReady.
LEMMA QuietUse ==
  ASSUME FrameInv, SensorInv', PendingInv', ProgressInv',
         UNCHANGED <<queue, received, s_blocks, frameVars>>
  PROVE  UseInv' /\ ContractStep
<1>0. FrameType /\ AnnouncedInv /\ HandledInv
  BY DEF FrameInv, UseInv
<1>1. UNCHANGED <<queue, received, s_blocks, fpc, frame, frameSeq, subscriberCount, freeIdx, holding>>
  BY DEF frameVars
<1>2. /\ \A q \in Queues : Delivered(q)' = Delivered(q) /\ Outstanding(q)' = Outstanding(q)
      /\ \A b \in Blocks : References(b)' = References(b)
      /\ SentTo' = SentTo
  BY <1>1, SameView
<1>3. /\ UnsentInv' /\ FilledInv' /\ FrameIntact' /\ ContractStep
      /\ \A b \in Blocks : IsFiniteSet(References(b)')
  BY <1>1, <1>2, SameData
<1>4. FrameType' /\ AnnouncedInv' /\ HandledInv'
  BY <1>0, <1>1, <1>2 DEF FrameType, AnnouncedInv, HandledInv, Handled
<1> QED
  BY <1>3, <1>4 DEF UseInv

\* Bus_Subscribe runs before publishFrameReady.
LEMMA SubscribeUse ==
  ASSUME FrameInv, Bus_Subscribe, UNCHANGED <<s_blocks, frameVars>>
  PROVE  UseInv' /\ ContractStep
<1>1. /\ UNCHANGED <<queue, received, pc, evt, fpc, frameVars>>
      /\ fpc = "idle"
      /\ \A p \in Tasks : pc[p] = "idle"
  BY DEF FrameInv, UseInv, SensorInv, StaticInv, BaseInv, Bus_Subscribe, localVars, frameVars
<1>2. SensorInv' /\ PendingInv' /\ ProgressInv'
  BY <1>1, FrameFacts DEF SensorInv, PendingInv, ProgressInv, Owning
<1> QED
  BY <1>1, <1>2, QuietUse

\* The other publications are on other topics.
LEMMA OtherPublishUse ==
  ASSUME FrameInv, OtherPublish
  PROVE  UseInv' /\ ContractStep
<1>0. TypeOK /\ SensorInv /\ PendingInv /\ ProgressInv
  BY DEF FrameInv, UseInv, StaticInv, BaseInv
<1>1. PICK p \in Tasks, site \in CallSites :
        (p = Sensor => fpc = "idle") /\ MakeEvent_Load(p, site, NoPayload)
  BY DEF OtherPublish
<1>2. /\ UNCHANGED <<queue, received, s_blocks, frameVars>> /\ UNCHANGED <<booted, subscribers, idx, accepted>>
      /\ Running
      /\ pc' = [pc EXCEPT ![p] = "store"]
      /\ evt'[p].topic = site.topic /\ \A r \in Tasks : r # p => evt'[r] = evt[r]
  BY <1>0, <1>1, ZenonT(60) DEF OtherPublish, MakeEvent_Load, registryVars, TypeOK
<1>3. /\ \A r \in Tasks : r # p => pc'[r] = pc[r]
      /\ pc'[p] = "store" /\ site.topic # FrameSite.topic
      /\ UNCHANGED <<fpc, frame, frameSeq, subscriberCount, freeIdx, holding>>
  BY <1>0, <1>2, FrameFacts DEF TypeOK, frameVars
<1>4. SentTo' = SentTo
  BY <1>2, <1>3, SameView
<1>5. SensorInv'
  BY <1>0, <1>1, <1>2, <1>3, FrameFacts DEF SensorInv, Running, Owning
<1>6. PendingInv'
  BY <1>0, <1>1, <1>2, <1>3, FrameFacts DEF PendingInv
<1>7. ProgressInv'
  BY <1>0, <1>1, <1>2, <1>3, <1>4, FrameFacts DEF ProgressInv, FirstSubs
<1> QED
  BY <1>2, <1>5, <1>6, <1>7, QuietUse

\* What a step of a publish call leaves alone.
LEMMA PublishEffect ==
  ASSUME TypeOK, NEW p \in Tasks, PublishStep(p)
  PROVE  /\ UNCHANGED <<booted, subscribers, received>>
         /\ \A r \in Tasks : r # p => /\ pc'[r] = pc[r] /\ evt'[r] = evt[r]
                                      /\ idx'[r] = idx[r] /\ accepted'[r] = accepted[r]
         /\ pc[p] # "idle"
         /\ evt'[p].topic = evt[p].topic /\ evt'[p].payload = evt[p].payload
         /\ queue' = queue \/ SendAccepted(p)
<1>1. /\ pc \in [Tasks -> PCs] /\ evt \in [Tasks -> Event] /\ idx \in [Tasks -> Nat]
      /\ accepted \in [Tasks -> Nat]
  BY DEF TypeOK
<1> USE <1>1 DEF registryVars, localVars
<1>2. CASE MakeEvent_Store(p) \/ Publish_TakeLock(p) \/ SendRejected(p) \/ IncrementDropCount(p)
           \/ Publish_Return(p)
  BY <1>2 DEF MakeEvent_Store, Publish_TakeLock, SendRejected, IncrementDropCount, Publish_Return
<1>3. CASE MakeEvent_Reload(p)
  BY <1>3 DEF MakeEvent_Reload, Event
<1>4. CASE AllocateEventId(p)
  BY <1>4 DEF AllocateEventId, Event
<1>5. CASE Publish_Begin(p) \/ CountDelivered(p) \/ CountDropped(p)
  BY <1>5 DEF Publish_Begin, CountDelivered, CountDropped
<1>6. CASE SendAccepted(p)
  BY <1>6 DEF SendAccepted
<1> QED
  BY <1>2, <1>3, <1>4, <1>5, <1>6 DEF PublishStep

\* A publish call on another topic leaves the frame's call where it is.
LEMMA OtherControl ==
  ASSUME FrameInv, NEW p \in Tasks, PublishStep(p), UNCHANGED <<s_blocks, frameVars>>,
         p # Sensor \/ fpc # "publish", SentTo' = SentTo
  PROVE  SensorInv' /\ PendingInv' /\ ProgressInv'
<1>0. TypeOK /\ SensorInv /\ PendingInv /\ ProgressInv
  BY DEF FrameInv, UseInv, StaticInv, BaseInv
<1>1. /\ UNCHANGED <<booted, subscribers, received>>
      /\ \A r \in Tasks : r # p => /\ pc'[r] = pc[r] /\ evt'[r] = evt[r]
                                   /\ idx'[r] = idx[r] /\ accepted'[r] = accepted[r]
      /\ pc[p] # "idle"
      /\ evt'[p].topic = evt[p].topic
  BY <1>0, PublishEffect
<1>2. UNCHANGED <<fpc, frame, frameSeq, subscriberCount, freeIdx, holding>>
  BY DEF frameVars
<1>3. SensorInv'
  BY <1>0, <1>1, <1>2, FrameFacts DEF SensorInv, Running, Owning
<1>4. PendingInv'
  BY <1>0, <1>1, <1>2, FrameFacts DEF PendingInv
<1>5. ProgressInv'
  BY <1>0, <1>1, <1>2, FrameFacts DEF ProgressInv, FirstSubs
<1> QED
  BY <1>3, <1>4, <1>5

\* The steps of the frame's own call between the sends.
LEMMA FrameControl ==
  ASSUME FrameInv, PublishStep(Sensor), fpc = "publish", queue' = queue,
         UNCHANGED <<s_blocks, frameVars>>
  PROVE  SensorInv' /\ PendingInv' /\ ProgressInv'
<1>0. /\ TypeOK /\ LoopBounds /\ SensorInv /\ PendingInv /\ ProgressInv /\ Sensor \in Tasks
      /\ UNCHANGED <<fpc, frame, frameSeq, subscriberCount, freeIdx, holding>>
  BY FrameFacts DEF FrameInv, UseInv, StaticInv, BaseInv, frameVars
<1>1. /\ UNCHANGED <<booted, subscribers, received>>
      /\ \A r \in Tasks : r # Sensor => pc'[r] = pc[r] /\ evt'[r] = evt[r]
      /\ pc[Sensor] # "idle"
      /\ evt'[Sensor].topic = evt[Sensor].topic /\ evt'[Sensor].payload = evt[Sensor].payload
  BY <1>0, PublishEffect
<1>2. SensorInv'
  BY <1>0, <1>1 DEF SensorInv, Running, Owning
<1>3. PendingInv'
  BY <1>0, <1>1 DEF PendingInv
<1>4. SentTo' = SentTo
  BY <1>0, <1>1, SameView
<1>5. /\ pc \in [Tasks -> PCs] /\ idx \in [Tasks -> Nat] /\ accepted \in [Tasks -> Nat]
      /\ accepted[Sensor] \in Nat /\ idx[Sensor] \in Nat /\ idx[Sensor] >= 1
      /\ evt[Sensor].topic = FrameSite.topic
      /\ subscriberCount = Len(subscribers[FrameSite.topic]) /\ subscriberCount \in Nat
  BY <1>0, <1>1 DEF TypeOK, LoopBounds, PendingInv, SensorInv, FrameInv, UseInv, FrameType
<1>6. IsFiniteSet(SentTo) /\ \A n : FirstSubs(n)' = FirstSubs(n)
  BY <1>0, <1>1 DEF ProgressInv, FirstSubs
<1>7. ProgressInv'
  <2> USE DEF registryVars, localVars
  <2>1. CASE /\ UNCHANGED <<idx, accepted>>
             /\ \/ /\ pc[Sensor] \in {"store", "reload", "alloc", "lock"}
                   /\ pc'[Sensor] \in {"reload", "alloc", "lock", "publish"}
                \/ pc[Sensor] = "send" /\ pc'[Sensor] = "drop"
                \/ pc[Sensor] = "drop" /\ pc'[Sensor] = "dropped"
    BY <1>0, <1>4, <1>6, <2>1 DEF ProgressInv
  <2>2. CASE MakeEvent_Store(Sensor) \/ MakeEvent_Reload(Sensor) \/ AllocateEventId(Sensor)
             \/ Publish_TakeLock(Sensor) \/ SendRejected(Sensor) \/ IncrementDropCount(Sensor)
    BY <1>0, <1>5, <2>1, <2>2 DEF MakeEvent_Store, MakeEvent_Reload, AllocateEventId,
       Publish_TakeLock, SendRejected, IncrementDropCount
  <2>3. CASE Publish_Begin(Sensor)
    <3>1. pc[Sensor] = "publish" /\ pc'[Sensor] = "send" /\ idx'[Sensor] = 1 /\ accepted'[Sensor] = 0
      BY <1>0, <1>5, <2>3 DEF Publish_Begin
    <3>2. SentTo = {} /\ Cardinality(SentTo) = 0
      BY <1>0, <3>1, FS_EmptySet DEF ProgressInv
    <3> QED
      BY <1>4, <1>6, <3>1, <3>2 DEF ProgressInv
  <2>4. CASE SendAccepted(Sensor)
    <3>1. queue'[Current(Sensor)] = Append(queue[Current(Sensor)], evt[Sensor])
          /\ queue[Current(Sensor)] \in Seq(Event)
      <4>1. Current(Sensor) \in Queues
        BY <1>0, <1>5, <2>4, CurrentType DEF SendAccepted
      <4> QED
        BY <1>0, <2>4, <4>1 DEF SendAccepted, TypeOK
    <3>2. Len(queue'[Current(Sensor)]) = Len(queue[Current(Sensor)]) + 1
          /\ Len(queue[Current(Sensor)]) \in Nat
      BY <3>1
    <3> QED
      BY <3>2
  <2>5. CASE CountDelivered(Sensor)
    <3>1. /\ pc[Sensor] = "sent" /\ pc'[Sensor] = "send"
          /\ idx'[Sensor] = idx[Sensor] + 1 /\ accepted'[Sensor] = accepted[Sensor] + 1
      BY <1>0, <1>5, <2>5 DEF CountDelivered
    <3>2. /\ Cardinality(SentTo) = accepted[Sensor] + 1
          /\ accepted[Sensor] <= idx[Sensor] - 1
          /\ SentTo \subseteq FirstSubs(idx[Sensor])
      BY <1>0, <3>1 DEF ProgressInv
    <3>3. idx'[Sensor] - 1 = idx[Sensor] /\ accepted'[Sensor] <= idx'[Sensor] - 1
      <4> DEFINE i == idx[Sensor]
                 a == accepted[Sensor]
                 j == idx'[Sensor]
                 c == accepted'[Sensor]
      <4>1. i \in Nat /\ a \in Nat /\ a <= i - 1 /\ j = i + 1 /\ c = a + 1
        BY <1>5, <3>1, <3>2
      <4> HIDE DEF i, a, j, c
      <4>2. j - 1 = i /\ c <= j - 1
        BY <4>1
      <4> QED
        BY <4>2 DEF i, a, j, c
    <3>4. SentTo \subseteq FirstSubs(idx'[Sensor] - 1)
      BY <3>2, <3>3
    <3> QED
      BY <1>4, <1>6, <3>1, <3>2, <3>3, <3>4 DEF ProgressInv
  <2>6. CASE CountDropped(Sensor)
    <3>1. /\ pc[Sensor] = "dropped" /\ pc'[Sensor] = "send"
          /\ idx'[Sensor] = idx[Sensor] + 1 /\ accepted'[Sensor] = accepted[Sensor]
      BY <1>0, <1>5, <2>6 DEF CountDropped
    <3>2. /\ Cardinality(SentTo) = accepted[Sensor]
          /\ accepted[Sensor] <= idx[Sensor] - 1
          /\ SentTo \subseteq FirstSubs(idx[Sensor] - 1)
      BY <1>0, <3>1 DEF ProgressInv
    <3>3. idx'[Sensor] - 1 = idx[Sensor] /\ accepted'[Sensor] <= idx'[Sensor] - 1
      <4> DEFINE i == idx[Sensor]
                 a == accepted[Sensor]
                 j == idx'[Sensor]
                 c == accepted'[Sensor]
      <4>1. i \in Nat /\ a \in Nat /\ a <= i - 1 /\ j = i + 1 /\ c = a
        BY <1>5, <3>1, <3>2
      <4> HIDE DEF i, a, j, c
      <4>2. j - 1 = i /\ c <= j - 1
        BY <4>1
      <4> QED
        BY <4>2 DEF i, a, j, c
    <3>4. FirstSubs(idx[Sensor] - 1) \subseteq FirstSubs(idx[Sensor])
      BY <1>5 DEF FirstSubs
    <3>5. SentTo \subseteq FirstSubs(idx'[Sensor] - 1)
      BY <3>2, <3>3, <3>4
    <3> QED
      BY <1>4, <1>6, <3>1, <3>2, <3>3, <3>5 DEF ProgressInv
  <2>7. CASE Publish_Return(Sensor)
    <3>1. pc[Sensor] = "send" /\ ~InLoop(Sensor) /\ pc'[Sensor] = "idle" /\ accepted' = accepted
      BY <1>0, <1>5, <2>7 DEF Publish_Return
    <3>2. Cardinality(SentTo) = accepted[Sensor] /\ accepted[Sensor] <= idx[Sensor] - 1
      BY <1>0, <3>1 DEF ProgressInv
    <3>3. idx[Sensor] <= subscriberCount + 1
      BY <1>0, <1>5, <3>1 DEF LoopBounds
    <3>4. accepted[Sensor] <= subscriberCount
      BY <1>5, <3>2, <3>3
    <3> QED
      BY <1>0, <1>4, <1>6, <3>1, <3>2, <3>4 DEF ProgressInv
  <2> QED
    BY <2>2, <2>3, <2>4, <2>5, <2>6, <2>7 DEF PublishStep
<1> QED
  BY <1>2, <1>3, <1>7

\* What a send does to the state.
LEMMA SendEffect ==
  ASSUME FrameInv, NEW p \in Tasks, SendAccepted(p), UNCHANGED <<s_blocks, frameVars>>
  PROVE  /\ Current(p) \in Queues /\ evt[p] \in Event
         /\ queue' = [queue EXCEPT ![Current(p)] = Append(queue[Current(p)], evt[p])]
         /\ UNCHANGED <<received, s_blocks, fpc, frame, frameSeq, subscriberCount, freeIdx, holding>>
         /\ UNCHANGED <<booted, subscribers, evt, idx, accepted>>
         /\ pc' = [pc EXCEPT ![p] = "sent"] /\ pc[p] = "send" /\ InLoop(p)
<1>1. TypeOK /\ LoopBounds
  BY DEF FrameInv, StaticInv, BaseInv
<1>2. Current(p) \in Queues
  BY <1>1, CurrentType DEF SendAccepted, LoopBounds
<1> QED
  BY <1>1, <1>2 DEF SendAccepted, TypeOK, registryVars, localVars, frameVars

\* A send on another topic.
LEMMA OtherSendUse ==
  ASSUME FrameInv, NEW p \in Tasks, SendAccepted(p), UNCHANGED <<s_blocks, frameVars>>,
         evt[p].topic # FrameSite.topic
  PROVE  UseInv' /\ ContractStep
<1>0. /\ TypeOK /\ FrameType /\ PendingInv /\ AnnouncedInv /\ HandledInv
  BY DEF FrameInv, UseInv, StaticInv, BaseInv
<1>1. PICK c \in Queues, e \in Event :
      /\ e.topic # FrameSite.topic
      /\ queue' = [queue EXCEPT ![c] = Append(queue[c], e)]
      /\ UNCHANGED <<received, s_blocks, fpc, frame, frameSeq, subscriberCount, freeIdx, holding>>
      /\ pc[p] = "send"
  BY SendEffect
<1>2. /\ \A q \in Queues : Outstanding(q)' = Outstanding(q)
      /\ \A q \in Queues : \A k \in Outstanding(q) : Delivered(q)'[k] = Delivered(q)[k]
      /\ \A b \in Blocks : References(b)' = References(b)
      /\ SentTo' = SentTo
  BY <1>0, <1>1, OtherSend
<1>3. /\ UnsentInv' /\ FilledInv' /\ FrameIntact' /\ ContractStep
      /\ \A b \in Blocks : IsFiniteSet(References(b)')
  BY <1>1, <1>2, SameData
<1>4. p # Sensor \/ fpc # "publish"
  BY <1>0, <1>1 DEF PendingInv
<1>5. SensorInv' /\ PendingInv' /\ ProgressInv'
  BY <1>2, <1>4, OtherControl DEF PublishStep
<1>6. AnnouncedInv'
  <2>1. /\ \A q \in Queues : q # c => Delivered(q)' = Delivered(q)
        /\ DOMAIN Delivered(c)' = DOMAIN Delivered(c) \cup {NextPlace(c)}
        /\ \A k \in DOMAIN Delivered(c) : Delivered(c)'[k] = Delivered(c)[k]
        /\ Delivered(c)'[NextPlace(c)] = e
    BY <1>0, <1>1, SendPlaces
  <2> QED
    BY <1>0, <1>1, <2>1 DEF AnnouncedInv
<1>7. FrameType' /\ HandledInv'
  BY <1>0, <1>1 DEF FrameType, HandledInv, Handled
<1> QED
  BY <1>3, <1>5, <1>6, <1>7 DEF UseInv

\* A send of the frame hands over one of the references.
LEMMA FrameSendUse ==
  ASSUME FrameInv, NEW p \in Tasks, SendAccepted(p), UNCHANGED <<s_blocks, frameVars>>,
         evt[p].topic = FrameSite.topic
  PROVE  UseInv' /\ ContractStep
<1>0. /\ TypeOK /\ FrameType /\ SensorInv /\ PendingInv /\ ProgressInv /\ AnnouncedInv
      /\ HandledInv /\ FilledInv /\ FrameIntact /\ SubscriberInv /\ CountedInv
      /\ \A b \in Blocks : IsFiniteSet(References(b))
  BY DEF FrameInv, UseInv, StaticInv, BaseInv
<1> DEFINE subs == subscribers[FrameSite.topic]
           i == idx[Sensor]
           a == accepted[Sensor]
<1>1. PICK c \in Queues, e \in Event :
      /\ c = Current(p) /\ e = evt[p] /\ e.topic = FrameSite.topic
      /\ queue' = [queue EXCEPT ![c] = Append(queue[c], e)]
      /\ UNCHANGED <<received, s_blocks, fpc, frame, frameSeq, subscriberCount, freeIdx, holding>>
      /\ UNCHANGED <<booted, subscribers, evt, idx, accepted>>
      /\ pc' = [pc EXCEPT ![p] = "sent"] /\ pc[p] = "send" /\ InLoop(p)
  BY SendEffect
<1>2. /\ p = Sensor /\ fpc = "publish"
      /\ e.payload = [ptr |-> frame, frame |-> frameSeq]
      /\ e.payload.ptr = frame /\ e.payload.frame = frameSeq
      /\ frame \in Blocks /\ frameSeq \in 1 .. MaxFrames /\ subscriberCount \in Nat
  BY <1>0, <1>1, FrameFacts DEF PendingInv, SensorInv, FrameType, Owning
<1>3. /\ subs \in Seq(Queues) /\ i \in Nat /\ i >= 1 /\ i <= Len(subs) /\ c = subs[i] /\ a \in Nat
  BY <1>0, <1>1, <1>2, FrameFacts DEF TypeOK, InLoop, Current, FrameInv, StaticInv, BaseInv, LoopBounds
<1>4. /\ IsFiniteSet(SentTo) /\ Cardinality(SentTo) = a /\ a <= i - 1
      /\ SentTo \subseteq FirstSubs(i - 1)
      /\ Cardinality(SentTo) < subscriberCount
  BY <1>0, <1>1, <1>2, UnsentRefs DEF ProgressInv
<1>5. c \notin SentTo
  <2>1. c \notin FirstSubs(i - 1)
    <3> SUFFICES ASSUME NEW k \in 1 .. i - 1, subs[k] = c PROVE FALSE
      BY DEF FirstSubs
    <3>1. k \in DOMAIN subs /\ i \in DOMAIN subs /\ k # i
      BY <1>3
    <3> QED
      BY <1>0, <1>3, <3>1, FrameFacts DEF SubscriberInv
  <2> QED
    BY <1>4, <2>1
<1>6. FirstSubs(i - 1) \cup {c} \subseteq FirstSubs(i)
  BY <1>3 DEF FirstSubs
<1> HIDE DEF subs, i, a
<1>7. /\ \A b \in Blocks : References(b)' = IF frame = b THEN References(b) \cup {<<c, NextPlace(c)>>}
                                                         ELSE References(b)
      /\ \A b \in Blocks : <<c, NextPlace(c)>> \notin References(b)
      /\ SentTo' = SentTo \cup {c}
  <2>1. /\ queue' = [queue EXCEPT ![c] = Append(queue[c], e)] /\ e.topic = FrameSite.topic
        /\ UNCHANGED <<received, holding, frameSeq>>
    BY <1>1
  <2>2. /\ \A b \in Blocks : References(b)' = IF e.payload.ptr = b
                                             THEN References(b) \cup {<<c, NextPlace(c)>>}
                                             ELSE References(b)
        /\ \A b \in Blocks : <<c, NextPlace(c)>> \notin References(b)
        /\ e.payload.frame = frameSeq => SentTo' = SentTo \cup {c}
    BY <1>0, <2>1, FrameSend
  <2>3. e.payload.ptr = frame /\ e.payload.frame = frameSeq
    BY <1>2
  <2> QED
    BY <2>2, <2>3
<1>8. IsFiniteSet(SentTo') /\ Cardinality(SentTo') = a + 1
  BY <1>4, <1>5, <1>7, FS_AddElement
<1>23. PICK f \in Blocks : f = frame
  BY <1>2
<1>9. /\ \A b \in Blocks : IsFiniteSet(References(b)')
      /\ Cardinality(References(f)') = Cardinality(References(f)) + 1
      /\ \A b \in Blocks : b # f => References(b)' = References(b)
  <2>1. References(f)' = References(f) \cup {<<c, NextPlace(c)>>}
    BY <1>7, <1>23
  <2>2. IsFiniteSet(References(f)) /\ <<c, NextPlace(c)>> \notin References(f)
    BY <1>0, <1>7
  <2>3. IsFiniteSet(References(f)') /\ Cardinality(References(f)') = Cardinality(References(f)) + 1
    BY <2>1, <2>2, FS_AddElement
  <2>4. \A b \in Blocks : b # f => References(b)' = References(b)
    BY <1>7, <1>23
  <2> QED
    BY <1>0, <2>3, <2>4
<1>10. /\ SensorRefs(f) = subscriberCount - a
       /\ SensorRefs(f)' = subscriberCount - (a + 1)
       /\ \A b \in Blocks : b # f => SensorRefs(b)' = SensorRefs(b)
  BY <1>1, <1>2, <1>4, <1>8, <1>23 DEF SensorRefs
<1>11. HeldRefs' = HeldRefs
  <2>1. Cardinality(References(f)) \in Nat
    BY UnsentRefs
  <2>2. SensorRefs(f)' + Cardinality(References(f)')
          = SensorRefs(f) + Cardinality(References(f))
    BY <1>2, <1>3, <1>9, <1>10, <2>1
  <2> QED
    BY <1>9, <1>10, <2>2, HeldSame
<1>12. ContractStep
  BY <1>1, <1>11, ContractCalls
<1>13. SensorRefs(frame) > 0 /\ s_blocks[frame].sequence = frameSeq
  <2>1. a \in Nat
    BY <1>3
  <2> QED
    BY <1>0, <1>2, <1>4, <1>10, <1>23, <2>1 DEF FilledInv
<1>14. s_blocks[frame].inUse
  <2>1. HeldRefs[frame] = SensorRefs(frame) + Cardinality(References(frame))
    BY <1>2, HeldAt
  <2>2. HeldRefs[frame] > 0
    BY <1>2, <1>13, <2>1, UnsentRefs
  <2> QED
    BY <1>0, <1>2, <2>2 DEF CountedInv
<1>15. /\ \A q \in Queues : q # c => Delivered(q)' = Delivered(q) /\ Outstanding(q)' = Outstanding(q)
       /\ DOMAIN Delivered(c)' = DOMAIN Delivered(c) \cup {NextPlace(c)}
       /\ \A k \in DOMAIN Delivered(c) : Delivered(c)'[k] = Delivered(c)[k]
       /\ Delivered(c)'[NextPlace(c)] = e
       /\ Outstanding(c)' = Outstanding(c) \cup {NextPlace(c)}
  BY <1>0, <1>1, SendPlaces
<1>16. AnnouncedInv'
  <2>1. e.payload \in FramePayload /\ e.payload.frame <= frameSeq
    BY <1>2, FrameFacts DEF FramePayload
  <2> QED
    BY <1>0, <1>1, <1>15, <2>1 DEF AnnouncedInv
<1>17. FrameIntact'
  <2>1. Outstanding(c) \subseteq DOMAIN Delivered(c)
    BY DEF Outstanding
  <2> QED
    BY <1>0, <1>1, <1>2, <1>13, <1>14, <1>15, <2>1 DEF FrameIntact
<1>18. FilledInv' /\ UnsentInv'
  BY <1>1, <1>2, <1>13 DEF FilledInv, UnsentInv
<1>19. FrameType' /\ HandledInv'
  BY <1>0, <1>1 DEF FrameType, HandledInv, Handled
<1>20. pc'[Sensor] = "sent" /\ \A r \in Tasks : r # Sensor => pc'[r] = pc[r]
  BY <1>0, <1>1, <1>2, FrameFacts DEF TypeOK
<1>21. SensorInv' /\ PendingInv'
  BY <1>0, <1>1, <1>2, <1>20 DEF SensorInv, PendingInv, Running, Owning
<1>22. ProgressInv'
  <2>1. SentTo' \subseteq FirstSubs(i)
    BY <1>4, <1>6, <1>7
  <2>2. FirstSubs(idx[Sensor])' = FirstSubs(idx[Sensor])
    BY <1>1 DEF FirstSubs
  <2> QED
    BY <1>1, <1>2, <1>4, <1>8, <1>20, <2>1, <2>2 DEF ProgressInv, i, a
<1> QED
  BY <1>9, <1>12, <1>16, <1>17, <1>18, <1>19, <1>21, <1>22 DEF UseInv

\* Every step of a publish call.
LEMMA PublishUse ==
  ASSUME FrameInv, NEW p \in Tasks, PublishStep(p), UNCHANGED <<s_blocks, frameVars>>
  PROVE  UseInv' /\ ContractStep
<1>0. TypeOK
  BY DEF FrameInv, StaticInv, BaseInv
<1>1. UNCHANGED received /\ (queue' = queue \/ SendAccepted(p))
  BY <1>0, PublishEffect
<1>2. CASE SendAccepted(p)
  BY <1>2, OtherSendUse, FrameSendUse
<1>3. CASE queue' = queue
  <2>1. SentTo' = SentTo
    BY <1>1, <1>3, SameView DEF frameVars
  <2>2. SensorInv' /\ PendingInv' /\ ProgressInv'
    BY <1>3, <2>1, OtherControl, FrameControl
  <2> QED
    BY <1>1, <1>3, <2>2, QuietUse
<1> QED
  BY <1>1, <1>2, <1>3

-----------------------------------------------------------------------------
(* Steps of the subscriber tasks.                                          *)

\* A task takes an event from its queue.
LEMMA ReceiveUse ==
  ASSUME FrameInv, NEW r \in Queues, Receive(r)
  PROVE  UseInv' /\ ContractStep
<1>0. /\ TypeOK /\ FrameType /\ SensorInv /\ PendingInv /\ ProgressInv /\ AnnouncedInv
      /\ HandledInv /\ holding \in [Queues -> BOOLEAN]
  BY DEF FrameInv, UseInv, StaticInv, BaseInv, FrameType
<1>1. /\ \A q \in Queues : Delivered(q)' = Delivered(q) /\ Outstanding(q)' = Outstanding(q)
      /\ \A b \in Blocks : References(b)' = References(b)
      /\ SentTo' = SentTo
  BY <1>0, ReceiveView
<1>2. /\ UNCHANGED <<s_blocks, fpc, frame, frameSeq, subscriberCount, freeIdx>>
      /\ UNCHANGED <<booted, subscribers, pc, evt, idx, accepted>>
      /\ holding' = [holding EXCEPT ![r] = (Head(queue[r]).topic = FrameSite.topic)]
      /\ received' = [received EXCEPT ![r] = Append(received[r], Head(queue[r]))]
      /\ queue[r] # <<>>
  BY DEF Receive, XQueueReceive, registryVars, localVars
<1>3. /\ UnsentInv' /\ FilledInv' /\ FrameIntact' /\ ContractStep
      /\ \A b \in Blocks : IsFiniteSet(References(b)')
  BY <1>1, <1>2, SameData
<1>4. SensorInv' /\ PendingInv' /\ ProgressInv' /\ AnnouncedInv' /\ FrameType'
  <2>1. holding' \in [Queues -> BOOLEAN]
    BY <1>0, <1>2
  <2>2. SensorInv' /\ PendingInv'
    BY <1>0, <1>2 DEF SensorInv, PendingInv, Running
  <2>3. ProgressInv'
    BY <1>0, <1>1, <1>2 DEF ProgressInv, FirstSubs
  <2>4. AnnouncedInv'
    BY <1>0, <1>1, <1>2 DEF AnnouncedInv
  <2> QED
    BY <1>0, <1>2, <2>1, <2>2, <2>3, <2>4 DEF FrameType
<1>5. HandledInv'
  <2> SUFFICES ASSUME NEW q \in Queues, holding'[q]
               PROVE  received'[q] # <<>> /\ Handled(q)'.topic = FrameSite.topic
    BY DEF HandledInv
  <2>1. CASE q # r
    BY <1>0, <1>2, <2>1 DEF HandledInv, Handled, TypeOK
  <2>2. CASE q = r
    <3> DEFINE x == Head(queue[r]).topic = FrameSite.topic
               s == received[r]
               h == Head(queue[r])
    <3>1. holding' = [holding EXCEPT ![r] = x] /\ received'[r] = Append(s, h) /\ s \in Seq(Event)
      BY <1>0, <1>2 DEF TypeOK
    <3>2. h \in Event
      <4>1. queue[r] \in Seq(Event)
        BY <1>0 DEF TypeOK
      <4> QED
        BY <1>2, <4>1
    <3> HIDE DEF x, s, h
    <3>3. x
      BY <1>0, <2>2, <3>1
    <3>4. Append(s, h) # <<>> /\ Append(s, h)[Len(Append(s, h))] = h
      BY <3>1, <3>2
    <3>5. received'[q] # <<>> /\ Handled(q)' = h
      BY <2>2, <3>1, <3>4 DEF Handled
    <3> QED
      BY <3>3, <3>5 DEF x, h
  <2> QED
    BY <2>1, <2>2
<1> QED
  BY <1>3, <1>4, <1>5 DEF UseInv

\* A task frees the frame that it has handled.
LEMMA ReleaseUse ==
  ASSUME FrameInv, NEW r \in Queues, ReleaseFrame(r)
  PROVE  UseInv' /\ ContractStep
<1>0. /\ TypeOK /\ FrameType /\ SensorInv /\ PendingInv /\ ProgressInv /\ AnnouncedInv
      /\ UnsentInv /\ HandledInv /\ FilledInv /\ FrameIntact /\ CountedInv
      /\ holding \in [Queues -> BOOLEAN]
      /\ \A b \in Blocks : IsFiniteSet(References(b))
  BY DEF FrameInv, UseInv, StaticInv, BaseInv, FrameType
<1>1. PICK b, pl : b = Handled(r).payload.ptr /\ pl = HandledPlace(r)
  OBVIOUS
<1>2. /\ \A q \in Queues : Delivered(q)' = Delivered(q) /\ Outstanding(q)' \subseteq Outstanding(q)
      /\ \A q \in Queues : \A k \in Outstanding(q)' : <<q, k>> # pl
      /\ pl \in References(b)
      /\ \A c \in Blocks : References(c)' = References(c) \ {pl}
      /\ SentTo' = SentTo
  BY <1>0, <1>1, ReleaseView
<1>3. /\ UNCHANGED <<fpc, frame, frameSeq, subscriberCount, freeIdx, queue, received>>
      /\ UNCHANGED <<booted, subscribers, pc, evt, idx, accepted>>
      /\ holding' = [holding EXCEPT ![r] = FALSE]
      /\ holding[r] /\ Pool_Free(b)
  BY <1>1 DEF ReleaseFrame, vars
<1>4. b \in Blocks
  <2>1. /\ received[r] # <<>> /\ Handled(r).topic = FrameSite.topic
    BY <1>0, <1>3 DEF HandledInv
  <2>2. /\ Len(received[r]) \in DOMAIN Delivered(r)
        /\ Delivered(r)[Len(received[r])] = Handled(r)
    BY <1>0, <2>1, Places
  <2>3. Handled(r).payload \in FramePayload
    BY <1>0, <2>1, <2>2 DEF AnnouncedInv
  <2> QED
    BY <1>1, <2>3 DEF FramePayload
<1>5. \A c \in Blocks : c # b => pl \notin References(c)
  <2> SUFFICES ASSUME NEW c \in Blocks, pl \in References(c) PROVE c = b
    OBVIOUS
  <2>1. PICK q \in Queues : pl \in {q} \X {k \in Outstanding(q) : Delivered(q)[k].payload.ptr = c}
    BY DEF References
  <2>2. PICK u \in Queues : pl \in {u} \X {k \in Outstanding(u) : Delivered(u)[k].payload.ptr = b}
    BY <1>2 DEF References
  <2> QED
    BY <2>1, <2>2
<1>6. /\ \A c \in Blocks : c # b => References(c)' = References(c)
      /\ IsFiniteSet(References(b)')
      /\ Cardinality(References(b)') = Cardinality(References(b)) - 1
      /\ \A c \in Blocks : IsFiniteSet(References(c)')
  <2>1. \A c \in Blocks : c # b => References(c)' = References(c)
    BY <1>2, <1>5
  <2>2. IsFiniteSet(References(b)) /\ References(b)' = References(b) \ {pl} /\ pl \in References(b)
    BY <1>0, <1>2, <1>4
  <2>3. IsFiniteSet(References(b)') /\ Cardinality(References(b)') = Cardinality(References(b)) - 1
    BY <2>2, FS_RemoveElement
  <2> QED
    BY <1>0, <2>1, <2>3
<1>7. \A c : SensorRefs(c)' = SensorRefs(c)
  BY <1>2, <1>3 DEF SensorRefs
<1>8. /\ Cardinality(References(b)) \in Nat /\ Cardinality(References(b)) > 0 /\ SensorRefs(b) \in Nat
      /\ HeldRefs[b] = SensorRefs(b) + Cardinality(References(b))
  BY <1>2, <1>4, UnsentRefs, HeldAt
<1>9. HeldRefs[b] > 0 /\ HeldRefs' = [HeldRefs EXCEPT ![b] = HeldRefs[b] - 1]
  <2>1. SensorRefs(b)' + Cardinality(References(b)') = HeldRefs[b] - 1 /\ HeldRefs[b] > 0
    <3> DEFINE x == SensorRefs(b)
               y == Cardinality(References(b))
               v == SensorRefs(b)'
               w == Cardinality(References(b)')
    <3>1. x \in Nat /\ y \in Nat /\ y > 0 /\ v = x /\ w = y - 1 /\ HeldRefs[b] = x + y
      BY <1>6, <1>7, <1>8
    <3> HIDE DEF x, y, v, w
    <3>2. v + w = x + y - 1 /\ x + y > 0
      BY <3>1
    <3> QED
      BY <3>1, <3>2 DEF v, w
  <2> QED
    BY <1>4, <1>6, <1>7, <2>1, HeldOne
<1>10. ContractStep
  BY <1>3, <1>4, <1>9, ContractCalls
<1>11. /\ \A c \in Blocks : c # b => s_blocks'[c] = s_blocks[c]
       /\ HeldRefs[b] > 1 => s_blocks'[b].inUse /\ s_blocks'[b].sequence = s_blocks[b].sequence
  BY <1>0, <1>3, <1>4, <1>9, FreeEffect
<1>12. FrameIntact'
  <2> SUFFICES ASSUME NEW q \in Queues, NEW k \in Outstanding(q)'
               PROVE  /\ s_blocks'[Delivered(q)[k].payload.ptr].inUse
                      /\ s_blocks'[Delivered(q)[k].payload.ptr].sequence = Delivered(q)[k].payload.frame
    BY <1>2 DEF FrameIntact
  <2>1. /\ k \in Outstanding(q) /\ <<q, k>> # pl
        /\ s_blocks[Delivered(q)[k].payload.ptr].inUse
        /\ s_blocks[Delivered(q)[k].payload.ptr].sequence = Delivered(q)[k].payload.frame
    BY <1>0, <1>2 DEF FrameIntact
  <2>2. CASE Delivered(q)[k].payload.ptr = b
    <3>1. <<q, k>> \in References(b)
      <4>1. <<q, k>> \in {q} \X {j \in Outstanding(q) : Delivered(q)[j].payload.ptr = b}
        BY <2>1, <2>2
      <4> QED
        BY <4>1 DEF References
    <3>2. References(b)' # {}
      BY <1>2, <1>4, <2>1, <3>1
    <3>3. Cardinality(References(b)') \in Nat /\ Cardinality(References(b)') > 0
      BY <1>6, <3>2, FS_CardinalityType, FS_EmptySet
    <3>4. HeldRefs[b] > 1
      BY <1>6, <1>8, <3>3
    <3> QED
      BY <1>11, <2>1, <2>2, <3>4
  <2>3. CASE Delivered(q)[k].payload.ptr # b
    <3>1. Delivered(q)[k].payload.ptr \in Blocks
      <4>1. Delivered(q)[k].payload \in FramePayload
        BY <1>0, <2>1 DEF AnnouncedInv, Outstanding
      <4> QED
        BY <4>1 DEF FramePayload
    <3> QED
      BY <1>11, <2>1, <2>3, <3>1
  <2> QED
    BY <2>2, <2>3
<1>13. FilledInv'
  <2> SUFFICES ASSUME fpc \in {"count", "setref", "make", "publish"}, SensorRefs(frame) > 0
               PROVE  s_blocks'[frame].sequence = frameSeq
    BY <1>3, <1>7 DEF FilledInv
  <2>1. frame \in Blocks /\ s_blocks[frame].sequence = frameSeq
    BY <1>0 DEF FilledInv, SensorInv, Owning
  <2>2. frame = b => HeldRefs[b] > 1
    BY <1>8
  <2> QED
    BY <1>11, <2>1, <2>2
<1>14. UnsentInv'
  <2>1. fpc \in {"fill", "count", "setref"} => frame \in Blocks
    BY <1>0 DEF SensorInv, Owning
  <2> QED
    BY <1>0, <1>2, <1>3, <2>1 DEF UnsentInv
<1>15. SensorInv' /\ PendingInv' /\ ProgressInv' /\ AnnouncedInv' /\ FrameType'
  <2>1. holding' \in [Queues -> BOOLEAN]
    BY <1>0, <1>3
  <2>2. SensorInv' /\ PendingInv'
    BY <1>0, <1>3 DEF SensorInv, PendingInv, Running
  <2>3. ProgressInv'
    BY <1>0, <1>2, <1>3 DEF ProgressInv, FirstSubs
  <2>4. AnnouncedInv'
    BY <1>0, <1>2, <1>3 DEF AnnouncedInv
  <2> QED
    BY <1>0, <1>3, <2>1, <2>2, <2>3, <2>4 DEF FrameType
<1>16. HandledInv'
  BY <1>0, <1>3 DEF HandledInv, Handled
<1> QED
  BY <1>6, <1>10, <1>12, <1>13, <1>14, <1>15, <1>16 DEF UseInv

-----------------------------------------------------------------------------
(* Steps of publishFrameReady.                                             *)

\* What a step between two bus calls leaves alone.
LEMMA BetweenCalls ==
  ASSUME FrameInv, pc[Sensor] = "idle", UNCHANGED <<vars, holding>>,
         frameSeq' \in {frameSeq, frameSeq + 1}
  PROVE  /\ PendingInv' /\ AnnouncedInv' /\ HandledInv'
         /\ \A b \in Blocks : IsFiniteSet(References(b)') /\ References(b)' = References(b)
         /\ \A q \in Queues : Delivered(q)' = Delivered(q) /\ Outstanding(q)' = Outstanding(q)
         /\ frameSeq' = frameSeq => SentTo' = SentTo
         /\ UNCHANGED <<booted, subscribers, pc, evt>>
<1>0. /\ PendingInv /\ AnnouncedInv /\ HandledInv /\ FrameType
      /\ \A b \in Blocks : IsFiniteSet(References(b))
  BY DEF FrameInv, UseInv
<1>1. UNCHANGED <<booted, subscribers, pc, evt, queue, received, holding>>
  BY DEF vars
<1>2. /\ \A q \in Queues : Delivered(q)' = Delivered(q) /\ Outstanding(q)' = Outstanding(q)
      /\ \A b \in Blocks : References(b)' = References(b)
      /\ frameSeq' = frameSeq => SentTo' = SentTo
  BY <1>1, SameView
<1>3. PendingInv' /\ HandledInv'
  BY <1>0, <1>1 DEF PendingInv, HandledInv, Handled
<1>4. AnnouncedInv'
  <2> SUFFICES ASSUME NEW q \in Queues, NEW k \in DOMAIN Delivered(q),
                      Delivered(q)[k].topic = FrameSite.topic
               PROVE  /\ Delivered(q)[k].payload \in FramePayload
                      /\ Delivered(q)[k].payload.frame <= frameSeq'
    BY <1>2 DEF AnnouncedInv
  <2>1. Delivered(q)[k].payload \in FramePayload /\ Delivered(q)[k].payload.frame <= frameSeq
    BY <1>0 DEF AnnouncedInv
  <2>2. Delivered(q)[k].payload.frame \in Nat /\ frameSeq \in Nat
    BY <1>0, <2>1, FrameFacts DEF FramePayload, FrameType
  <2> QED
    BY <2>1, <2>2
<1> QED
  BY <1>0, <1>1, <1>2, <1>3, <1>4

\* No event that waits or is handled points to a block with no reference.
LEMMA Unreferenced ==
  ASSUME NEW b, References(b) = {}, NEW q \in Queues, NEW k \in Outstanding(q)
  PROVE  Delivered(q)[k].payload.ptr # b
<1> SUFFICES ASSUME Delivered(q)[k].payload.ptr = b PROVE FALSE
  OBVIOUS
<1>1. <<q, k>> \in {q} \X {j \in Outstanding(q) : Delivered(q)[j].payload.ptr = b}
  OBVIOUS
<1> QED
  BY <1>1 DEF References

\* A change of a block that no event refers to changes no frame that is announced.
LEMMA IntactElsewhere ==
  ASSUME FrameInv, NEW b \in Blocks, References(b) = {},
         \A c \in Blocks : c # b => s_blocks'[c] = s_blocks[c],
         \A q \in Queues : Delivered(q)' = Delivered(q) /\ Outstanding(q)' = Outstanding(q)
  PROVE  FrameIntact'
<1>0. AnnouncedInv /\ FrameIntact
  BY DEF FrameInv, UseInv
<1> SUFFICES ASSUME NEW q \in Queues, NEW k \in Outstanding(q)
             PROVE  /\ s_blocks'[Delivered(q)[k].payload.ptr].inUse
                    /\ s_blocks'[Delivered(q)[k].payload.ptr].sequence = Delivered(q)[k].payload.frame
  BY DEF FrameIntact
<1>1. Delivered(q)[k].payload.ptr # b
  BY Unreferenced
<1>2. Delivered(q)[k].payload.ptr \in Blocks
  <2>1. Delivered(q)[k].payload \in FramePayload
    BY <1>0 DEF AnnouncedInv, Outstanding
  <2> QED
    BY <2>1 DEF FramePayload
<1> QED
  BY <1>0, <1>1, <1>2 DEF FrameIntact

\* Pool_Alloc finds no block: the fault is published next.
LEMMA AllocFailsUse ==
  ASSUME FrameInv, Frame_Alloc, frame' = NULL
  PROVE  /\ UseInv' /\ ContractStep
         /\ FreeBlocks = {}
         /\ \A b \in Blocks : References(b) # {}
<1>0. /\ FrameType /\ SensorInv /\ FrameIntact /\ CountedInv
      /\ Running /\ fpc = "idle" /\ pc[Sensor] = "idle" /\ frameSeq < MaxFrames
      /\ frameSeq' = frameSeq + 1 /\ UNCHANGED <<vars, subscriberCount, freeIdx, holding>>
      /\ \A b \in Blocks : IsFiniteSet(References(b))
  BY DEF FrameInv, UseInv, Frame_Alloc, At
<1>1. NULL \notin Blocks
  BY PoolAssumption DEF NULL, Blocks
<1>2. Pool_AllocFails /\ fpc' = "fault"
  BY <1>1 DEF Frame_Alloc
<1>3. /\ PendingInv' /\ AnnouncedInv' /\ HandledInv'
      /\ \A b \in Blocks : IsFiniteSet(References(b)') /\ References(b)' = References(b)
      /\ \A q \in Queues : Delivered(q)' = Delivered(q) /\ Outstanding(q)' = Outstanding(q)
      /\ UNCHANGED <<booted, subscribers, pc, evt>>
  BY <1>0, BetweenCalls
<1>4. \A b \in Blocks : SensorRefs(b)' = 0 /\ SensorRefs(b) = 0
  BY <1>0, <1>1, <1>2 DEF SensorRefs
<1>5. HeldRefs' = HeldRefs
  BY <1>3, <1>4, HeldSame
<1>6. ContractStep
  BY <1>2, <1>5, ContractCalls
<1>7. FrameIntact'
  BY <1>0, <1>2, <1>3 DEF FrameIntact, Pool_AllocFails
<1>8. /\ SensorInv' /\ ProgressInv' /\ UnsentInv' /\ FilledInv' /\ FrameType'
  <2>1. frameSeq' \in 0 .. MaxFrames
    BY <1>0, FrameFacts DEF FrameType
  <2> QED
    BY <1>0, <1>2, <1>3, <2>1 DEF SensorInv, ProgressInv, UnsentInv, FilledInv, FrameType, Running, Owning
<1>9. \A b \in Blocks : References(b) # {}
  <2> SUFFICES ASSUME NEW b \in Blocks, References(b) = {} PROVE FALSE
    OBVIOUS
  <2>1. s_blocks[b].inUse
    BY <1>2 DEF Pool_AllocFails, FreeBlocks
  <2>2. HeldRefs[b] > 0
    BY <1>0, <2>1 DEF CountedInv
  <2>3. HeldRefs[b] = 0 + Cardinality({})
    BY <1>4, HeldAt
  <2> QED
    BY <2>2, <2>3, FS_EmptySet
<1> QED
  BY <1>2, <1>3, <1>6, <1>7, <1>8, <1>9 DEF UseInv, Pool_AllocFails

\* Pool_Alloc finds a block, which nobody refers to.
LEMMA AllocUse ==
  ASSUME FrameInv, Frame_Alloc, frame' # NULL
  PROVE  UseInv' /\ ContractStep
<1>0. /\ FrameType /\ SensorInv /\ AnnouncedInv /\ CountedInv
      /\ Running /\ fpc = "idle" /\ pc[Sensor] = "idle" /\ frameSeq < MaxFrames
      /\ frameSeq' = frameSeq + 1 /\ UNCHANGED <<vars, subscriberCount, freeIdx, holding>>
  BY DEF FrameInv, UseInv, Frame_Alloc, At
<1>1. PICK b \in Blocks : Pool_AllocSucceeds(b) /\ frame' = b /\ fpc' = "fill"
  BY DEF Frame_Alloc
<1>2. /\ PendingInv' /\ AnnouncedInv' /\ HandledInv'
      /\ \A c \in Blocks : IsFiniteSet(References(c)') /\ References(c)' = References(c)
      /\ \A q \in Queues : Delivered(q)' = Delivered(q) /\ Outstanding(q)' = Outstanding(q)
      /\ UNCHANGED <<booted, subscribers, pc, evt>>
  BY <1>0, BetweenCalls
<1>3. /\ \A c \in Blocks : SensorRefs(c) = 0
      /\ SensorRefs(b)' = 1
      /\ \A c \in Blocks : c # b => SensorRefs(c)' = 0
  BY <1>0, <1>1 DEF SensorRefs
<1>4. References(b) = {} /\ Cardinality(References(b)) = 0
  <2>1. ~s_blocks[b].inUse
    BY <1>1 DEF Pool_AllocSucceeds, FreeBlocks
  <2>2. ~(HeldRefs[b] > 0)
    BY <1>0, <2>1 DEF CountedInv
  <2>3. HeldRefs[b] = 0 + Cardinality(References(b)) /\ Cardinality(References(b)) \in Nat
    BY <1>3, HeldAt, UnsentRefs
  <2>4. ~(Cardinality(References(b)) > 0)
    BY <2>2, <2>3
  <2> QED
    BY <2>4, UnsentRefs, FS_EmptySet
<1>5. HeldRefs' = [HeldRefs EXCEPT ![b] = 1]
  <2>1. SensorRefs(b)' + Cardinality(References(b)') = 1
    BY <1>2, <1>3, <1>4
  <2> QED
    BY <1>2, <1>3, <2>1, HeldOne
<1>6. ContractStep
  BY <1>1, <1>5, ContractCalls
<1>7. FrameIntact'
  <2>1. \A c \in Blocks : c # b => s_blocks'[c] = s_blocks[c]
    BY <1>0, <1>1 DEF Pool_AllocSucceeds, CountedInv
  <2> QED
    BY <1>2, <1>4, <2>1, IntactElsewhere
<1>8. SentTo' = {}
  <2> SUFFICES ASSUME NEW q \in Queues, NEW k \in DOMAIN Delivered(q),
                      Delivered(q)[k].topic = FrameSite.topic
               PROVE  Delivered(q)[k].payload.frame # frameSeq'
    BY <1>2 DEF SentTo
  <2>1. Delivered(q)[k].payload \in FramePayload /\ Delivered(q)[k].payload.frame <= frameSeq
    BY <1>0 DEF AnnouncedInv
  <2>2. Delivered(q)[k].payload.frame \in Nat /\ frameSeq \in Nat
    BY <1>0, <2>1, FrameFacts DEF FramePayload, FrameType
  <2> QED
    BY <1>0, <2>1, <2>2
<1>9. UnsentInv'
  BY <1>1, <1>2, <1>4, <1>8 DEF UnsentInv
<1>10. /\ SensorInv' /\ ProgressInv' /\ FilledInv' /\ FrameType'
  <2>1. frameSeq' \in 0 .. MaxFrames /\ frameSeq' > 0
    BY <1>0, FrameFacts DEF FrameType
  <2> QED
    BY <1>0, <1>1, <1>2, <2>1 DEF SensorInv, ProgressInv, FilledInv, FrameType, Running, Owning
<1> QED
  BY <1>2, <1>6, <1>7, <1>9, <1>10 DEF UseInv

\* A step that only moves publishFrameReady on.
LEMMA MovesOn ==
  ASSUME FrameInv, UNCHANGED <<queue, received, s_blocks, frame, frameSeq, holding>>,
         \A b \in Blocks : SensorRefs(b)' = SensorRefs(b),
         FrameType', SensorInv', PendingInv', ProgressInv',
         fpc' = "setref" => fpc = "count", fpc' = "publish" => fpc = "make",
         fpc' \notin {"fill", "count", "make"}
  PROVE  UseInv' /\ ContractStep
<1>0. /\ FrameType /\ SensorInv /\ AnnouncedInv /\ HandledInv /\ UnsentInv /\ FilledInv /\ FrameIntact
      /\ \A b \in Blocks : IsFiniteSet(References(b))
  BY DEF FrameInv, UseInv
<1>1. /\ \A q \in Queues : Delivered(q)' = Delivered(q) /\ Outstanding(q)' = Outstanding(q)
      /\ \A b \in Blocks : References(b)' = References(b)
      /\ SentTo' = SentTo
  BY SameView
<1>2. HeldRefs' = HeldRefs
  BY <1>1, HeldSame
<1>3. ContractStep
  BY <1>2, ContractCalls
<1>4. AnnouncedInv' /\ HandledInv' /\ FrameIntact'
  BY <1>0, <1>1 DEF AnnouncedInv, HandledInv, Handled, FrameIntact
<1>5. fpc' \in {"setref", "publish"} => frame \in Blocks
  BY <1>0 DEF SensorInv, Owning
<1>6. FilledInv'
  <2> SUFFICES ASSUME fpc' \in {"setref", "publish"}, SensorRefs(frame)' > 0
               PROVE  s_blocks[frame].sequence = frameSeq
    BY DEF FilledInv
  <2>1. PICK b \in Blocks : b = frame /\ b = frame'
    BY <1>5
  <2>2. SensorRefs(b) > 0
    BY <2>1
  <2> QED
    BY <1>0, <2>1, <2>2 DEF FilledInv
<1>7. UnsentInv'
  <2> SUFFICES ASSUME fpc' = "setref" PROVE SentTo = {} /\ References(frame)' = {}
    BY <1>1 DEF UnsentInv
  <2> QED
    BY <1>0, <1>1, <1>5 DEF UnsentInv
<1> QED
  BY <1>0, <1>1, <1>3, <1>4, <1>6, <1>7 DEF UseInv

\* The fault is published on its own topic.
LEMMA FaultUse ==
  ASSUME FrameInv, Frame_Fault
  PROVE  UseInv' /\ ContractStep
<1>0. /\ TypeOK /\ FrameType /\ SensorInv /\ PendingInv /\ fpc = "fault" /\ fpc' = "idle"
      /\ pc[Sensor] = "idle" /\ MakeEvent_Load(Sensor, FaultSite, NoPayload)
      /\ UNCHANGED <<s_blocks, frame, frameSeq, subscriberCount, freeIdx, holding>>
  BY DEF FrameInv, UseInv, StaticInv, BaseInv, Frame_Fault, At
<1>1. /\ UNCHANGED <<queue, received, booted, subscribers>>
      /\ \A r \in Tasks : r # Sensor => pc'[r] = pc[r] /\ evt'[r] = evt[r]
      /\ evt'[Sensor].topic = FaultSite.topic
  BY <1>0, FrameFacts DEF MakeEvent_Load, registryVars, TypeOK
<1>2. FrameType' /\ SensorInv' /\ ProgressInv'
  BY <1>0, <1>1 DEF FrameType, SensorInv, ProgressInv, Owning
<1>3. PendingInv'
  BY <1>0, <1>1, FrameFacts DEF PendingInv
<1>4. \A b \in Blocks : SensorRefs(b)' = SensorRefs(b)
  BY <1>0 DEF SensorRefs
<1> QED
  BY <1>0, <1>1, <1>2, <1>3, <1>4, MovesOn

\* The frame is filled in while nobody else has it.
LEMMA FillUse ==
  ASSUME FrameInv, Frame_Fill
  PROVE  UseInv' /\ ContractStep
<1>0. /\ FrameType /\ SensorInv /\ UnsentInv /\ CountedInv
      /\ fpc = "fill" /\ fpc' = "count" /\ pc[Sensor] = "idle"
      /\ s_blocks' = [s_blocks EXCEPT ![frame].sequence = frameSeq]
      /\ UNCHANGED <<vars, frame, frameSeq, subscriberCount, freeIdx, holding>>
  BY DEF FrameInv, UseInv, Frame_Fill, At
<1>1. PICK b \in Blocks : b = frame /\ b = frame'
  BY <1>0 DEF SensorInv, Owning
<1>2. /\ PendingInv' /\ AnnouncedInv' /\ HandledInv'
      /\ \A c \in Blocks : IsFiniteSet(References(c)') /\ References(c)' = References(c)
      /\ \A q \in Queues : Delivered(q)' = Delivered(q) /\ Outstanding(q)' = Outstanding(q)
      /\ SentTo' = SentTo
      /\ UNCHANGED <<booted, subscribers, pc, evt>>
  BY <1>0, BetweenCalls
<1>3. SensorRefs(b) = 1 /\ \A c \in Blocks : SensorRefs(c)' = SensorRefs(c)
  BY <1>0, <1>1 DEF SensorRefs
<1>4. References(b) = {} /\ HeldRefs[b] = 1 /\ HeldRefs' = HeldRefs
  <2>1. References(b) = {}
    BY <1>0, <1>1 DEF UnsentInv
  <2>2. Cardinality(References(b)) = 0
    BY <2>1, FS_EmptySet
  <2> QED
    BY <1>2, <1>3, <2>1, <2>2, HeldAt, HeldSame
<1>5. frameSeq \in 1 .. MaxFrames
  BY <1>0, FrameFacts DEF SensorInv, FrameType, Owning
<1>6. ContractStep
  BY <1>0, <1>1, <1>4, <1>5, ContractCalls
<1>7. /\ \A c \in Blocks : c # b => s_blocks'[c] = s_blocks[c]
      /\ s_blocks'[b].sequence = frameSeq
  <2>1. s_blocks \in [Blocks -> PayloadBlock] /\ s_blocks[b] \in PayloadBlock
    BY <1>0 DEF CountedInv
  <2> QED
    BY <1>0, <1>1, <2>1 DEF PayloadBlock
<1>8. FrameIntact'
  BY <1>2, <1>4, <1>7, IntactElsewhere
<1>9. UnsentInv' /\ FilledInv'
  BY <1>0, <1>1, <1>2, <1>4, <1>7 DEF UnsentInv, FilledInv
<1>10. /\ SensorInv' /\ ProgressInv' /\ FrameType'
  BY <1>0, <1>2 DEF SensorInv, ProgressInv, FrameType, Running, Owning
<1> QED
  BY <1>2, <1>6, <1>8, <1>9, <1>10 DEF UseInv

\* publishFrameReady gives up one of its references.
LEMMA SensorFrees ==
  ASSUME FrameInv, pc[Sensor] = "idle", UNCHANGED <<vars, frame, frameSeq, holding>>,
         NEW b \in Blocks, Pool_Free(b),
         SensorRefs(b) > 0, SensorRefs(b)' = SensorRefs(b) - 1,
         \A c \in Blocks : c # b => SensorRefs(c)' = SensorRefs(c),
         fpc' \in {"idle", "free"}, FrameType', SensorInv'
  PROVE  UseInv' /\ ContractStep
<1>0. AnnouncedInv /\ FrameIntact /\ CountedInv
  BY DEF FrameInv, UseInv
<1>1. /\ PendingInv' /\ AnnouncedInv' /\ HandledInv'
      /\ \A c \in Blocks : IsFiniteSet(References(c)') /\ References(c)' = References(c)
      /\ \A q \in Queues : Delivered(q)' = Delivered(q) /\ Outstanding(q)' = Outstanding(q)
  BY BetweenCalls
<1>2. /\ HeldRefs[b] = SensorRefs(b) + Cardinality(References(b))
      /\ SensorRefs(b) \in Nat /\ Cardinality(References(b)) \in Nat
      /\ References(b) # {} => Cardinality(References(b)) > 0
  BY HeldAt, UnsentRefs
<1>3. HeldRefs[b] > 0 /\ HeldRefs' = [HeldRefs EXCEPT ![b] = HeldRefs[b] - 1]
  <2>1. SensorRefs(b)' + Cardinality(References(b)') = HeldRefs[b] - 1 /\ HeldRefs[b] > 0
    <3> DEFINE x == SensorRefs(b)
               y == Cardinality(References(b))
               v == SensorRefs(b)'
               w == Cardinality(References(b)')
    <3>1. x \in Nat /\ y \in Nat /\ x > 0 /\ v = x - 1 /\ w = y /\ HeldRefs[b] = x + y
      BY <1>1, <1>2
    <3> HIDE DEF x, y, v, w
    <3>2. v + w = x + y - 1 /\ x + y > 0
      BY <3>1
    <3> QED
      BY <3>1, <3>2 DEF v, w
  <2> QED
    BY <1>1, <2>1, HeldOne
<1>4. ContractStep
  BY <1>3, ContractCalls
<1>5. /\ \A c \in Blocks : c # b => s_blocks'[c] = s_blocks[c]
      /\ HeldRefs[b] > 1 => s_blocks'[b].inUse /\ s_blocks'[b].sequence = s_blocks[b].sequence
  BY <1>0, <1>3, FreeEffect
<1>6. FrameIntact'
  <2>1. CASE References(b) = {}
    BY <1>1, <1>5, <2>1, IntactElsewhere
  <2>2. CASE References(b) # {}
    <3>1. HeldRefs[b] > 1
      BY <1>2, <2>2
    <3>2. \A c \in Blocks : /\ s_blocks[c].inUse => s_blocks'[c].inUse
                            /\ s_blocks'[c].sequence = s_blocks[c].sequence
      BY <1>5, <3>1
    <3>3. ASSUME NEW q \in Queues, NEW k \in Outstanding(q)
          PROVE  Delivered(q)[k].payload.ptr \in Blocks
      <4>1. Delivered(q)[k].payload \in FramePayload
        BY <1>0 DEF AnnouncedInv, Outstanding
      <4> QED
        BY <4>1 DEF FramePayload
    <3> QED
      BY <1>0, <1>1, <3>2, <3>3 DEF FrameIntact
  <2> QED
    BY <2>1, <2>2
<1>7. UnsentInv' /\ FilledInv' /\ ProgressInv'
  BY DEF UnsentInv, FilledInv, ProgressInv
<1> QED
  BY <1>1, <1>4, <1>6, <1>7 DEF UseInv

\* With no subscriber the frame goes back, otherwise their number is noted.
LEMMA CountUse ==
  ASSUME FrameInv, Frame_CountSubscribers
  PROVE  UseInv' /\ ContractStep
<1>0. /\ TypeOK /\ FrameType /\ SensorInv /\ fpc = "count" /\ pc[Sensor] = "idle"
      /\ UNCHANGED <<vars, frame, frameSeq, freeIdx, holding>>
      /\ subscriberCount' = Len(subscribers[FrameSite.topic])
  BY DEF FrameInv, UseInv, StaticInv, BaseInv, Frame_CountSubscribers, Bus_GetSubscriberCount, At
<1>1. PICK b \in Blocks : b = frame /\ b = frame'
  BY <1>0 DEF SensorInv, Owning
<1>2. /\ UNCHANGED <<queue, received, booted, subscribers, pc, evt>> /\ PendingInv'
  BY <1>0, BetweenCalls DEF vars
<1>3. subscriberCount' \in Nat
  <2>1. subscribers[FrameSite.topic] \in Seq(Queues)
    BY <1>0, FrameFacts DEF TypeOK
  <2> QED
    BY <1>0, <2>1
<1>4. CASE subscriberCount' = 0
  <2>1. Pool_Free(b) /\ fpc' = "idle"
    BY <1>1, <1>4 DEF Frame_CountSubscribers
  <2>2. /\ SensorRefs(b) = 1 /\ SensorRefs(b)' = 0
        /\ \A c \in Blocks : c # b => SensorRefs(c)' = SensorRefs(c)
    BY <1>0, <1>1, <2>1 DEF SensorRefs
  <2>3. SensorRefs(b) > 0 /\ SensorRefs(b)' = SensorRefs(b) - 1
    BY <2>2
  <2>4. FrameType' /\ SensorInv'
    BY <1>0, <1>2, <1>3, <2>1 DEF FrameType, SensorInv, Owning
  <2> QED
    BY <1>0, <1>1, <2>1, <2>2, <2>3, <2>4, SensorFrees
<1>5. CASE subscriberCount' # 0
  <2>1. UNCHANGED s_blocks /\ fpc' = "setref"
    BY <1>5 DEF Frame_CountSubscribers
  <2>2. \A c \in Blocks : SensorRefs(c)' = SensorRefs(c)
    BY <1>0, <1>1, <2>1 DEF SensorRefs
  <2>3. FrameType' /\ SensorInv' /\ ProgressInv'
    BY <1>0, <1>2, <1>3, <1>5, <2>1 DEF FrameType, SensorInv, ProgressInv, Running, Owning
  <2> QED
    BY <1>0, <1>2, <2>1, <2>2, <2>3, MovesOn
<1> QED
  BY <1>4, <1>5

\* The one reference becomes one for each subscriber.
LEMMA SetRefCountUse ==
  ASSUME FrameInv, Frame_SetRefCount
  PROVE  UseInv' /\ ContractStep
<1>0. /\ TypeOK /\ FrameType /\ SensorInv /\ UnsentInv /\ FilledInv /\ CountedInv
      /\ fpc = "setref" /\ fpc' = "make" /\ pc[Sensor] = "idle"
      /\ Pool_SetRefCount(frame, subscriberCount)
      /\ UNCHANGED <<vars, frame, frameSeq, subscriberCount, freeIdx, holding>>
  BY DEF FrameInv, UseInv, StaticInv, BaseInv, Frame_SetRefCount, At
<1>1. PICK b \in Blocks : b = frame /\ b = frame'
  BY <1>0 DEF SensorInv, Owning
<1>2. PICK n \in 1 .. RefCountModulus - 1 : n = subscriberCount
  <2>1. /\ subscriberCount = Len(subscribers[FrameSite.topic]) /\ subscriberCount > 0
        /\ subscriberCount \in Nat
    BY <1>0 DEF SensorInv, FrameType
  <2>2. subscriberCount <= MAX_SUBSCRIBERS_PER_TOPIC
    BY <2>1, FrameFacts DEF FrameInv, StaticInv, SubscribersFit
  <2> QED
    BY <2>1, <2>2, FrameFacts, PoolAssumption
<1>3. /\ PendingInv' /\ AnnouncedInv' /\ HandledInv'
      /\ \A c \in Blocks : IsFiniteSet(References(c)') /\ References(c)' = References(c)
      /\ \A q \in Queues : Delivered(q)' = Delivered(q) /\ Outstanding(q)' = Outstanding(q)
      /\ SentTo' = SentTo
      /\ UNCHANGED <<booted, subscribers, pc, evt>>
  BY <1>0, BetweenCalls
<1>4. /\ SensorRefs(b) = 1 /\ SensorRefs(b)' = n
      /\ \A c \in Blocks : c # b => SensorRefs(c)' = SensorRefs(c)
  BY <1>0, <1>1, <1>2 DEF SensorRefs
<1>5. References(b) = {} /\ Cardinality(References(b)) = 0
  BY <1>0, <1>1, FS_EmptySet DEF UnsentInv
<1>6. HeldRefs[b] = 1 /\ HeldRefs' = [HeldRefs EXCEPT ![b] = n]
  <2>1. HeldRefs[b] = 1
    BY <1>4, <1>5, HeldAt
  <2>2. SensorRefs(b)' + Cardinality(References(b)') = n
    BY <1>2, <1>3, <1>4, <1>5
  <2> QED
    BY <1>3, <1>4, <2>1, <2>2, HeldOne
<1>7. ContractStep
  BY <1>0, <1>1, <1>2, <1>6, ContractCalls
<1>8. /\ \A c \in Blocks : c # b => s_blocks'[c] = s_blocks[c]
      /\ s_blocks'[b].sequence = s_blocks[b].sequence
  <2>1. s_blocks \in [Blocks -> PayloadBlock] /\ s_blocks[b] \in PayloadBlock
    BY <1>0 DEF CountedInv
  <2>2. s_blocks' = [s_blocks EXCEPT ![b].refCount = n] \/ s_blocks' = s_blocks
    BY <1>0, <1>1, <1>2 DEF Pool_SetRefCount
  <2> QED
    BY <2>1, <2>2 DEF PayloadBlock
<1>9. FrameIntact'
  BY <1>3, <1>5, <1>8, IntactElsewhere
<1>10. UnsentInv' /\ FilledInv'
  BY <1>0, <1>1, <1>3, <1>4, <1>8 DEF UnsentInv, FilledInv
<1>11. /\ SensorInv' /\ ProgressInv' /\ FrameType'
  BY <1>0, <1>3 DEF SensorInv, ProgressInv, FrameType, Running, Owning
<1> QED
  BY <1>3, <1>7, <1>9, <1>10, <1>11 DEF UseInv

\* The publish call begins: nobody has been sent the frame.
LEMMA BeginUse ==
  ASSUME FrameInv, Frame_Publish
  PROVE  UseInv' /\ ContractStep
<1>0. /\ TypeOK /\ FrameType /\ SensorInv /\ PendingInv /\ UnsentInv
      /\ fpc = "make" /\ fpc' = "publish" /\ pc[Sensor] = "idle"
      /\ MakeEvent_Load(Sensor, FrameSite, [ptr |-> frame, frame |-> frameSeq])
      /\ UNCHANGED <<s_blocks, frame, frameSeq, subscriberCount, freeIdx, holding>>
  BY DEF FrameInv, UseInv, StaticInv, BaseInv, Frame_Publish, At
<1>1. /\ UNCHANGED <<queue, received, booted, subscribers>>
      /\ pc'[Sensor] = "store"
      /\ \A r \in Tasks : r # Sensor => pc'[r] = pc[r] /\ evt'[r] = evt[r]
      /\ evt'[Sensor].topic = FrameSite.topic
      /\ evt'[Sensor].payload = [ptr |-> frame, frame |-> frameSeq]
  BY <1>0, FrameFacts DEF MakeEvent_Load, registryVars, TypeOK
<1>2. SentTo' = {} /\ SentTo = {} /\ IsFiniteSet({}) /\ Cardinality({}) = 0
  BY <1>0, <1>1, SameView, FS_EmptySet DEF UnsentInv
<1>3. \A b \in Blocks : SensorRefs(b)' = SensorRefs(b)
  BY <1>0, <1>2 DEF SensorRefs, FrameType
<1>4. FrameType' /\ SensorInv'
  BY <1>0, <1>1 DEF FrameType, SensorInv, Running, Owning
<1>5. ProgressInv'
  BY <1>1, <1>2 DEF ProgressInv
<1>6. PendingInv'
  BY <1>0, <1>1, FrameFacts DEF PendingInv
<1> QED
  BY <1>0, <1>1, <1>3, <1>4, <1>5, <1>6, MovesOn

\* The publish call has returned the number of queues that were sent the frame.
LEMMA PublishedUse ==
  ASSUME FrameInv, Frame_Published
  PROVE  UseInv' /\ ContractStep
<1>0. /\ TypeOK /\ FrameType /\ SensorInv /\ ProgressInv
      /\ fpc = "publish" /\ fpc' = "free" /\ pc[Sensor] = "idle" /\ freeIdx' = accepted[Sensor]
      /\ UNCHANGED <<vars, s_blocks, frame, frameSeq, subscriberCount, holding>>
  BY DEF FrameInv, UseInv, StaticInv, BaseInv, Frame_Published, At
<1>1. UNCHANGED <<queue, received, booted, subscribers, pc, evt>> /\ PendingInv'
  BY <1>0, BetweenCalls DEF vars
<1>2. /\ Cardinality(SentTo) = accepted[Sensor] /\ accepted[Sensor] <= subscriberCount
      /\ accepted[Sensor] \in Nat
  BY <1>0, FrameFacts DEF ProgressInv, TypeOK
<1>3. \A b \in Blocks : SensorRefs(b)' = SensorRefs(b)
  BY <1>0, <1>2 DEF SensorRefs
<1>4. FrameType' /\ SensorInv' /\ ProgressInv'
  BY <1>0, <1>1, <1>2 DEF FrameType, SensorInv, ProgressInv, Running, Owning
<1> QED
  BY <1>0, <1>1, <1>3, <1>4, MovesOn

\* A reference that no queue took is given up.
LEMMA FreeUnsentUse ==
  ASSUME FrameInv, Frame_FreeUnsent
  PROVE  UseInv' /\ ContractStep
<1>0. /\ FrameType /\ SensorInv /\ fpc = "free" /\ fpc' = "free" /\ pc[Sensor] = "idle"
      /\ freeIdx < subscriberCount /\ Pool_Free(frame) /\ freeIdx' = freeIdx + 1
      /\ UNCHANGED <<vars, frame, frameSeq, subscriberCount, holding>>
      /\ freeIdx \in Nat /\ subscriberCount \in Nat
  BY DEF FrameInv, UseInv, Frame_FreeUnsent, At, FrameType
<1>1. PICK b \in Blocks : b = frame /\ b = frame'
  BY <1>0 DEF SensorInv, Owning
<1>2. UNCHANGED <<booted, subscribers, pc>>
  BY <1>0 DEF vars
<1>3. /\ SensorRefs(b) = subscriberCount - freeIdx /\ SensorRefs(b)' = subscriberCount - (freeIdx + 1)
      /\ \A c \in Blocks : c # b => SensorRefs(c)' = SensorRefs(c)
  BY <1>0, <1>1 DEF SensorRefs
<1>4. SensorRefs(b) > 0 /\ SensorRefs(b)' = SensorRefs(b) - 1
  BY <1>0, <1>3
<1>5. FrameType' /\ SensorInv'
  BY <1>0, <1>2 DEF FrameType, SensorInv, Running, Owning
<1> QED
  BY <1>0, <1>1, <1>3, <1>4, <1>5, SensorFrees

\* All references have been handed over or given up.
LEMMA FreeDoneUse ==
  ASSUME FrameInv, Frame_FreeDone \/ Frame_Print
  PROVE  UseInv' /\ ContractStep
<1>0. /\ FrameType /\ SensorInv /\ fpc \in {"free", "print"} /\ pc[Sensor] = "idle"
      /\ UNCHANGED <<vars, s_blocks, frame, frameSeq, subscriberCount, freeIdx, holding>>
      /\ \/ fpc = "free" /\ fpc' = "print" /\ freeIdx >= subscriberCount
         \/ fpc = "print" /\ fpc' = "idle"
  BY DEF FrameInv, UseInv, Frame_FreeDone, Frame_Print, At
<1>1. UNCHANGED <<queue, received, booted, subscribers, pc, evt>> /\ PendingInv'
  BY <1>0, BetweenCalls DEF vars
<1>2. fpc = "free" => subscriberCount - freeIdx = 0
  BY <1>0 DEF SensorInv, FrameType
<1>3. \A b \in Blocks : SensorRefs(b)' = SensorRefs(b)
  BY <1>0, <1>2 DEF SensorRefs
<1>4. FrameType' /\ SensorInv' /\ ProgressInv'
  BY <1>0, <1>1 DEF FrameType, SensorInv, ProgressInv, Running, Owning
<1> QED
  BY <1>0, <1>1, <1>3, <1>4, MovesOn

-----------------------------------------------------------------------------
(* The theorems.                                                           *)

\* In the beginning there is nothing in the queues and no reference.
LEMMA FrameInvInit == FrameInit => FrameInv /\ Contract!PoolInit
<1> SUFFICES ASSUME FrameInit PROVE FrameInv /\ Contract!PoolInit
  OBVIOUS
<1>1. /\ Init /\ s_blocks = [b \in Blocks |-> ZeroBlock]
      /\ fpc = "idle" /\ frame = NULL /\ frameSeq = 0 /\ subscriberCount = 0 /\ freeIdx = 0
      /\ holding = [q \in Queues |-> FALSE]
  BY DEF FrameInit, Pool_Init
<1>2. BaseInv /\ TypeOK
  BY <1>1, BaseInit DEF BaseInv
<1>3. SubscriberInv /\ SubscribersFit
  <2>1. \A t \in Topics : subscribers[t] = <<>>
    BY <1>1 DEF Init
  <2> QED
    BY <2>1, FrameFacts DEF SubscriberInv, SubscribersFit
<1>4. \A q \in Queues : DOMAIN Delivered(q) = {}
  <2>1. \A q \in Queues : Delivered(q) = <<>> \o <<>>
    BY <1>1 DEF Init, Delivered
  <2> QED
    BY <2>1
<1>5. \A q \in Queues : Outstanding(q) = {}
  BY <1>4 DEF Outstanding
<1>6. \A b \in Blocks : References(b) = {}
  BY <1>5 DEF References
<1>7. /\ \A b \in Blocks : IsFiniteSet(References(b)) /\ Cardinality(References(b)) = 0
  BY <1>6, FS_EmptySet
<1>8. HeldRefs = [b \in Blocks |-> 0]
  <2>1. \A b \in Blocks : SensorRefs(b) = 0
    BY <1>1 DEF SensorRefs
  <2> QED
    BY <1>7, <2>1 DEF HeldRefs
<1>9. CountedInv
  BY <1>1, <1>8, PoolAssumption DEF CountedInv, PayloadBlock, ZeroBlock
<1>10. Contract!PoolInit
  BY <1>1, <1>8 DEF Contract!PoolInit, Contract!Pool_Init, Contract!ZeroBlock, ZeroBlock,
     Contract!Blocks, Blocks
<1>11. FrameType /\ SensorInv /\ PendingInv /\ ProgressInv /\ UnsentInv /\ HandledInv /\ FilledInv
  <2>1. \A p \in Tasks : pc[p] = "idle"
    BY <1>1 DEF Init
  <2> QED
    BY <1>1, <2>1, FrameFacts
       DEF FrameType, SensorInv, PendingInv, ProgressInv, UnsentInv, HandledInv, FilledInv, Owning
<1>12. AnnouncedInv /\ FrameIntact
  BY <1>4, <1>5 DEF AnnouncedInv, FrameIntact
<1> QED
  BY <1>2, <1>3, <1>7, <1>9, <1>10, <1>11, <1>12 DEF FrameInv, StaticInv, UseInv

\* Every step keeps the invariant and is a call that the contract allows.
LEMMA FrameInvNext == FrameInv /\ [FrameNext]_allVars => FrameInv' /\ ContractStep
<1> SUFFICES ASSUME FrameInv, [FrameNext]_allVars PROVE FrameInv' /\ ContractStep
  OBVIOUS
<1>1. CASE FrameNext
  <2>0. StaticInv /\ FrameType /\ SensorInv /\ CountedInv
    BY DEF FrameInv, UseInv
  <2>1. StaticInv'
    BY <1>1, <2>0, StaticNext
  <2>2. UseInv' /\ ContractStep
    <3>1. CASE Bus_Subscribe /\ UNCHANGED <<s_blocks, frameVars>>
      BY <3>1, SubscribeUse
    <3>2. CASE OtherPublish
      BY <3>2, OtherPublishUse
    <3>3. ASSUME NEW p \in Tasks, PublishStep(p) /\ UNCHANGED <<s_blocks, frameVars>>
          PROVE  UseInv' /\ ContractStep
      BY <3>3, PublishUse
    <3>4. CASE PublishFrameReady
      BY <3>4, AllocFailsUse, AllocUse, FaultUse, FillUse, CountUse, SetRefCountUse, BeginUse,
         PublishedUse, FreeUnsentUse, FreeDoneUse DEF PublishFrameReady
    <3>5. ASSUME NEW q \in Queues, Receive(q) \/ ReleaseFrame(q)
          PROVE  UseInv' /\ ContractStep
      BY <3>5, ReceiveUse, ReleaseUse
    <3>6. CASE FrameQuiescent
      <4>1. UNCHANGED <<queue, received, s_blocks, frameVars>>
            /\ UNCHANGED <<booted, subscribers, pc, evt, idx, accepted, fpc, frame, frameSeq,
                           subscriberCount, freeIdx>>
            /\ fpc = "idle"
        BY <3>6 DEF FrameQuiescent, Quiescent, vars, frameVars, At
      <4>2. SensorInv' /\ PendingInv' /\ ProgressInv'
        BY <4>1 DEF FrameInv, UseInv, SensorInv, PendingInv, ProgressInv, Running, Owning
      <4> QED
        BY <4>1, <4>2, QuietUse
    <3> QED
      BY <1>1, <3>1, <3>2, <3>3, <3>4, <3>5, <3>6 DEF FrameNext
  <2>3. CountedInv'
    BY <2>0, <2>2, ContractCounts
  <2> QED
    BY <2>1, <2>2, <2>3 DEF FrameInv
<1>2. CASE UNCHANGED allVars
  <2>1. /\ UNCHANGED <<queue, received, s_blocks, frameVars>> /\ UNCHANGED vars
        /\ UNCHANGED <<booted, subscribers, pc, evt, idx, accepted, fpc, frame, frameSeq,
                       subscriberCount, freeIdx, holding>>
    BY <1>2 DEF allVars, vars, frameVars
  <2>2. StaticInv /\ SensorInv /\ PendingInv /\ ProgressInv /\ CountedInv
    BY DEF FrameInv, UseInv
  <2>3. SentTo' = SentTo
    BY <2>1, SameView
  <2>4. SensorInv' /\ PendingInv' /\ ProgressInv'
    BY <2>1, <2>2, <2>3 DEF SensorInv, PendingInv, ProgressInv, FirstSubs, Running
  <2>5. UseInv' /\ ContractStep
    BY <2>1, <2>4, QuietUse
  <2>6. StaticInv'
    BY <2>1, <2>2 DEF vars, StaticInv, BaseInv, TypeOK, LoopBounds, Running, SubscriberInv,
       SubscribersFit
  <2> QED
    BY <2>2, <2>5, <2>6, ContractCounts DEF FrameInv
<1> QED
  BY <1>1, <1>2

\* The invariant holds of the frame path.
LEMMA FrameInvariance == FrameSpec => []FrameInv
BY FrameInvInit, FrameInvNext, PTL DEF FrameSpec

\* A frame that waits in a queue or is being handled is intact in its block,
\* whatever the queues dropped and the publisher gave up.
THEOREM FramesIntact == FrameSpec => []FrameIntact
<1>1. FrameInv => FrameIntact
  BY DEF FrameInv, UseInv
<1> QED
  BY FrameInvariance, <1>1, PTL

\* publishFrameReady and the subscriber tasks keep the contract of the pool: the
\* callers of PoolContract, about whom RefCounting and NoRecyclingHolds speak, are
\* these.
THEOREM FramePathKeepsContract == FrameSpec => ImplementsContract
<1>1. ContractStep => [Contract!PoolNext]_(Contract!poolVars)
  BY DEF ContractStep, Contract!poolVars
<1> QED
  BY FrameInvInit, FrameInvNext, <1>1, PTL DEF FrameSpec, ImplementsContract, Contract!PoolSpec

\* The fault for an exhausted pool is raised only when the subscribers have
\* references to all blocks: publishFrameReady itself never keeps one back.
THEOREM FaultsMeanExhaustion == FrameSpec => FaultMeansExhausted
<1>1. ASSUME FrameInv, Frame_Alloc, fpc' = "fault" PROVE \A b \in Blocks : References(b) # {}
  <2>1. frame' = NULL
    BY <1>1 DEF Frame_Alloc
  <2> QED
    BY <1>1, <2>1, AllocFailsUse
<1>2. FrameInv =>
        [Frame_Alloc /\ fpc' = "fault" => \A b \in Blocks : References(b) # {}]_allVars
  BY <1>1
<1> QED
  BY FrameInvariance, <1>2, PTL DEF FaultMeansExhausted

\* A block that is not free has a holder who will free it: publishFrameReady, which
\* has not handed over all its references, or a subscriber, in whose queue or hands
\* an event points to the block.
NoBlockLost ==
  \A b \in Blocks : s_blocks[b].inUse => SensorRefs(b) > 0 \/ References(b) # {}

\* No block leaks: however many queues rejected the event, nobody's reference is
\* forgotten while the block is still marked as used.  With fairness this is why
\* BlockReturns holds.
THEOREM NoLeaks == FrameSpec => []NoBlockLost
<1>1. FrameInv => NoBlockLost
  <2> SUFFICES ASSUME FrameInv, NEW b \in Blocks, s_blocks[b].inUse, References(b) = {}
               PROVE  SensorRefs(b) > 0
    BY DEF NoBlockLost
  <2>1. HeldRefs[b] > 0 /\ HeldRefs[b] = SensorRefs(b) + Cardinality(References(b))
    BY DEF FrameInv, CountedInv, HeldRefs
  <2>2. Cardinality(References(b)) = 0
    BY FS_EmptySet
  <2>3. SensorRefs(b) \in Int
    BY UnsentRefs
  <2> QED
    BY <2>1, <2>2, <2>3
<1> QED
  BY FrameInvariance, <1>1, PTL
=============================================================================

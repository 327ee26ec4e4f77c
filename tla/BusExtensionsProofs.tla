---------------------------- MODULE BusExtensionsProofs ----------------------------
(***************************************************************************)
(* Proofs about the two extensions of EventBus, for every set of topics,   *)
(* queues, tasks, call sites and subscriptions.                            *)
(*                                                                         *)
(* BusLog: EventBus implements TopicLog; each step of a publisher is a     *)
(* step of the log of its topic, or changes nothing that the subscribers   *)
(* can see.  EventBusISR: whatever increments the interrupt handler loses, *)
(* the counters are never ahead of what they count.                        *)
(***************************************************************************)
EXTENDS BusLog, EventBusISR, EventBusProofs

-----------------------------------------------------------------------------
(* Invariants of the refinement.                                           *)

\* The calls among the first n that subscribe to t, and those that succeed.
Asked(t, n) == {j \in 1 .. n : Subscriptions[j][1] = t}
Admitted(t, n) ==
  {i \in 1 .. n : /\ Subscriptions[i][1] = t
                  /\ Cardinality(Asked(t, i - 1)) < MAX_SUBSCRIBERS_PER_TOPIC}

\* After booted calls, a topic has the queues of its first
\* MAX_SUBSCRIBERS_PER_TOPIC calls.
AudienceInv ==
  \A t \in Topics :
    /\ Len(subscribers[t]) = IF Cardinality(Asked(t, booted)) < MAX_SUBSCRIBERS_PER_TOPIC
                             THEN Cardinality(Asked(t, booted))
                             ELSE MAX_SUBSCRIBERS_PER_TOPIC
    /\ {subscribers[t][k] : k \in DOMAIN subscribers[t]}
         = {Subscriptions[i][2] : i \in Admitted(t, booted)}

\* The event that a loop offers is the newest of its topic's log.
NewestInv ==
  /\ log \in [Topics -> Seq(Event)]
  /\ \A p \in Tasks : pc[p] \in Offering \cup {"send"} =>
       log[evt[p].topic][Len(log[evt[p].topic])] = evt[p]

LogInv == BusInv /\ IdInv /\ SentInv /\ AudienceInv /\ NewestInv

-----------------------------------------------------------------------------
(* The subscribers of a topic.                                             *)

\* One more call.
LEMMA AskedNext ==
  ASSUME NEW n \in Nat, NEW t \in Topics
  PROVE  /\ IsFiniteSet(Asked(t, n)) /\ Cardinality(Asked(t, n)) \in Nat
         /\ Cardinality(Asked(t, n + 1)) = IF Subscriptions[n + 1][1] = t
                                           THEN Cardinality(Asked(t, n)) + 1
                                           ELSE Cardinality(Asked(t, n))
<1>1. IsFiniteSet(1 .. n)
  BY FS_Interval
<1>2. IsFiniteSet(Asked(t, n)) /\ Cardinality(Asked(t, n)) \in Nat
  <2>1. Asked(t, n) \in SUBSET (1 .. n)
    BY DEF Asked
  <2> QED
    BY <1>1, <2>1, FS_Subset, FS_CardinalityType
<1>3. 1 .. n + 1 = (1 .. n) \cup {n + 1} /\ n + 1 \notin 1 .. n
  OBVIOUS
<1>4. Asked(t, n + 1) = IF Subscriptions[n + 1][1] = t
                        THEN Asked(t, n) \cup {n + 1} ELSE Asked(t, n)
  BY <1>3 DEF Asked
<1>5. n + 1 \notin Asked(t, n)
  BY <1>3 DEF Asked
<1> QED
  BY <1>2, <1>4, <1>5, FS_AddElement

\* Bus_Init leaves no subscribers.
LEMMA AudienceInit == Init => AudienceInv
<1> SUFFICES ASSUME Init, NEW t \in Topics
             PROVE  /\ Len(subscribers[t]) =
                         IF Cardinality(Asked(t, booted)) < MAX_SUBSCRIBERS_PER_TOPIC
                         THEN Cardinality(Asked(t, booted)) ELSE MAX_SUBSCRIBERS_PER_TOPIC
                    /\ {subscribers[t][k] : k \in DOMAIN subscribers[t]}
                         = {Subscriptions[i][2] : i \in Admitted(t, booted)}
  BY DEF AudienceInv
<1>1. subscribers[t] = <<>> /\ booted = 0
  BY DEF Init
<1>2. Asked(t, 0) = {} /\ Admitted(t, 0) = {}
  BY DEF Asked, Admitted
<1>3. Cardinality(Asked(t, booted)) = 0
  BY <1>1, <1>2, FS_EmptySet
<1> QED
  BY <1>1, <1>2, <1>3, BusAssumption

\* Bus_Subscribe admits a queue as long as the topic has room.
LEMMA AudienceSubscribe ==
  ASSUME BusInv, BusInv', AudienceInv, Bus_Subscribe
  PROVE  AudienceInv'
<1>1. booted \in Nat /\ booted + 1 \in DOMAIN Subscriptions
  <2>1. booted \in 0 .. Len(Subscriptions) /\ Len(Subscriptions) \in Nat
    BY BusAssumption DEF BusInv, TypeOK
  <2> QED
    BY <2>1, BusAssumption DEF Running, Bus_Subscribe
<1>2. PICK u \in Topics, q \in Queues : Subscriptions[booted + 1] = <<u, q>>
  BY <1>1, BusAssumption
<1>3. Subscriptions[booted + 1][1] = u /\ Subscriptions[booted + 1][2] = q
  BY <1>2
<1>4. /\ booted' = booted + 1
      /\ \/ /\ Len(subscribers[u]) >= MAX_SUBSCRIBERS_PER_TOPIC
            /\ subscribers' = subscribers
         \/ /\ Len(subscribers[u]) < MAX_SUBSCRIBERS_PER_TOPIC
            /\ subscribers' = [subscribers EXCEPT ![u] = Append(subscribers[u], q)]
  BY <1>3 DEF Bus_Subscribe
<1> SUFFICES ASSUME NEW t \in Topics
             PROVE  /\ Len(subscribers'[t]) =
                         IF Cardinality(Asked(t, booted')) < MAX_SUBSCRIBERS_PER_TOPIC
                         THEN Cardinality(Asked(t, booted')) ELSE MAX_SUBSCRIBERS_PER_TOPIC
                    /\ {subscribers'[t][k] : k \in DOMAIN subscribers'[t]}
                         = {Subscriptions[i][2] : i \in Admitted(t, booted')}
  BY DEF AudienceInv, Asked, Admitted
<1> DEFINE n == Cardinality(Asked(t, booted))
           m == Cardinality(Asked(t, booted + 1))
           old == {Subscriptions[i][2] : i \in Admitted(t, booted)}
           new == {Subscriptions[i][2] : i \in Admitted(t, booted + 1)}
<1>5. n \in Nat /\ m = IF u = t THEN n + 1 ELSE n
  BY <1>1, <1>3, AskedNext
<1>6. /\ Len(subscribers[t]) = IF n < MAX_SUBSCRIBERS_PER_TOPIC THEN n ELSE MAX_SUBSCRIBERS_PER_TOPIC
      /\ {subscribers[t][k] : k \in DOMAIN subscribers[t]} = old
  BY DEF AudienceInv
<1>7. subscribers \in [Topics -> Seq(Queues)] /\ MAX_SUBSCRIBERS_PER_TOPIC \in Nat
  BY BusAssumption DEF BusInv, TypeOK
<1>8. Admitted(t, booted + 1) =
        IF u = t /\ n < MAX_SUBSCRIBERS_PER_TOPIC
        THEN Admitted(t, booted) \cup {booted + 1} ELSE Admitted(t, booted)
  <2>1. 1 .. booted + 1 = (1 .. booted) \cup {booted + 1}
    BY <1>1
  <2>2. (booted + 1) - 1 = booted
    BY <1>1
  <2> QED
    BY <1>3, <2>1, <2>2 DEF Admitted
<1>9. new = IF u = t /\ n < MAX_SUBSCRIBERS_PER_TOPIC THEN old \cup {q} ELSE old
  BY <1>3, <1>8
<1> HIDE DEF n, m, old, new
<1>10. CASE u = t /\ n < MAX_SUBSCRIBERS_PER_TOPIC
  <2>1. subscribers'[t] = Append(subscribers[t], q) /\ subscribers[t] \in Seq(Queues)
    BY <1>4, <1>5, <1>6, <1>7, <1>10
  <2> DEFINE s == subscribers[t]
             a == subscribers'[t]
             l == Len(subscribers[t]) + 1
  <2>2. /\ DOMAIN a = DOMAIN s \cup {l}
        /\ \A k \in DOMAIN s : a[k] = s[k]
        /\ a[l] = q /\ l \notin DOMAIN s /\ Len(a) = l
    BY <2>1
  <2>3. {s[k] : k \in DOMAIN s} = old
    BY <1>6
  <2>4. Len(a) = n + 1
    BY <1>5, <1>6, <1>10, <2>2
  <2> HIDE DEF s, a, l
  <2>5. {a[k] : k \in DOMAIN a} = old \cup {q}
    BY <2>2, <2>3
  <2>6. Len(a) = IF m < MAX_SUBSCRIBERS_PER_TOPIC THEN m ELSE MAX_SUBSCRIBERS_PER_TOPIC
    BY <1>5, <1>7, <1>10, <2>4
  <2> QED
    BY <1>4, <1>9, <1>10, <2>5, <2>6 DEF a, m, new
<1>11. CASE ~(u = t /\ n < MAX_SUBSCRIBERS_PER_TOPIC)
  <2>1. subscribers'[t] = subscribers[t]
    BY <1>4, <1>5, <1>6, <1>7, <1>11
  <2>2. Len(subscribers[t]) = IF m < MAX_SUBSCRIBERS_PER_TOPIC THEN m ELSE MAX_SUBSCRIBERS_PER_TOPIC
    BY <1>5, <1>6, <1>7, <1>11
  <2>3. {subscribers[t][k] : k \in DOMAIN subscribers[t]} = new /\ booted' = booted + 1
    BY <1>4, <1>6, <1>9, <1>11
  <2> QED
    BY <2>1, <2>2, <2>3 DEF m, new
<1> QED
  BY <1>10, <1>11

\* When start-up is over, the subscribers of each topic are its audience.
LEMMA AudienceComplete ==
  ASSUME BusInv, AudienceInv, Running, NEW t \in Topics
  PROVE  {subscribers[t][k] : k \in DOMAIN subscribers[t]} = Audience[t]
<1>1. booted = Len(Subscriptions) /\ DOMAIN Subscriptions = 1 .. Len(Subscriptions)
  BY BusAssumption DEF Running
<1>2. Admitted(t, booted) =
        {i \in DOMAIN Subscriptions :
           /\ Subscriptions[i][1] = t
           /\ Cardinality({j \in 1 .. i - 1 : Subscriptions[j][1] = t}) < MAX_SUBSCRIBERS_PER_TOPIC}
  BY <1>1 DEF Admitted, Asked
<1> QED
  BY <1>2 DEF AudienceInv, Audience

-----------------------------------------------------------------------------
(* The offer in progress.                                                  *)

\* Nobody is in the loop of a topic: its offer is over.
LEMMA NoOffer ==
  ASSUME NEW t \in Topics,
         \A p \in Tasks : pc[p] \in Offering \cup {"send"} => evt[p].topic # t
  PROVE  Unreached(t) = {}
BY DEF Unreached, Offering

\* The mutex of a topic keeps all but its holder out of the loop.
LEMMA OthersOutside ==
  ASSUME BusInv, NEW p \in Tasks, NEW r \in Tasks, r # p, pc[p] \in PublishSteps,
         evt[r].topic = evt[p].topic
  PROVE  pc[r] \notin Offering \cup {"send"}
<1>1. evt[p].topic \in Topics
  BY DEF BusInv, TypeOK, Event
<1>2. lock[evt[p].topic] = p
  BY <1>1 DEF BusInv, LockOwner
<1>3. pc[r] \notin PublishSteps
  BY <1>1, <1>2 DEF BusInv, LockOwner
<1> QED
  BY <1>3 DEF PublishSteps, Offering

\* The first subscriber that has not been offered the event.
First(p) == IF pc[p] = "send" THEN idx[p] ELSE idx[p] + 1

\* Somebody is in the loop of a topic: the rest of its list is to be offered.
LEMMA OneOffer ==
  ASSUME BusInv, NEW p \in Tasks, pc[p] \in Offering \cup {"send"}
  PROVE  Unreached(evt[p].topic) =
           {subscribers[evt[p].topic][i] :
              i \in {i \in DOMAIN subscribers[evt[p].topic] : i >= First(p)}}
<1>1. pc[p] \in PublishSteps
  BY DEF PublishSteps, Offering
<1>2. \A r \in Tasks : evt[r].topic = evt[p].topic /\ pc[r] \in Offering \cup {"send"} => r = p
  BY <1>1, OthersOutside
<1>3. /\ idx[p] \in Nat /\ subscribers[evt[p].topic] \in Seq(Queues)
  BY LoopQueues
<1>4. ASSUME NEW i \in DOMAIN subscribers[evt[p].topic]
      PROVE  (\E r \in Tasks : /\ evt[r].topic = evt[p].topic
                               /\ \/ pc[r] = "send" /\ i >= idx[r]
                                  \/ pc[r] \in {"sent", "drop", "dropped"} /\ i > idx[r])
             <=> i >= First(p)
  <2>1. i \in Nat
    BY <1>3
  <2>2. (/\ evt[p].topic = evt[p].topic
         /\ \/ pc[p] = "send" /\ i >= idx[p]
            \/ pc[p] \in {"sent", "drop", "dropped"} /\ i > idx[p]) <=> i >= First(p)
    BY <1>3, <2>1 DEF First, Offering
  <2> QED
    BY <1>2, <2>2 DEF Offering
<1> QED
  BY <1>4 DEF Unreached

-----------------------------------------------------------------------------
(* Steps.                                                                  *)

Given == [q \in Queues |-> Delivered(q)]
Offers == [t \in Topics |-> Unreached(t)]

\* A task that is in no loop changes no offer.
LEMMA OffersKept ==
  ASSUME UNCHANGED subscribers,
         \A r \in Tasks :
           \/ /\ pc[r] \notin Offering \cup {"send"}
              /\ pc'[r] \notin Offering \cup {"send"}
           \/ pc'[r] = pc[r] /\ evt'[r] = evt[r] /\ idx'[r] = idx[r]
  PROVE  Offers' = Offers
<1>1. \A t \in Topics : Unreached(t)' = Unreached(t)
  <2> TAKE t \in Topics
  <2>1. ASSUME NEW i, NEW r \in Tasks
        PROVE  (/\ evt[r].topic = t
                /\ \/ pc[r] = "send" /\ i >= idx[r]
                   \/ pc[r] \in {"sent", "drop", "dropped"} /\ i > idx[r])
               <=>
               (/\ evt'[r].topic = t
                /\ \/ pc'[r] = "send" /\ i >= idx'[r]
                   \/ pc'[r] \in {"sent", "drop", "dropped"} /\ i > idx'[r])
    BY DEF Offering
  <2> QED
    BY <2>1 DEF Unreached
<1> QED
  BY <1>1 DEF Offers

\* The history variable grows when a publisher begins its loop, and only then.
LEMMA LogKept ==
  ASSUME NewestInv, LogNext, \A r \in Tasks : ~Publishing(r)
  PROVE  log' = log
BY DEF NewestInv, LogNext

\* Publish_Begin is a publication.
LEMMA BeginRefines ==
  ASSUME LogInv, LogNext, NEW p \in Tasks, Publish_Begin(p)
  PROVE  Log!Next /\ NewestInv'
<1>0. PICK t \in Topics : t = evt[p].topic
  BY DEF LogInv, BusInv, TypeOK, Event
<1>1. /\ pc[p] = "publish" /\ pc' = [pc EXCEPT ![p] = "send"]
      /\ idx' = [idx EXCEPT ![p] = 1]
      /\ UNCHANGED <<booted, subscribers, queue, received, evt>>
  BY DEF Publish_Begin, registryVars
<1>2. /\ pc \in [Tasks -> PCs] /\ idx \in [Tasks -> Nat] /\ evt[p] \in Event
      /\ log \in [Topics -> Seq(Event)] /\ subscribers[t] \in Seq(Queues)
  BY DEF LogInv, BusInv, TypeOK, NewestInv
<1>3. Publishing(p) /\ \A r \in Tasks : Publishing(r) => r = p
  BY <1>1, <1>2 DEF Publishing
<1>4. /\ log' = [log EXCEPT ![t] = Append(log[t], evt[p])]
      /\ log'[t] = Append(log[t], evt[p])
  <2>1. (CHOOSE r \in Tasks : Publishing(r)) = p
    BY <1>3
  <2> QED
    BY <1>0, <1>2, <1>3, <2>1 DEF LogNext
<1>5. log'[t][Len(log'[t])] = evt[p]
  <2>1. log[t] \in Seq(Event)
    BY <1>2
  <2> QED
    BY <1>2, <1>4, <2>1
<1>6. pc[p] \in PublishSteps
  BY <1>1 DEF PublishSteps
<1>7. \A r \in Tasks : r # p /\ pc[r] \in Offering \cup {"send"} => evt[r].topic # t
  BY <1>0, <1>6, OthersOutside DEF LogInv
<1>8. Unreached(t) = {}
  <2>1. pc[p] \notin Offering \cup {"send"}
    BY <1>1 DEF Offering
  <2> QED
    BY <1>7, <2>1, NoOffer
<1>9. \A u \in Topics : u # t => Unreached(u)' = Unreached(u)
  <2> SUFFICES ASSUME NEW u \in Topics, u # t PROVE Unreached(u)' = Unreached(u)
    OBVIOUS
  <2>1. ASSUME NEW i, NEW r \in Tasks
        PROVE  (/\ evt[r].topic = u
                /\ \/ pc[r] = "send" /\ i >= idx[r]
                   \/ pc[r] \in {"sent", "drop", "dropped"} /\ i > idx[r])
               <=>
               (/\ evt'[r].topic = u
                /\ \/ pc'[r] = "send" /\ i >= idx'[r]
                   \/ pc'[r] \in {"sent", "drop", "dropped"} /\ i > idx'[r])
    <3>1. CASE r = p
      BY <1>0, <1>1, <3>1
    <3>2. CASE r # p
      BY <1>1, <1>2, <3>2
    <3> QED
      BY <3>1, <3>2
  <2> QED
    BY <1>1, <2>1 DEF Unreached
<1>10. Unreached(t)' = Audience[t]
  <2>1. pc'[p] = "send" /\ idx'[p] = 1
    BY <1>1, <1>2
  <2>2. \A i \in DOMAIN subscribers[t] : i >= 1
    BY <1>2
  <2>3. ASSUME NEW i \in DOMAIN subscribers[t]
        PROVE  \E r \in Tasks : /\ evt'[r].topic = t
                                /\ \/ pc'[r] = "send" /\ i >= idx'[r]
                                   \/ pc'[r] \in {"sent", "drop", "dropped"} /\ i > idx'[r]
    BY <1>0, <1>1, <2>1, <2>2
  <2>4. Unreached(t)' = {subscribers[t][i] : i \in DOMAIN subscribers[t]}
    BY <1>1, <2>3 DEF Unreached
  <2>5. Running
    BY <1>1 DEF LogInv, BusInv, QuietStart
  <2> QED
    BY <2>4, <2>5, AudienceComplete DEF LogInv
<1>11. Given' = Given
  BY <1>1 DEF Given, Delivered
<1>12. Log!Publish(t)
  <2>1. Offers[t] = {} /\ Offers' = [Offers EXCEPT ![t] = Audience[t]]
    BY <1>8, <1>9, <1>10 DEF Offers
  <2> QED
    BY <1>2, <1>4, <1>5, <1>11, <2>1 DEF Log!Publish, Log!Newest, Offers, Given
<1>13. NewestInv'
  <2>1. log' \in [Topics -> Seq(Event)]
    BY <1>2, <1>4
  <2>2. ASSUME NEW r \in Tasks, pc'[r] \in Offering \cup {"send"}
        PROVE  log'[evt'[r].topic][Len(log'[evt'[r].topic])] = evt'[r]
    <3>1. CASE r = p
      BY <1>0, <1>1, <1>5, <3>1
    <3>2. CASE r # p
      <4>1. pc[r] \in Offering \cup {"send"} /\ evt[r].topic # t
        BY <1>1, <1>2, <1>7, <2>2, <3>2
      <4>2. log'[evt[r].topic] = log[evt[r].topic]
        <5>1. evt[r].topic \in Topics
          BY DEF LogInv, BusInv, TypeOK, Event
        <5> QED
          BY <1>2, <1>4, <4>1, <5>1
      <4> QED
        BY <1>1, <4>1, <4>2 DEF LogInv, NewestInv
    <3> QED
      BY <3>1, <3>2
  <2> QED
    BY <2>1, <2>2 DEF NewestInv
<1> QED
  BY <1>12, <1>13 DEF Log!Next

\* Both outcomes of xQueueSend take one subscriber off the offer.
LEMMA OfferTaken ==
  ASSUME LogInv, NEW p \in Tasks, pc[p] = "send", InLoop(p),
         NEW c \in Queues, c = Current(p), NEW t \in Topics, t = evt[p].topic,
         pc' = [pc EXCEPT ![p] = "sent"] \/ pc' = [pc EXCEPT ![p] = "drop"],
         UNCHANGED <<subscribers, evt, idx>>
  PROVE  /\ c \in Offers[t]
         /\ Offers' = [Offers EXCEPT ![t] = Offers[t] \ {c}]
<1>1. pc \in [Tasks -> PCs] /\ idx[p] \in Nat /\ idx[p] >= 1 /\ subscribers[t] \in Seq(Queues)
  BY DEF LogInv, BusInv, TypeOK, LoopBounds
<1>2. idx[p] \in DOMAIN subscribers[t] /\ subscribers[t][idx[p]] = c
  BY <1>1 DEF InLoop, Current
<1>3. Unreached(t) = {subscribers[t][i] : i \in {i \in DOMAIN subscribers[t] : i >= idx[p]}}
  BY OneOffer DEF LogInv, First
<1>4. \A r \in Tasks : r # p => pc'[r] = pc[r]
  BY <1>1
<1>5. pc'[p] \in {"sent", "drop"}
  BY <1>1
<1>6. \A r \in Tasks : r # p /\ evt[r].topic = t => pc[r] \notin Offering \cup {"send"}
  <2>1. pc[p] \in PublishSteps
    BY DEF PublishSteps
  <2> QED
    BY <2>1, OthersOutside DEF LogInv
<1>7. ASSUME NEW i \in DOMAIN subscribers[t]
      PROVE  (\E r \in Tasks : /\ evt'[r].topic = t
                               /\ \/ pc'[r] = "send" /\ i >= idx'[r]
                                  \/ pc'[r] \in {"sent", "drop", "dropped"} /\ i > idx'[r])
             <=> i >= idx[p] /\ i # idx[p]
  <2>1. i \in Nat
    BY <1>1
  <2> QED
    BY <1>1, <1>4, <1>5, <1>6, <2>1 DEF Offering
<1>8. Unreached(t)' =
        {subscribers[t][i] : i \in {i \in DOMAIN subscribers[t] : i >= idx[p] /\ i # idx[p]}}
  BY <1>7 DEF Unreached
<1>9. \A i \in DOMAIN subscribers[t] : subscribers[t][i] = c => i = idx[p]
  BY <1>2 DEF LogInv, IdInv, SubscriberInv
<1>10. Unreached(t)' = Unreached(t) \ {c}
  BY <1>2, <1>3, <1>8, <1>9
<1>11. ASSUME NEW u \in Topics, u # t PROVE Unreached(u)' = Unreached(u)
  <2>1. ASSUME NEW i, NEW r \in Tasks
        PROVE  (/\ evt[r].topic = u
                /\ \/ pc[r] = "send" /\ i >= idx[r]
                   \/ pc[r] \in {"sent", "drop", "dropped"} /\ i > idx[r])
               <=>
               (/\ evt'[r].topic = u
                /\ \/ pc'[r] = "send" /\ i >= idx'[r]
                   \/ pc'[r] \in {"sent", "drop", "dropped"} /\ i > idx'[r])
    BY <1>4, <1>11
  <2> QED
    BY <2>1 DEF Unreached
<1>12. c \in Unreached(t)
  BY <1>1, <1>2, <1>3
<1> QED
  BY <1>10, <1>11, <1>12 DEF Offers

\* An accepted send gives the subscriber the newest event of the log, and a
\* rejected one takes the event from it for good.
LEMMA SendRefines ==
  ASSUME LogInv, LogNext, NEW p \in Tasks, SendAccepted(p) \/ SendRejected(p)
  PROVE  Log!Next /\ log' = log
<1>0. /\ pc[p] = "send" /\ InLoop(p)
      /\ pc' = [pc EXCEPT ![p] = "sent"] \/ pc' = [pc EXCEPT ![p] = "drop"]
      /\ UNCHANGED <<subscribers, received, evt, idx>>
  BY DEF SendAccepted, SendRejected, registryVars, localVars
<1>1. PICK c \in Queues : c = Current(p)
  BY <1>0, CurrentType DEF LogInv, BusInv, LoopBounds
<1>2. PICK t \in Topics : t = evt[p].topic
  BY DEF LogInv, BusInv, TypeOK, Event
<1>3. c \in Offers[t] /\ Offers' = [Offers EXCEPT ![t] = Offers[t] \ {c}]
  BY <1>0, <1>1, <1>2, OfferTaken
<1>4. log' = log
  <2>1. \A r \in Tasks : ~Publishing(r)
    BY <1>0 DEF Publishing, LogInv, BusInv, TypeOK
  <2> QED
    BY <2>1, LogKept DEF LogInv
<1>5. CASE SendAccepted(p)
  <2>1. queue' = [queue EXCEPT ![c] = Append(queue[c], evt[p])] /\ evt[p] \in Event
    BY <1>1, <1>5 DEF SendAccepted, LogInv, BusInv, TypeOK
  <2>2. /\ \A r \in Queues : r # c => Delivered(r)' = Delivered(r)
        /\ Delivered(c)' = Append(Delivered(c), evt[p])
    BY <1>0, <2>1, SendDelivers DEF LogInv, BusInv
  <2>3. Given' = [Given EXCEPT ![c] = Append(Given[c], evt[p])]
    BY <2>2 DEF Given
  <2>4. log[t][Len(log[t])] = evt[p]
    BY <1>0, <1>2 DEF LogInv, NewestInv
  <2>5. Log!Deliver(t, c)
    BY <1>3, <1>4, <2>3, <2>4 DEF Log!Deliver, Log!Newest, Offers, Given
  <2> QED
    BY <1>4, <2>5 DEF Log!Next
<1>6. CASE SendRejected(p)
  <2>1. Given' = Given
    BY <1>6 DEF SendRejected, Given, Delivered
  <2>2. Log!Drop(t, c)
    BY <1>3, <1>4, <2>1 DEF Log!Drop, Offers, Given
  <2> QED
    BY <1>4, <2>2 DEF Log!Next
<1> QED
  BY <1>5, <1>6

\* Counting a delivery or a drop and leaving the loop change no offer.
LEMMA CountRefines ==
  ASSUME LogInv, LogNext, NEW p \in Tasks,
         \/ CountDelivered(p) \/ IncrementDropCount(p) \/ CountDropped(p) \/ Publish_Return(p)
  PROVE  Given' = Given /\ Offers' = Offers /\ log' = log
<1>0. /\ pc[p] \in Offering \cup {"send"}
      /\ UNCHANGED <<subscribers, queue, received, evt>>
      /\ pc \in [Tasks -> PCs] /\ idx \in [Tasks -> Nat] /\ idx[p] \in Nat
      /\ \A r \in Tasks : r # p => pc'[r] = pc[r] /\ idx'[r] = idx[r]
      /\ pc'[p] # pc[p] /\ pc[p] # "publish"
  BY DEF CountDelivered, IncrementDropCount, CountDropped, Publish_Return, Offering, registryVars,
         localVars, LogInv, BusInv, TypeOK
<1>1. Given' = Given
  BY <1>0 DEF Given, Delivered
<1>2. log' = log
  <2>1. \A r \in Tasks : ~Publishing(r)
    BY <1>0 DEF Publishing
  <2> QED
    BY <2>1, LogKept DEF LogInv
<1>3. ASSUME NEW t \in Topics, NEW i \in DOMAIN subscribers[t], NEW r \in Tasks
      PROVE  (/\ evt[r].topic = t
              /\ \/ pc[r] = "send" /\ i >= idx[r]
                 \/ pc[r] \in {"sent", "drop", "dropped"} /\ i > idx[r])
             <=>
             (/\ evt'[r].topic = t
              /\ \/ pc'[r] = "send" /\ i >= idx'[r]
                 \/ pc'[r] \in {"sent", "drop", "dropped"} /\ i > idx'[r])
  <2>1. i \in Nat /\ i <= Len(subscribers[t]) /\ Len(subscribers[t]) \in Nat
    BY DEF LogInv, BusInv, TypeOK
  <2>2. CASE r # p
    BY <1>0, <2>2
  <2>3. CASE r = p /\ Publish_Return(p)
    BY <1>0, <2>1, <2>3 DEF Publish_Return, InLoop, localVars
  <2>4. CASE r = p /\ ~Publish_Return(p)
    <3>1. \/ /\ pc[p] \in {"sent", "dropped"} /\ pc'[p] = "send" /\ idx'[p] = idx[p] + 1
          \/ /\ pc[p] = "drop" /\ pc'[p] = "dropped" /\ idx'[p] = idx[p]
      BY <1>0, <2>4 DEF CountDelivered, IncrementDropCount, CountDropped, localVars
    <3> QED
      BY <1>0, <2>1, <2>4, <3>1
  <2> QED
    BY <2>2, <2>3, <2>4
<1>4. \A t \in Topics : Unreached(t)' = Unreached(t)
  BY <1>0, <1>3 DEF Unreached
<1> QED
  BY <1>1, <1>2, <1>4 DEF Offers

\* The steps outside the loop, and those of the bus's other clients, change
\* nothing that the log knows of.
LEMMA OutsideRefines ==
  ASSUME LogInv, LogNext,
         \/ Bus_Subscribe
         \/ \E p \in Tasks, site \in CallSites, x \in Payloads :
              MakeEvent_Load(p, site, x) \/ UnstampedEvent(p, site, x)
         \/ \E p \in Tasks : \/ MakeEvent_Store(p) \/ MakeEvent_Reload(p)
                             \/ AllocateEventId(p) \/ Publish_TakeLock(p)
         \/ \E q \in Queues : XQueueReceive(q)
         \/ Bus_GetTopicStats
         \/ UNCHANGED vars
  PROVE  Given' = Given /\ Offers' = Offers /\ log' = log
<1>0. pc \in [Tasks -> PCs] /\ evt \in [Tasks -> Event]
  BY DEF LogInv, BusInv, TypeOK
<1>1. \A q \in Queues : Delivered(q)' = Delivered(q)
  <2>1. CASE \E q \in Queues : XQueueReceive(q)
    BY <2>1, ReceiveDelivers DEF LogInv, BusInv
  <2>2. CASE ~ \E q \in Queues : XQueueReceive(q)
    <3>1. UNCHANGED <<queue, received>>
      BY <2>2 DEF Bus_Subscribe, MakeEvent_Load, UnstampedEvent, MakeEvent_Store, MakeEvent_Reload,
                  AllocateEventId, Publish_TakeLock, Bus_GetTopicStats, vars
    <3> QED
      BY <3>1 DEF Delivered
  <2> QED
    BY <2>1, <2>2
<1>2. Given' = Given
  BY <1>1 DEF Given
<1>3. \A r \in Tasks :
        \/ /\ pc[r] \notin Offering \cup {"send"}
           /\ pc'[r] \notin Offering \cup {"send"}
           /\ ~Publishing(r)
        \/ pc'[r] = pc[r] /\ evt'[r] = evt[r] /\ idx'[r] = idx[r]
  <2>1. CASE \E p \in Tasks, site \in CallSites, x \in Payloads :
               MakeEvent_Load(p, site, x) \/ UnstampedEvent(p, site, x)
    BY <1>0, <2>1 DEF MakeEvent_Load, UnstampedEvent, Offering, Publishing
  <2>2. CASE \E p \in Tasks : \/ MakeEvent_Store(p) \/ MakeEvent_Reload(p)
                              \/ AllocateEventId(p) \/ Publish_TakeLock(p)
    BY <1>0, <2>2 DEF MakeEvent_Store, MakeEvent_Reload, AllocateEventId, Publish_TakeLock,
                      localVars, Offering, Publishing
  <2>3. CASE \/ Bus_Subscribe \/ (\E q \in Queues : XQueueReceive(q)) \/ Bus_GetTopicStats
             \/ UNCHANGED vars
    BY <2>3 DEF Bus_Subscribe, XQueueReceive, Bus_GetTopicStats, vars, localVars
  <2> QED
    BY <2>1, <2>2, <2>3
<1>4. log' = log
  <2>1. \A r \in Tasks : ~Publishing(r)
    BY <1>3 DEF Publishing
  <2> QED
    BY <2>1, LogKept DEF LogInv
<1>5. Offers' = Offers
  <2>1. CASE Bus_Subscribe
    <3>1. \A r \in Tasks : pc[r] = "idle" /\ pc'[r] = "idle"
      BY <2>1 DEF Bus_Subscribe, LogInv, BusInv, QuietStart
    <3>2. \A t \in Topics : Unreached(t) = {} /\ Unreached(t)' = {}
      BY <3>1 DEF Unreached
    <3> QED
      BY <3>2 DEF Offers
  <2>2. CASE ~Bus_Subscribe
    <3>1. UNCHANGED subscribers
      BY <2>2 DEF MakeEvent_Load, UnstampedEvent, MakeEvent_Store, MakeEvent_Reload,
                  AllocateEventId, Publish_TakeLock, XQueueReceive, Bus_GetTopicStats, vars,
                  registryVars
    <3> QED
      BY <1>3, <3>1, OffersKept
  <2> QED
    BY <2>1, <2>2
<1> QED
  BY <1>2, <1>4, <1>5

\* Every step of the bus is a step of the log or leaves it alone.
LEMMA StepRefines ==
  LogInv /\ [LogNext]_<<vars, log>> => [Log!Next]_<<log, Given, Offers>>
<1> SUFFICES ASSUME LogInv, [LogNext]_<<vars, log>>
             PROVE  Log!Next \/ UNCHANGED <<log, Given, Offers>>
  OBVIOUS
<1>1. CASE UNCHANGED <<vars, log>>
  BY <1>1 DEF vars, Given, Delivered, Offers, Unreached
<1>2. CASE LogNext
  <2>1. ASSUME NEW p \in Tasks, PublishStep(p)
        PROVE  Log!Next \/ UNCHANGED <<log, Given, Offers>>
    <3>1. CASE Publish_Begin(p)
      BY <1>2, <3>1, BeginRefines
    <3>2. CASE SendAccepted(p) \/ SendRejected(p)
      BY <1>2, <3>2, SendRefines
    <3>3. CASE \/ CountDelivered(p) \/ IncrementDropCount(p) \/ CountDropped(p)
               \/ Publish_Return(p)
      BY <1>2, <3>3, CountRefines
    <3>4. CASE \/ MakeEvent_Store(p) \/ MakeEvent_Reload(p) \/ AllocateEventId(p)
               \/ Publish_TakeLock(p)
      BY <1>2, <3>4, OutsideRefines
    <3> QED
      BY <2>1, <3>1, <3>2, <3>3, <3>4 DEF PublishStep
  <2>2. CASE \/ Bus_Subscribe
             \/ \E p \in Tasks, site \in CallSites, x \in Payloads :
                  MakeEvent_Load(p, site, x) \/ UnstampedEvent(p, site, x)
             \/ \E q \in Queues : XQueueReceive(q)
             \/ Bus_GetTopicStats
             \/ UNCHANGED vars
    BY <1>2, <2>2, OutsideRefines
  <2> QED
    BY <1>2, <2>1, <2>2 DEF LogNext, Next, Quiescent
<1> QED
  BY <1>1, <1>2

\* A step that begins no loop and keeps the log keeps its newest events.
LEMMA NewestKept ==
  ASSUME NewestInv, log' = log,
         \A r \in Tasks : pc'[r] \in Offering \cup {"send"} =>
           pc[r] \in Offering \cup {"send"} /\ evt'[r] = evt[r]
  PROVE  NewestInv'
BY DEF NewestInv

\* The invariants of the refinement are preserved.
LEMMA LogInvNext == LogInv /\ [LogNext]_<<vars, log>> => LogInv'
<1> SUFFICES ASSUME LogInv, [LogNext]_<<vars, log>> PROVE LogInv'
  OBVIOUS
<1>0. [Next]_vars
  BY DEF LogNext, vars
<1>1. BusInv' /\ IdInv' /\ SentInv'
  BY <1>0, NextInv, NextDelivery DEF LogInv
<1>2. AudienceInv'
  <2>1. CASE Bus_Subscribe
    BY <1>1, <2>1, AudienceSubscribe DEF LogInv
  <2>2. CASE ~Bus_Subscribe
    <3>1. UNCHANGED <<booted, subscribers>>
      BY <1>0, <2>2
         DEF Next, MakeEvent_Load, UnstampedEvent, PublishStep, MakeEvent_Store, MakeEvent_Reload,
             AllocateEventId, Publish_TakeLock, Publish_Begin, SendAccepted, CountDelivered,
             SendRejected, IncrementDropCount, CountDropped, Publish_Return, XQueueReceive,
             Bus_GetTopicStats, Quiescent, vars, registryVars
    <3> QED
      BY <3>1 DEF LogInv, AudienceInv, Asked, Admitted
  <2> QED
    BY <2>1, <2>2
<1>3. NewestInv'
  <2>0. pc \in [Tasks -> PCs] /\ evt \in [Tasks -> Event]
    BY DEF LogInv, BusInv, TypeOK
  <2>1. CASE UNCHANGED <<vars, log>>
    BY <2>1, NewestKept DEF LogInv, vars
  <2>2. CASE LogNext
    <3>1. ASSUME NEW p \in Tasks, PublishStep(p) PROVE NewestInv'
      <4>1. CASE Publish_Begin(p)
        BY <2>2, <4>1, BeginRefines
      <4>2. CASE SendAccepted(p) \/ SendRejected(p)
        <5>1. log' = log
          BY <2>2, <4>2, SendRefines
        <5>2. \A r \in Tasks : pc'[r] \in Offering \cup {"send"} =>
                pc[r] \in Offering \cup {"send"} /\ evt'[r] = evt[r]
          BY <2>0, <4>2 DEF SendAccepted, SendRejected, localVars, Offering
        <5> QED
          BY <5>1, <5>2, NewestKept DEF LogInv
      <4>3. CASE \/ CountDelivered(p) \/ IncrementDropCount(p) \/ CountDropped(p)
                 \/ Publish_Return(p)
        <5>1. log' = log
          BY <2>2, <4>3, CountRefines
        <5>2. \A r \in Tasks : pc'[r] \in Offering \cup {"send"} =>
                pc[r] \in Offering \cup {"send"} /\ evt'[r] = evt[r]
          BY <2>0, <4>3
             DEF CountDelivered, IncrementDropCount, CountDropped, Publish_Return, localVars, Offering
        <5> QED
          BY <5>1, <5>2, NewestKept DEF LogInv
      <4>4. CASE \/ MakeEvent_Store(p) \/ MakeEvent_Reload(p) \/ AllocateEventId(p)
                 \/ Publish_TakeLock(p)
        <5>1. log' = log
          BY <2>2, <4>4, OutsideRefines
        <5>2. \A r \in Tasks : pc'[r] \in Offering \cup {"send"} =>
                pc[r] \in Offering \cup {"send"} /\ evt'[r] = evt[r]
          BY <2>0, <4>4
             DEF MakeEvent_Store, MakeEvent_Reload, AllocateEventId, Publish_TakeLock, localVars,
                 Offering
        <5> QED
          BY <5>1, <5>2, NewestKept DEF LogInv
      <4> QED
        BY <3>1, <4>1, <4>2, <4>3, <4>4 DEF PublishStep
    <3>2. ASSUME \/ Bus_Subscribe
                 \/ \E p \in Tasks, site \in CallSites, x \in Payloads :
                      MakeEvent_Load(p, site, x) \/ UnstampedEvent(p, site, x)
                 \/ \E q \in Queues : XQueueReceive(q)
                 \/ Bus_GetTopicStats
                 \/ UNCHANGED vars
          PROVE  NewestInv'
      <4>1. log' = log
        BY <2>2, <3>2, OutsideRefines
      <4>2. \A r \in Tasks : pc'[r] \in Offering \cup {"send"} =>
              pc[r] \in Offering \cup {"send"} /\ evt'[r] = evt[r]
        BY <2>0, <3>2
           DEF Bus_Subscribe, MakeEvent_Load, UnstampedEvent, XQueueReceive, Bus_GetTopicStats,
               vars, localVars, Offering
      <4> QED
        BY <4>1, <4>2, NewestKept DEF LogInv
    <3> QED
      BY <2>2, <3>1, <3>2 DEF LogNext, Next, Quiescent
  <2> QED
    BY <2>1, <2>2
<1> QED
  BY <1>1, <1>2, <1>3 DEF LogInv

\* The bus starts with empty logs, and in a state of the invariant.
LEMMA LogInitRefines == LogInit => LogInv /\ Log!Init
<1> SUFFICES ASSUME LogInit PROVE LogInv /\ Log!Init
  OBVIOUS
<1>1. Init /\ log = [t \in Topics |-> <<>>]
  BY DEF LogInit
<1>2. BusInv /\ IdInv /\ SentInv /\ AudienceInv
  BY <1>1, InitInv, IdInit, AudienceInit
<1>3. NewestInv
  BY <1>1 DEF NewestInv, Init, Offering
<1>4. \A t \in Topics : Unreached(t) = {}
  BY <1>1 DEF Unreached, Init
<1>5. \A q \in Queues : Delivered(q) = <<>>
  BY <1>1 DEF Delivered, Init
<1> QED
  BY <1>1, <1>2, <1>3, <1>4, <1>5 DEF LogInv, Log!Init

-----------------------------------------------------------------------------
(* The theorem.                                                            *)

\* The event bus implements TopicLog: although publishers interleave, each topic
\* is one log, every event of it is offered to every admitted subscriber once
\* before the next one, and a queue is given nothing else, in the log's order.
THEOREM BusImplementsLog == LogSpec => ImplementsTopicLog
<1>1. LogInit => LogInv /\ Log!Init
  BY LogInitRefines
<1>2. LogInv /\ [LogNext]_<<vars, log>> => LogInv'
  BY LogInvNext
<1>3. LogInv /\ [LogNext]_<<vars, log>> =>
        [Log!Next]_<<log, [q \in Queues |-> Delivered(q)], [t \in Topics |-> Unreached(t)]>>
  BY StepRefines DEF Given, Offers
<1> QED
  BY <1>1, <1>2, <1>3, PTL DEF LogSpec, ImplementsTopicLog, Log!Spec

-----------------------------------------------------------------------------
(* The inductive invariant, with BaseInv: the statistics of a topic no     *)
(* longer balance, because the handler takes no mutex and its increments   *)
(* can be lost.                                                            *)

\* The publishers on topic t whose rejected send the topic has not counted, and
\* those whose rejected send the bus has not counted.
Rejected(t) == {p \in Tasks : pc[p] \in {"drop", "dropped"} /\ evt[p].topic = t}
Uncounted == {p \in Tasks : pc[p] = "drop"}

\* A task that has sent, or failed to send, still has a count to add: the counter
\* is behind by at least the number of these tasks.
DeliveredBehind(t) ==
  /\ IsFiniteSet(Sending(t)) /\ IsFiniteSet(Deliveries(t))
  /\ stats[t].delivered + Cardinality(Sending(t)) <= Cardinality(Deliveries(t))

DroppedBehind(t) ==
  /\ IsFiniteSet(Rejected(t))
  /\ stats[t].dropped + Cardinality(Rejected(t)) <= drops[t]

TotalBehind ==
  /\ IsFiniteSet(Uncounted) /\ IsFiniteSet(Slots(drops))
  /\ s_dropCount + Cardinality(Uncounted) <= Cardinality(Slots(drops))

BehindInv ==
  /\ drops \in [Topics -> Nat]
  /\ \A t \in Topics : DeliveredBehind(t) /\ DroppedBehind(t)
  /\ TotalBehind

-----------------------------------------------------------------------------
(* The tasks' steps.                                                       *)

\* The sends that a step of a task rejects, on topic t.
NewDrops(t) == {p \in Tasks : evt[p].topic = t /\ pc[p] = "send" /\ pc'[p] = "drop"}

\* A step that neither sends, nor is refused, nor counts.
LEMMA BehindQuiet ==
  ASSUME BehindInv, UNCHANGED <<s_dropCount, drops>>,
         Uncounted' = Uncounted,
         \A q \in Queues : Delivered(q)' = Delivered(q),
         \A t \in Topics : /\ Sending(t)' = Sending(t)
                           /\ Rejected(t)' = Rejected(t)
                           /\ stats'[t].delivered = stats[t].delivered
                           /\ stats'[t].dropped = stats[t].dropped
  PROVE  BehindInv'
<1>1. \A t \in Topics : Deliveries(t)' = Deliveries(t)
  BY DEF Deliveries
<1>2. Slots(drops)' = Slots(drops)
  BY DEF Slots
<1>3. \A t \in Topics : DeliveredBehind(t)' /\ DroppedBehind(t)'
  BY <1>1 DEF BehindInv, DeliveredBehind, DroppedBehind
<1>4. TotalBehind'
  BY <1>2 DEF BehindInv, TotalBehind
<1> QED
  BY <1>3, <1>4 DEF BehindInv

\* SendAccepted: one more event in a queue, not yet counted.
LEMMA BehindSend ==
  ASSUME BaseInv, BehindInv, NEW p \in Tasks, SendAccepted(p), drops' = drops
  PROVE  BehindInv'
<1>0. PICK c \in Queues : c = Current(p)
  BY CurrentType DEF SendAccepted, BaseInv, LoopBounds
<1>1. /\ pc[p] = "send"
      /\ queue' = [queue EXCEPT ![c] = Append(queue[c], evt[p])]
      /\ pc' = [pc EXCEPT ![p] = "sent"]
      /\ UNCHANGED <<s_dropCount, stats, received, evt>>
  BY <1>0 DEF SendAccepted, localVars
<1>2. pc \in [Tasks -> PCs] /\ evt[p] \in Event /\ TypeOK
  BY DEF BaseInv, TypeOK
<1>3. Uncounted' = Uncounted /\ \A t \in Topics : Rejected(t)' = Rejected(t)
  BY <1>1, <1>2 DEF Uncounted, Rejected
<1>4. ASSUME NEW t \in Topics PROVE DeliveredBehind(t)'
  <2>1. /\ IsFiniteSet(Sending(t)) /\ IsFiniteSet(Deliveries(t))
        /\ stats[t].delivered + Cardinality(Sending(t)) <= Cardinality(Deliveries(t))
    BY DEF BehindInv, DeliveredBehind
  <2>2. /\ Cardinality(Sending(t)) \in Nat /\ Cardinality(Deliveries(t)) \in Nat
        /\ stats[t].delivered \in Nat
    BY <1>2, <2>1, FS_CardinalityType DEF TypeOK, BusTopicStats
  <2>3. /\ IsFiniteSet(Deliveries(t)')
        /\ Cardinality(Deliveries(t)') =
             IF evt[p].topic = t THEN Cardinality(Deliveries(t)) + 1 ELSE Cardinality(Deliveries(t))
    BY <1>1, <1>2, <2>1, SendCounts
  <2>4. CASE evt[p].topic = t
    <3>1. Sending(t)' = Sending(t) \cup {p} /\ p \notin Sending(t)
      BY <1>1, <1>2, <2>4 DEF Sending
    <3>2. IsFiniteSet(Sending(t)') /\ Cardinality(Sending(t)') = Cardinality(Sending(t)) + 1
      BY <2>1, <3>1, FS_AddElement
    <3> QED
      BY <1>1, <2>1, <2>2, <2>3, <2>4, <3>2 DEF DeliveredBehind
  <2>5. CASE evt[p].topic # t
    <3>1. Sending(t)' = Sending(t)
      BY <1>1, <1>2, <2>5 DEF Sending
    <3> QED
      BY <1>1, <2>1, <2>3, <2>5, <3>1 DEF DeliveredBehind
  <2> QED
    BY <2>4, <2>5
<1> QED
  BY <1>1, <1>3, <1>4 DEF BehindInv, DroppedBehind, TotalBehind, Slots

\* CountDelivered: the count catches up with one event.
LEMMA BehindDelivered ==
  ASSUME BaseInv, BehindInv, NEW p \in Tasks, CountDelivered(p), drops' = drops
  PROVE  BehindInv'
<1>0. PICK t \in Topics : t = evt[p].topic
  BY DEF BaseInv, TypeOK, Event
<1>1. /\ pc[p] = "sent"
      /\ pc' = [pc EXCEPT ![p] = "send"]
      /\ stats' = [stats EXCEPT ![t] = RaiseDepth(IncDelivered(stats[t]), Len(queue[Current(p)]))]
      /\ UNCHANGED <<s_dropCount, queue, received, evt>>
  BY <1>0 DEF CountDelivered
<1>2. /\ pc \in [Tasks -> PCs] /\ stats \in [Topics -> BusTopicStats]
      /\ stats[t] \in BusTopicStats
  BY DEF BaseInv, TypeOK
<1>3. /\ \A u \in Topics : u # t => stats'[u] = stats[u]
      /\ stats'[t].delivered = stats[t].delivered + 1
      /\ stats'[t].dropped = stats[t].dropped
  <2>1. Len(queue[Current(p)]) \in Nat
    <3>1. Current(p) \in Queues
      BY <1>1, CurrentType DEF BaseInv, LoopBounds, InLoop, Offering
    <3> QED
      BY <3>1 DEF BaseInv, TypeOK
  <2>2. IncDelivered(stats[t]) \in BusTopicStats
    BY <1>2, <2>1, StatsUpdates
  <2>3. stats'[t] = RaiseDepth(IncDelivered(stats[t]), Len(queue[Current(p)]))
    BY <1>1, <1>2
  <2>4. /\ stats'[t].delivered = IncDelivered(stats[t]).delivered
        /\ stats'[t].dropped = IncDelivered(stats[t]).dropped
    BY <2>1, <2>2, <2>3, StatsUpdates
  <2>5. /\ IncDelivered(stats[t]).delivered = stats[t].delivered + 1
        /\ IncDelivered(stats[t]).dropped = stats[t].dropped
    BY <1>2, <2>1, StatsUpdates
  <2> QED
    BY <1>1, <1>2, <2>4, <2>5
<1>4. /\ Uncounted' = Uncounted
      /\ \A u \in Topics : Rejected(u)' = Rejected(u) /\ stats'[u].dropped = stats[u].dropped
  BY <1>1, <1>2, <1>3 DEF Uncounted, Rejected
<1>5. ASSUME NEW u \in Topics PROVE DeliveredBehind(u)'
  <2>1. /\ IsFiniteSet(Sending(u)) /\ IsFiniteSet(Deliveries(u))
        /\ stats[u].delivered + Cardinality(Sending(u)) <= Cardinality(Deliveries(u))
    BY DEF BehindInv, DeliveredBehind
  <2>2. Deliveries(u)' = Deliveries(u)
    BY <1>1 DEF Deliveries, Delivered
  <2>3. CASE u = t
    <3>1. Sending(t)' = Sending(t) \ {p} /\ p \in Sending(t)
      BY <1>0, <1>1, <1>2 DEF Sending
    <3>2. IsFiniteSet(Sending(t)') /\ Cardinality(Sending(t)') = Cardinality(Sending(t)) - 1
      BY <2>1, <2>3, <3>1, FS_RemoveElement
    <3>3. Cardinality(Sending(t)) \in Nat /\ stats[t].delivered \in Nat
      BY <1>2, <2>1, <2>3, FS_CardinalityType DEF BusTopicStats
    <3>4. stats'[t].delivered + Cardinality(Sending(t)') = stats[t].delivered + Cardinality(Sending(t))
      BY <1>3, <3>2, <3>3
    <3> QED
      BY <2>1, <2>2, <2>3, <3>2, <3>4 DEF DeliveredBehind
  <2>4. CASE u # t
    <3>1. Sending(u)' = Sending(u)
      BY <1>0, <1>1, <1>2, <2>4 DEF Sending
    <3> QED
      BY <1>3, <2>1, <2>2, <2>4, <3>1 DEF DeliveredBehind
  <2> QED
    BY <2>3, <2>4
<1> QED
  BY <1>1, <1>4, <1>5 DEF BehindInv, DroppedBehind, TotalBehind, Slots

\* SendRejected: one more drop, which neither counter has.
LEMMA BehindReject ==
  ASSUME BaseInv, BehindInv, NEW p \in Tasks, SendRejected(p),
         drops' = [t \in Topics |-> drops[t] + Cardinality(NewDrops(t))]
  PROVE  BehindInv'
<1>0. PICK t \in Topics : t = evt[p].topic
  BY DEF BaseInv, TypeOK, Event
<1>1. /\ pc[p] = "send" /\ pc' = [pc EXCEPT ![p] = "drop"]
      /\ UNCHANGED <<s_dropCount, stats, queue, received, evt>>
  BY DEF SendRejected, localVars
<1>2. pc \in [Tasks -> PCs] /\ stats \in [Topics -> BusTopicStats] /\ s_dropCount \in Nat
  BY DEF BaseInv, TypeOK
<1>3. NewDrops(t) = {p} /\ \A u \in Topics : u # t => NewDrops(u) = {}
  BY <1>0, <1>1, <1>2 DEF NewDrops
<1>4. drops' \in [Topics -> Nat] /\ drops'[t] = drops[t] + 1 /\ \A u \in Topics : u # t => drops'[u] = drops[u]
  <2>1. Cardinality(NewDrops(t)) = 1 /\ \A u \in Topics : u # t => Cardinality(NewDrops(u)) = 0
    BY <1>3, FS_Singleton, FS_EmptySet
  <2>2. drops \in [Topics -> Nat]
    BY DEF BehindInv
  <2> HIDE DEF NewDrops
  <2> QED
    BY <2>1, <2>2
<1>5. \A u \in Topics : DeliveredBehind(u)'
  <2>1. \A u \in Topics : Deliveries(u)' = Deliveries(u) /\ Sending(u)' = Sending(u)
    BY <1>1, <1>2 DEF Deliveries, Delivered, Sending
  <2> QED
    BY <1>1, <2>1 DEF BehindInv, DeliveredBehind
<1>6. ASSUME NEW u \in Topics PROVE DroppedBehind(u)'
  <2>1. /\ IsFiniteSet(Rejected(u))
        /\ stats[u].dropped + Cardinality(Rejected(u)) <= drops[u]
    BY DEF BehindInv, DroppedBehind
  <2>2. CASE u = t
    <3>1. Rejected(t)' = Rejected(t) \cup {p} /\ p \notin Rejected(t)
      BY <1>0, <1>1, <1>2 DEF Rejected
    <3>2. IsFiniteSet(Rejected(t)') /\ Cardinality(Rejected(t)') = Cardinality(Rejected(t)) + 1
      BY <2>1, <2>2, <3>1, FS_AddElement
    <3>3. Cardinality(Rejected(t)) \in Nat /\ stats[t].dropped \in Nat /\ drops[t] \in Nat
      BY <1>2, <2>1, <2>2, FS_CardinalityType DEF BusTopicStats, BehindInv
    <3> QED
      BY <1>1, <1>4, <2>1, <2>2, <3>2, <3>3 DEF DroppedBehind
  <2>3. CASE u # t
    <3>1. Rejected(u)' = Rejected(u)
      BY <1>0, <1>1, <1>2, <2>3 DEF Rejected
    <3> QED
      BY <1>1, <1>4, <2>1, <2>3, <3>1 DEF DroppedBehind
  <2> QED
    BY <2>2, <2>3
<1>7. TotalBehind'
  <2>1. /\ IsFiniteSet(Uncounted) /\ IsFiniteSet(Slots(drops))
        /\ s_dropCount + Cardinality(Uncounted) <= Cardinality(Slots(drops))
    BY DEF BehindInv, TotalBehind
  <2>2. Uncounted' = Uncounted \cup {p} /\ p \notin Uncounted
    BY <1>1, <1>2 DEF Uncounted
  <2>3. IsFiniteSet(Uncounted') /\ Cardinality(Uncounted') = Cardinality(Uncounted) + 1
    BY <2>1, <2>2, FS_AddElement
  <2> DEFINE g == drops'
  <2>4. g \in [Topics -> Nat] /\ g[t] = drops[t] + 1 /\ (\A u \in Topics : u # t => g[u] = drops[u])
    BY <1>4
  <2>5. Slots(drops)' = Slots(g) /\ drops \in [Topics -> Nat]
    BY DEF Slots, BehindInv
  <2> HIDE DEF g
  <2>6. IsFiniteSet(Slots(g)) /\ Cardinality(Slots(g)) = Cardinality(Slots(drops)) + 1
    BY <2>1, <2>4, <2>5, AddSlots
  <2>7. Cardinality(Uncounted) \in Nat /\ Cardinality(Slots(drops)) \in Nat
    BY <2>1, FS_CardinalityType
  <2> QED
    BY <1>1, <1>2, <2>1, <2>3, <2>5, <2>6, <2>7 DEF TotalBehind
<1> QED
  BY <1>4, <1>5, <1>6, <1>7 DEF BehindInv

\* IncrementDropCount and CountDropped: the counts catch up with one drop.
LEMMA BehindDropped ==
  ASSUME BaseInv, BehindInv, NEW p \in Tasks, IncrementDropCount(p) \/ CountDropped(p),
         drops' = drops
  PROVE  BehindInv'
<1>0. PICK t \in Topics : t = evt[p].topic
  BY DEF BaseInv, TypeOK, Event
<1>1. /\ UNCHANGED <<queue, received, evt>>
      /\ pc \in [Tasks -> PCs] /\ stats \in [Topics -> BusTopicStats]
      /\ stats[t] \in BusTopicStats /\ s_dropCount \in Nat
  BY DEF IncrementDropCount, CountDropped, localVars, BaseInv, TypeOK
<1>2. \A u \in Topics : Deliveries(u)' = Deliveries(u) /\ Sending(u)' = Sending(u)
  <2>1. \A u \in Topics : Deliveries(u)' = Deliveries(u)
    BY <1>1 DEF Deliveries, Delivered
  <2>2. \A r \in Tasks : pc'[r] = "sent" <=> pc[r] = "sent"
    BY <1>1 DEF IncrementDropCount, CountDropped
  <2> QED
    BY <1>1, <2>1, <2>2 DEF Sending
<1>3. /\ IsFiniteSet(Uncounted) /\ IsFiniteSet(Slots(drops))
      /\ s_dropCount + Cardinality(Uncounted) <= Cardinality(Slots(drops))
      /\ Cardinality(Uncounted) \in Nat /\ Cardinality(Slots(drops)) \in Nat
  BY FS_CardinalityType DEF BehindInv, TotalBehind
<1>4. Slots(drops)' = Slots(drops)
  BY DEF Slots
<1>5. CASE IncrementDropCount(p)
  <2>1. /\ pc[p] = "drop" /\ pc' = [pc EXCEPT ![p] = "dropped"]
        /\ s_dropCount' = s_dropCount + 1 /\ stats' = stats
    BY <1>5 DEF IncrementDropCount
  <2>2. \A u \in Topics : Rejected(u)' = Rejected(u)
    BY <1>1, <2>1 DEF Rejected
  <2>3. Uncounted' = Uncounted \ {p} /\ p \in Uncounted
    BY <1>1, <2>1 DEF Uncounted
  <2>4. IsFiniteSet(Uncounted') /\ Cardinality(Uncounted') = Cardinality(Uncounted) - 1
    BY <1>3, <2>3, FS_RemoveElement
  <2>5. s_dropCount' + Cardinality(Uncounted') = s_dropCount + Cardinality(Uncounted)
    BY <1>1, <1>3, <2>1, <2>4
  <2>6. TotalBehind'
    BY <1>3, <1>4, <2>4, <2>5 DEF TotalBehind
  <2>7. \A u \in Topics : DeliveredBehind(u)' /\ DroppedBehind(u)'
    BY <1>2, <2>1, <2>2 DEF BehindInv, DeliveredBehind, DroppedBehind
  <2> QED
    BY <2>6, <2>7 DEF BehindInv
<1>6. CASE CountDropped(p)
  <2>1. /\ pc[p] = "dropped" /\ pc' = [pc EXCEPT ![p] = "send"]
        /\ s_dropCount' = s_dropCount
        /\ stats' = [stats EXCEPT ![t] = IncDropped(stats[t])]
    BY <1>0, <1>6 DEF CountDropped
  <2>2. /\ IncDropped(stats[t]).delivered = stats[t].delivered
        /\ IncDropped(stats[t]).dropped = stats[t].dropped + 1
    BY <1>1, StatsUpdates
  <2>3. /\ \A u \in Topics : u # t => stats'[u] = stats[u]
        /\ stats'[t].dropped = stats[t].dropped + 1
        /\ \A u \in Topics : stats'[u].delivered = stats[u].delivered
    BY <1>1, <2>1, <2>2
  <2>4. Uncounted' = Uncounted
    BY <1>1, <2>1 DEF Uncounted
  <2>5. TotalBehind'
    BY <1>4, <2>1, <2>4 DEF BehindInv, TotalBehind
  <2>6. \A u \in Topics : DeliveredBehind(u)'
    BY <1>2, <2>3 DEF BehindInv, DeliveredBehind
  <2>7. ASSUME NEW u \in Topics PROVE DroppedBehind(u)'
    <3>1. IsFiniteSet(Rejected(u)) /\ stats[u].dropped + Cardinality(Rejected(u)) <= drops[u]
      BY DEF BehindInv, DroppedBehind
    <3>2. CASE u = t
      <4>1. Rejected(t)' = Rejected(t) \ {p} /\ p \in Rejected(t)
        BY <1>0, <1>1, <2>1 DEF Rejected
      <4>2. IsFiniteSet(Rejected(t)') /\ Cardinality(Rejected(t)') = Cardinality(Rejected(t)) - 1
        BY <3>1, <3>2, <4>1, FS_RemoveElement
      <4>3. Cardinality(Rejected(t)) \in Nat /\ stats[t].dropped \in Nat
        BY <1>1, <3>1, <3>2, FS_CardinalityType DEF BusTopicStats
      <4>4. stats'[t].dropped + Cardinality(Rejected(t)') = stats[t].dropped + Cardinality(Rejected(t))
        BY <2>3, <4>2, <4>3
      <4> QED
        BY <3>1, <3>2, <4>2, <4>4 DEF DroppedBehind
    <3>3. CASE u # t
      <4>1. Rejected(u)' = Rejected(u)
        BY <1>0, <1>1, <2>1, <3>3 DEF Rejected
      <4> QED
        BY <2>3, <3>1, <3>3, <4>1 DEF DroppedBehind
    <3> QED
      BY <3>2, <3>3
  <2> QED
    BY <2>5, <2>6, <2>7 DEF BehindInv
<1> QED
  BY <1>5, <1>6

\* Every step of the tasks keeps the counters behind what they count.
LEMMA BehindTask ==
  ASSUME BaseInv, BehindInv, TaskNext
  PROVE  BehindInv'
<1>0. /\ Next
      /\ drops' = [t \in Topics |-> drops[t] + Cardinality(NewDrops(t))]
      /\ drops \in [Topics -> Nat]
  BY DEF TaskNext, NewDrops, BehindInv
<1>1. /\ TypeOK
      /\ pc \in [Tasks -> PCs] /\ stats \in [Topics -> BusTopicStats]
      /\ evt \in [Tasks -> Event] /\ subscribers \in [Topics -> Seq(Queues)]
  BY DEF BaseInv, TypeOK
<1>2. ASSUME \A p \in Tasks : pc[p] = "send" => pc'[p] # "drop" PROVE drops' = drops
  <2>1. \A t \in Topics : NewDrops(t) = {}
    BY <1>2 DEF NewDrops
  <2>2. \A t \in Topics : Cardinality(NewDrops(t)) = 0
    BY <2>1, FS_EmptySet
  <2> HIDE DEF NewDrops
  <2> QED
    BY <1>0, <2>2
<1>3. ASSUME NEW p \in Tasks,
             UNCHANGED <<s_dropCount, stats, queue, received>>,
             \A r \in Tasks : r # p => pc'[r] = pc[r] /\ evt'[r] = evt[r],
             pc[p] \notin Offering, pc'[p] \notin Offering
      PROVE  BehindInv'
  <2>1. drops' = drops
    BY <1>2, <1>3 DEF Offering
  <2>2. Uncounted' = Uncounted /\ \A t \in Topics : Sending(t)' = Sending(t) /\ Rejected(t)' = Rejected(t)
    BY <1>3 DEF Uncounted, Sending, Rejected, Offering
  <2> QED
    BY <1>3, <2>1, <2>2, BehindQuiet DEF Delivered
<1>4. ASSUME NEW p \in Tasks, NEW site \in CallSites, NEW x \in Payloads,
             MakeEvent_Load(p, site, x) \/ UnstampedEvent(p, site, x)
      PROVE  BehindInv'
  BY <1>1, <1>3, <1>4 DEF MakeEvent_Load, UnstampedEvent, Offering
<1>5. ASSUME NEW p \in Tasks, PublishStep(p) PROVE BehindInv'
  <2>1. CASE \/ MakeEvent_Store(p) \/ MakeEvent_Reload(p) \/ AllocateEventId(p)
             \/ Publish_TakeLock(p) \/ Publish_Return(p)
    BY <1>1, <1>3, <2>1
       DEF MakeEvent_Store, MakeEvent_Reload, AllocateEventId, Publish_TakeLock,
           Publish_Return, localVars, Offering
  <2>2. CASE Publish_Begin(p)
    <3>1. PICK t \in Topics : t = evt[p].topic
      BY <1>1 DEF Event
    <3>2. /\ stats' = [stats EXCEPT ![t] = SetSubscribers(IncPublished(stats[t]), Len(subscribers[t]))]
          /\ pc[p] = "publish" /\ pc' = [pc EXCEPT ![p] = "send"]
          /\ UNCHANGED <<s_dropCount, queue, received, evt>>
      BY <2>2, <3>1 DEF Publish_Begin
    <3>3. Len(subscribers[t]) \in Nat /\ stats[t] \in BusTopicStats
      BY <1>1
    <3>4. IncPublished(stats[t]) \in BusTopicStats
      BY <3>3, StatsUpdates
    <3>5. \A u \in Topics : /\ stats'[u].delivered = stats[u].delivered
                            /\ stats'[u].dropped = stats[u].dropped
      <4>1. stats'[t] = SetSubscribers(IncPublished(stats[t]), Len(subscribers[t]))
        BY <1>1, <3>2
      <4>2. /\ stats'[t].delivered = IncPublished(stats[t]).delivered
            /\ stats'[t].dropped = IncPublished(stats[t]).dropped
        BY <3>3, <3>4, <4>1, StatsUpdates
      <4>3. /\ stats'[t].delivered = stats[t].delivered
            /\ stats'[t].dropped = stats[t].dropped
        BY <3>3, <4>2, StatsUpdates
      <4> QED
        BY <1>1, <3>2, <4>3
    <3>6. Uncounted' = Uncounted /\ \A u \in Topics : Sending(u)' = Sending(u) /\ Rejected(u)' = Rejected(u)
      BY <1>1, <3>2 DEF Uncounted, Sending, Rejected
    <3>7. drops' = drops
      BY <1>1, <1>2, <3>2
    <3> QED
      BY <3>2, <3>5, <3>6, <3>7, BehindQuiet DEF Delivered
  <2>3. CASE SendAccepted(p)
    <3>1. drops' = drops
      BY <1>1, <1>2, <2>3 DEF SendAccepted
    <3> QED
      BY <2>3, <3>1, BehindSend
  <2>4. CASE CountDelivered(p)
    <3>1. drops' = drops
      BY <1>1, <1>2, <2>4 DEF CountDelivered
    <3> QED
      BY <2>4, <3>1, BehindDelivered
  <2>5. CASE SendRejected(p)
    BY <1>0, <2>5, BehindReject
  <2>6. CASE IncrementDropCount(p) \/ CountDropped(p)
    <3>1. drops' = drops
      BY <1>1, <1>2, <2>6 DEF IncrementDropCount, CountDropped
    <3> QED
      BY <2>6, <3>1, BehindDropped
  <2> QED
    BY <1>5, <2>1, <2>2, <2>3, <2>4, <2>5, <2>6 DEF PublishStep
<1>6. ASSUME UNCHANGED <<s_dropCount, pc, evt>>,
             \A q \in Queues : Delivered(q)' = Delivered(q),
             \A u \in Topics : /\ stats'[u].delivered = stats[u].delivered
                               /\ stats'[u].dropped = stats[u].dropped
      PROVE  BehindInv'
  <2>1. drops' = drops
    BY <1>2, <1>6
  <2>2. Uncounted' = Uncounted /\ \A u \in Topics : Sending(u)' = Sending(u) /\ Rejected(u)' = Rejected(u)
    BY <1>6 DEF Uncounted, Sending, Rejected
  <2> QED
    BY <1>6, <2>1, <2>2, BehindQuiet
<1>7. CASE Bus_Subscribe
  <2>1. /\ UNCHANGED <<s_dropCount, queue, received, pc, evt>>
        /\ \/ stats' = stats
           \/ \E t, n : stats' = [stats EXCEPT ![t].subscribers = n]
    BY <1>7 DEF Bus_Subscribe, localVars
  <2>2. \A u \in Topics : /\ stats'[u].delivered = stats[u].delivered
                          /\ stats'[u].dropped = stats[u].dropped
    BY <1>1, <2>1, ZenonT(60) DEF BusTopicStats
  <2> QED
    BY <1>6, <2>1, <2>2 DEF Delivered
<1>8. ASSUME \/ \E q \in Queues : XQueueReceive(q)
             \/ Bus_GetTopicStats
             \/ UNCHANGED vars
      PROVE  BehindInv'
  <2>1. UNCHANGED <<s_dropCount, stats, pc, evt>>
    BY <1>8 DEF XQueueReceive, Bus_GetTopicStats, vars, localVars
  <2>2. \A r \in Queues : Delivered(r)' = Delivered(r)
    <3>1. CASE \E q \in Queues : XQueueReceive(q)
      BY <1>1, <3>1, ReceiveDelivers
    <3>2. CASE Bus_GetTopicStats \/ UNCHANGED vars
      BY <3>2 DEF Bus_GetTopicStats, vars, Delivered
    <3> QED
      BY <1>8, <3>1, <3>2
  <2> QED
    BY <1>6, <2>1, <2>2
<1> QED
  BY <1>0, <1>4, <1>5, <1>7, <1>8 DEF Next, Quiescent

-----------------------------------------------------------------------------
(* The interrupt handler.                                                  *)

\* What a step of the handler can add to a counter: its increments or nothing.
LEMMA AddedBound ==
  ASSUME NEW n \in Nat, NEW t, NEW step, NEW k \in Added(n, t, step)
  PROVE  k \in Nat /\ k <= n
BY DEF Added

\* The subscribers of a topic are finitely many.
LEMMA SubscribersFinite ==
  ASSUME TypeOK, NEW t \in Topics
  PROVE  IsFiniteSet(Range(subscribers[t])) /\ Range(subscribers[t]) \subseteq Queues
<1> DEFINE s == subscribers[t]
           d == 1 .. Len(s)
           r == Range(s)
           g == [i \in d |-> s[i]]
<1>1. s \in Seq(Queues) /\ Len(s) \in Nat /\ DOMAIN s = d
  BY DEF TypeOK
<1>2. r = {s[i] : i \in d} /\ r \subseteq Queues
  BY <1>1 DEF Range
<1>3. IsFiniteSet(d)
  BY <1>1, FS_Interval
<1> HIDE DEF s, d, r
<1>4. g \in Surjection(d, r)
  BY <1>2 DEF Surjection
<1> HIDE DEF g
<1>5. IsFiniteSet(r)
  BY <1>3, <1>4, FS_Surjection
<1> QED
  BY <1>2, <1>5 DEF r, s

\* The handler gives an event of topic t to each queue of room.
LEMMA IsrDelivers ==
  ASSUME TypeOK, NEW t \in Topics, NEW room \in SUBSET Queues, IsFiniteSet(room),
         NEW e \in Event, e.topic = t,
         queue' = [q \in Queues |-> IF q \in room THEN Append(queue[q], e) ELSE queue[q]],
         received' = received, NEW u \in Topics, IsFiniteSet(Deliveries(u))
  PROVE  /\ IsFiniteSet(Deliveries(u)')
         /\ Cardinality(Deliveries(u)') =
              IF u = t THEN Cardinality(Deliveries(t)) + Cardinality(room)
                       ELSE Cardinality(Deliveries(u))
<1> DEFINE n(q) == Len(Delivered(q)) + 1
           P(q) == {i \in DOMAIN Delivered(q) : Delivered(q)[i].topic = u}
           N(q) == {i \in DOMAIN Delivered(q)' : Delivered(q)'[i].topic = u}
<1>1. ASSUME NEW q \in Queues
      PROVE  /\ q \notin room => Delivered(q)' = Delivered(q)
             /\ q \in room => /\ DOMAIN Delivered(q)' = DOMAIN Delivered(q) \cup {n(q)}
                              /\ \A i \in DOMAIN Delivered(q) : Delivered(q)'[i] = Delivered(q)[i]
                              /\ Delivered(q)'[n(q)] = e
             /\ n(q) \notin DOMAIN Delivered(q)
  <2> DEFINE a == received[q]
             b == queue[q]
             d == Delivered(q)
             m == Delivered(q)'
  <2>1. a \in Seq(Event) /\ b \in Seq(Event) /\ d = a \o b
    BY DEF TypeOK, Delivered
  <2>2. m = IF q \in room THEN a \o Append(b, e) ELSE d
    BY DEF Delivered
  <2> HIDE DEF a, b, d, m
  <2>3. a \o Append(b, e) = Append(d, e) /\ d \in Seq(Event)
    BY <2>1, AppendToConcat
  <2>4. /\ q \notin room => m = d
        /\ q \in room => /\ DOMAIN m = DOMAIN d \cup {Len(d) + 1}
                         /\ \A i \in DOMAIN d : m[i] = d[i]
                         /\ m[Len(d) + 1] = e
        /\ Len(d) + 1 \notin DOMAIN d
    BY <2>2, <2>3
  <2> QED
    BY <2>4 DEF d, m
<1>2. ASSUME NEW q \in Queues
      PROVE  /\ N(q) = IF q \in room /\ u = t THEN P(q) \cup {n(q)} ELSE P(q)
             /\ n(q) \notin P(q)
  BY <1>1
<1>3. /\ Deliveries(u) = UNION {{q} \X P(q) : q \in Queues}
      /\ Deliveries(u)' = UNION {{q} \X N(q) : q \in Queues}
  BY DEF Deliveries
<1> HIDE DEF P, N, n
<1>4. CASE u # t
  <2>1. Deliveries(u)' = Deliveries(u)
    BY <1>2, <1>3, <1>4
  <2> QED
    BY <1>4, <2>1
<1>5. CASE u = t
  <2> DEFINE new == {<<q, n(q)>> : q \in room}
             h == [q \in room |-> <<q, n(q)>>]
  <2>1. Deliveries(u)' = Deliveries(u) \cup new
    <3>1. ASSUME NEW y \in Deliveries(u)' PROVE y \in Deliveries(u) \cup new
      <4>1. PICK q \in Queues : y \in {q} \X N(q)
        BY <1>3, <3>1
      <4>2. y \in {q} \X P(q) \/ (q \in room /\ y = <<q, n(q)>>)
        BY <1>2, <1>5, <4>1
      <4> QED
        BY <1>3, <4>2
    <3>2. ASSUME NEW y \in Deliveries(u) PROVE y \in Deliveries(u)'
      <4>1. PICK q \in Queues : y \in {q} \X P(q)
        BY <1>3, <3>2
      <4>2. y \in {q} \X N(q)
        BY <1>2, <4>1
      <4> QED
        BY <1>3, <4>2
    <3>3. ASSUME NEW q \in room PROVE <<q, n(q)>> \in Deliveries(u)'
      <4>1. q \in Queues /\ <<q, n(q)>> \in {q} \X N(q)
        BY <1>2, <1>5, <3>3
      <4> QED
        BY <1>3, <4>1
    <3> QED
      BY <3>1, <3>2, <3>3
  <2>2. Deliveries(u) \cap new = {}
    <3> SUFFICES ASSUME NEW q \in room, <<q, n(q)>> \in Deliveries(u) PROVE FALSE
      OBVIOUS
    <3>1. PICK r \in Queues : <<q, n(q)>> \in {r} \X P(r)
      BY <1>3
    <3> QED
      BY <1>2, <3>1
  <2>3. h \in Bijection(room, new)
    BY DEF Bijection, Injection, IsInjective, Surjection
  <2> HIDE DEF new, h
  <2>4. ExistsBijection(room, new)
    BY <2>3 DEF ExistsBijection
  <2>5. IsFiniteSet(new) /\ Cardinality(new) = Cardinality(room)
    BY <2>4, FS_Bijection
  <2>6. Cardinality(Deliveries(u) \cap new) = 0
    BY <2>2, FS_EmptySet
  <2>7. /\ IsFiniteSet(Deliveries(u) \cup new)
        /\ Cardinality(Deliveries(u) \cup new)
             = Cardinality(Deliveries(u)) + Cardinality(new) - Cardinality(Deliveries(u) \cap new)
    BY <2>5, FS_Union
  <2>8. Cardinality(Deliveries(u)) \in Nat /\ Cardinality(room) \in Nat
    BY FS_CardinalityType
  <2> QED
    BY <1>5, <2>1, <2>5, <2>6, <2>7, <2>8
<1> QED
  BY <1>4, <1>5

\* The handler adds at most one count for each event it queues or drops.
LEMMA IsrStep ==
  ASSUME BaseInv, BehindInv, NEW t \in IsrTopics, Bus_PublishFromISR(t)
  PROVE  BaseInv' /\ BehindInv'
<1> DEFINE subs == Range(subscribers[t])
           room == {q \in subs : HasRoom(q)}
           full == subs \ room
           R == Cardinality(room)
           F == Cardinality(full)
<1>0. /\ t \in Topics /\ TypeOK
      /\ queue' = [q \in Queues |-> IF q \in room THEN Append(queue[q], IsrEvent(t)) ELSE queue[q]]
      /\ drops' = [drops EXCEPT ![t] = @ + F]
      /\ UNCHANGED <<booted, subscribers, lock, s_nextEventId, s_taskSequences, received, pc,
                     evt, idx, accepted, result, snapshot>>
  BY IsrAssumption DEF Bus_PublishFromISR, BaseInv, registryVars, localVars
<1>1. PICK pub \in Added(1, t, "publish"), del \in Added(R, t, "sent"), drp \in Added(F, t, "dropped") :
         stats' = [stats EXCEPT ![t].published = @ + pub,
                                ![t].delivered = @ + del,
                                ![t].dropped = @ + drp,
                                ![t].subscribers = Len(subscribers[t])]
  BY DEF Bus_PublishFromISR
<1>2. PICK tot \in {F, 0} : s_dropCount' = s_dropCount + tot
  BY DEF Bus_PublishFromISR
<1>3. room \subseteq Queues /\ IsFiniteSet(room) /\ IsFiniteSet(full)
  <2>1. IsFiniteSet(subs) /\ subs \subseteq Queues
    BY <1>0, SubscribersFinite
  <2>2. room \in SUBSET subs /\ full \in SUBSET subs
    OBVIOUS
  <2> HIDE DEF subs, room, full
  <2> QED
    BY <2>1, <2>2, FS_Subset
<1> HIDE DEF room, full
<1>4. R \in Nat /\ F \in Nat
  BY <1>3, FS_CardinalityType
<1> HIDE DEF R, F
<1>5. /\ pub \in Nat
      /\ del \in Nat /\ del <= R
      /\ drp \in Nat /\ drp <= F
      /\ tot \in Nat /\ tot <= F
  BY <1>4, AddedBound
<1>6. /\ stats \in [Topics -> BusTopicStats] /\ stats[t] \in BusTopicStats
      /\ Len(subscribers[t]) \in Nat /\ s_dropCount \in Nat
  BY <1>0 DEF TypeOK
<1>7. /\ stats' \in [Topics -> BusTopicStats]
      /\ \A u \in Topics : u # t => stats'[u] = stats[u]
      /\ stats'[t].delivered = stats[t].delivered + del
      /\ stats'[t].dropped = stats[t].dropped + drp
  <2> DEFINE o == stats[t]
             n == Len(subscribers[t])
             s1 == [o EXCEPT !.published = o.published + pub]
             s2 == [s1 EXCEPT !.delivered = o.delivered + del]
             s3 == [s2 EXCEPT !.dropped = o.dropped + drp]
             s4 == [s3 EXCEPT !.subscribers = n]
  <2>1. stats' = [stats EXCEPT ![t] = s4]
    BY <1>0, <1>1, <1>6
  <2>2. o \in BusTopicStats /\ n \in Nat
    BY <1>6
  <2> HIDE DEF o, n
  <2>3. o.published + pub \in Nat /\ o.delivered + del \in Nat /\ o.dropped + drp \in Nat
    BY <1>5, <2>2 DEF BusTopicStats
  <2>4. s1 \in BusTopicStats
    BY <2>2, <2>3 DEF BusTopicStats
  <2> HIDE DEF s1
  <2>5. s2 \in BusTopicStats /\ s2.delivered = o.delivered + del
    BY <2>3, <2>4 DEF BusTopicStats
  <2> HIDE DEF s2
  <2>6. s3 \in BusTopicStats /\ s3.delivered = o.delivered + del /\ s3.dropped = o.dropped + drp
    BY <2>3, <2>5 DEF BusTopicStats
  <2> HIDE DEF s3
  <2>7. s4 \in BusTopicStats /\ s4.delivered = o.delivered + del /\ s4.dropped = o.dropped + drp
    BY <2>2, <2>6 DEF BusTopicStats
  <2> HIDE DEF s4
  <2> QED
    BY <1>0, <1>6, <2>1, <2>7 DEF o
<1>8. IsrEvent(t) \in Event /\ IsrEvent(t).topic = t
  BY <1>0, IsrAssumption, BusAssumption DEF IsrEvent, Event
<1>9. TypeOK'
  <2>1. queue' \in [Queues -> Seq(Event)]
    BY <1>0, <1>8 DEF TypeOK
  <2>2. s_dropCount' \in Nat
    BY <1>2, <1>5, <1>6
  <2> QED
    BY <1>0, <1>7, <2>1, <2>2 DEF TypeOK
<1>10. BaseInv'
  BY <1>0, <1>9 DEF BaseInv, LoopBounds, Running
<1>11. drops' \in [Topics -> Nat] /\ drops'[t] = drops[t] + F /\ \A u \in Topics : u # t => drops'[u] = drops[u]
  BY <1>0, <1>4 DEF BehindInv
<1>12. ASSUME NEW u \in Topics PROVE DeliveredBehind(u)'
  <2>1. /\ IsFiniteSet(Sending(u)) /\ IsFiniteSet(Deliveries(u))
        /\ stats[u].delivered + Cardinality(Sending(u)) <= Cardinality(Deliveries(u))
    BY DEF BehindInv, DeliveredBehind
  <2>2. Sending(u)' = Sending(u)
    BY <1>0 DEF Sending
  <2>3. /\ IsFiniteSet(Deliveries(u)')
        /\ Cardinality(Deliveries(u)') =
              IF u = t THEN Cardinality(Deliveries(t)) + R ELSE Cardinality(Deliveries(u))
    BY <1>0, <1>3, <1>8, <2>1, IsrDelivers DEF R
  <2>4. Cardinality(Sending(u)) \in Nat /\ Cardinality(Deliveries(u)) \in Nat
    BY <2>1, FS_CardinalityType
  <2>5. stats[u].delivered \in Nat
    BY <1>6 DEF BusTopicStats
  <2>6. CASE u = t
    BY <1>4, <1>5, <1>7, <2>1, <2>2, <2>3, <2>4, <2>5, <2>6 DEF DeliveredBehind
  <2>7. CASE u # t
    BY <1>7, <2>1, <2>2, <2>3, <2>7 DEF DeliveredBehind
  <2> QED
    BY <2>6, <2>7
<1>13. ASSUME NEW u \in Topics PROVE DroppedBehind(u)'
  <2>1. IsFiniteSet(Rejected(u)) /\ stats[u].dropped + Cardinality(Rejected(u)) <= drops[u]
    BY DEF BehindInv, DroppedBehind
  <2>2. Rejected(u)' = Rejected(u)
    BY <1>0 DEF Rejected
  <2>3. Cardinality(Rejected(u)) \in Nat /\ stats[u].dropped \in Nat /\ drops[u] \in Nat
    BY <1>6, <2>1, FS_CardinalityType DEF BusTopicStats, BehindInv
  <2>4. CASE u = t
    BY <1>4, <1>5, <1>7, <1>11, <2>1, <2>2, <2>3, <2>4 DEF DroppedBehind
  <2>5. CASE u # t
    BY <1>7, <1>11, <2>1, <2>2, <2>5 DEF DroppedBehind
  <2> QED
    BY <2>4, <2>5
<1>14. TotalBehind'
  <2>1. /\ IsFiniteSet(Uncounted) /\ IsFiniteSet(Slots(drops))
        /\ s_dropCount + Cardinality(Uncounted) <= Cardinality(Slots(drops))
    BY DEF BehindInv, TotalBehind
  <2>2. Uncounted' = Uncounted
    BY <1>0 DEF Uncounted
  <2> DEFINE g == drops'
  <2>3. g \in [Topics -> Nat] /\ g[t] = drops[t] + F /\ (\A u \in Topics : u # t => g[u] = drops[u])
    BY <1>11
  <2>4. Slots(drops)' = Slots(g) /\ drops \in [Topics -> Nat]
    BY DEF Slots, BehindInv
  <2> HIDE DEF g
  <2>5. IsFiniteSet(Slots(g)) /\ Cardinality(Slots(g)) = Cardinality(Slots(drops)) + F
    BY <1>0, <1>4, <2>1, <2>3, <2>4, AddSlots
  <2>6. Cardinality(Uncounted) \in Nat /\ Cardinality(Slots(drops)) \in Nat
    BY <2>1, FS_CardinalityType
  <2> QED
    BY <1>2, <1>4, <1>5, <1>6, <2>1, <2>2, <2>4, <2>5, <2>6 DEF TotalBehind
<1> QED
  BY <1>10, <1>11, <1>12, <1>13, <1>14 DEF BehindInv

-----------------------------------------------------------------------------
(* The theorems.                                                           *)

\* Nothing has been counted.
LEMMA IsrInitInv == IsrInit => BaseInv /\ BehindInv
<1> SUFFICES ASSUME IsrInit PROVE BaseInv /\ BehindInv
  OBVIOUS
<1>1. Init /\ drops = [t \in Topics |-> 0]
  BY DEF IsrInit
<1>2. BaseInv
  BY <1>1, InitTypeOK DEF BaseInv, LoopBounds, Init, Offering
<1>3. Uncounted = {} /\ \A t \in Topics : Sending(t) = {} /\ Rejected(t) = {}
  BY <1>1 DEF Init, Uncounted, Sending, Rejected
<1>4. Slots(drops) = {}
  BY <1>1 DEF Slots
<1>5. \A t \in Topics : Deliveries(t) = {}
  BY <1>1 DEF Init, Deliveries, Delivered
<1>6. s_dropCount = 0 /\ \A t \in Topics : stats[t].delivered = 0 /\ stats[t].dropped = 0 /\ drops[t] = 0
  BY <1>1 DEF Init, ZeroStats
<1>7. IsFiniteSet({}) /\ Cardinality({}) = 0
  BY FS_EmptySet
<1>8. \A t \in Topics : DeliveredBehind(t) /\ DroppedBehind(t)
  BY <1>3, <1>5, <1>6, <1>7 DEF DeliveredBehind, DroppedBehind
<1>9. TotalBehind
  BY <1>3, <1>4, <1>6, <1>7 DEF TotalBehind
<1> QED
  BY <1>1, <1>2, <1>8, <1>9 DEF BehindInv

\* The invariant holds in every state that tasks and interrupts reach.
LEMMA IsrInvariance == IsrSpec => [](BaseInv /\ BehindInv)
<1>1. BaseInv /\ BehindInv /\ [IsrNext]_isrVars => (BaseInv /\ BehindInv)'
  <2> SUFFICES ASSUME BaseInv, BehindInv, [IsrNext]_isrVars PROVE BaseInv' /\ BehindInv'
    OBVIOUS
  <2>1. CASE TaskNext
    BY <2>1, BaseNext, BehindTask DEF TaskNext
  <2>2. CASE \E t \in IsrTopics : Bus_PublishFromISR(t)
    BY <2>2, IsrStep
  <2>3. CASE UNCHANGED isrVars
    <3>1. UNCHANGED vars /\ drops' = drops
      BY <2>3 DEF isrVars
    <3>2. BaseInv'
      BY <3>1, BaseNext
    <3>3. UNCHANGED <<s_dropCount, stats, queue, received, pc, evt>>
      BY <3>1 DEF vars
    <3>4. BehindInv'
      BY <3>1, <3>3, BehindQuiet DEF Delivered, Uncounted, Sending, Rejected
    <3> QED
      BY <3>2, <3>4
  <2> QED
    BY <2>1, <2>2, <2>3 DEF IsrNext
<1> QED
  BY IsrInitInv, <1>1, PTL DEF IsrSpec

\* Whatever increments interrupts lose, the delivered and dropped counters of
\* BusTopicStats_t and Bus_GetDropCount report nothing that did not happen.
THEOREM CountersBehind == IsrSpec => []CountersNeverAhead
<1>1. BaseInv /\ BehindInv => CountersNeverAhead
  <2> SUFFICES ASSUME BaseInv, BehindInv PROVE CountersNeverAhead
    OBVIOUS
  <2>1. stats \in [Topics -> BusTopicStats] /\ s_dropCount \in Nat
    BY DEF BaseInv, TypeOK
  <2>2. ASSUME NEW t \in Topics
        PROVE  stats[t].delivered <= Cardinality(Deliveries(t)) /\ stats[t].dropped <= drops[t]
    <3>1. /\ stats[t].delivered \in Nat /\ stats[t].dropped \in Nat /\ drops[t] \in Nat
      BY <2>1 DEF BusTopicStats, BehindInv
    <3>2. DeliveredBehind(t) /\ DroppedBehind(t)
      BY DEF BehindInv
    <3>3. /\ Cardinality(Sending(t)) \in Nat /\ Cardinality(Rejected(t)) \in Nat
          /\ Cardinality(Deliveries(t)) \in Nat
      BY <3>2, FS_CardinalityType DEF DeliveredBehind, DroppedBehind
    <3> QED
      BY <3>1, <3>2, <3>3 DEF DeliveredBehind, DroppedBehind
  <2>3. s_dropCount <= Cardinality(Slots(drops))
    <3>1. TotalBehind
      BY DEF BehindInv
    <3>2. Cardinality(Uncounted) \in Nat /\ Cardinality(Slots(drops)) \in Nat
      BY <3>1, FS_CardinalityType DEF TotalBehind
    <3> QED
      BY <2>1, <3>1, <3>2 DEF TotalBehind
  <2> QED
    BY <2>2, <2>3 DEF CountersNeverAhead, Slots
<1> QED
  BY IsrInvariance, <1>1, PTL
===================================================================================

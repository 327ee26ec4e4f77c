----------------------------- MODULE WatchdogProofs -----------------------------
(***************************************************************************)
(* Proofs about Watchdog: for any tasks, timeout, check period, queue      *)
(* depth and waits, a task that goes silent is reported in time, and one   *)
(* that does what it is told never is.                                     *)
(***************************************************************************)
EXTENDS Watchdog, WellFoundedInduction, TLAPS

-----------------------------------------------------------------------------
(***************************************************************************)
(* The inductive invariant.                                                *)
(***************************************************************************)

\* What the watchdog has heard of a task last: a heartbeat or its own report.
LastSign(i) == IF reported[i] > sent[i] THEN reported[i] ELSE sent[i]

\* A round of a task: what it stamped it has sent, or is about to send.
RoundInv ==
  \A i \in TaskIds : /\ sent[i] <= stamp[i]
                     /\ tpc[i] = "work" => sent[i] = stamp[i]

\* A healthy task keeps to its wait and to Latency, from one heartbeat sent to the next.
OnTimeInv ==
  \A i \in healthy :
    /\ tpc[i] = "work" => now <= stamp[i] + delay[i]
    /\ tpc[i] = "send" => now <= stamp[i] + Latency /\ stamp[i] <= sent[i] + delay[i]

\* A task that is not slow was never told to wait too long.
DelayInv == \A i \in TaskIds \ slow : ~TooLong(delay[i])

\* The queue holds no heartbeat that was not sent.
QueueInv == \A k \in 1 .. Len(queue) : queue[k].timestamp <= sent[queue[k].id]

\* The latest heartbeat of a task is on its way, and nothing older behind it...
Queued(i) ==
  \E k \in 1 .. Len(queue) : /\ queue[k].id = i /\ queue[k].timestamp = sent[i]
                             /\ \A j \in k + 1 .. Len(queue) : queue[j].id # i

\* ... or the watchdog has seen it.
Seen(i) == s_lastSeen[i] >= sent[i] /\ \A k \in 1 .. Len(queue) : queue[k].id # i

DeliveryInv == \A i \in TaskIds \ lost : Queued(i) \/ Seen(i)

\* s_lastSeen is never ahead of what the task sent or the watchdog reported.
SeenInv == \A i \in TaskIds : s_lastSeen[i] <= LastSign(i)

\* When the watchdog looks, it has seen the tasks that are in order recently enough.
CheckInv ==
  wpc = "check" =>
    \A i \in healthy \ (lost \cup slow) : now - s_lastSeen[i] <= WATCHDOG_TIMEOUT

\* The clock stands still until the first check, and the next wake-up comes in time
\* for every task.
SleepInv ==
  /\ wpc = "start" => now = 0
  /\ wpc = "sleep" =>
       /\ now <= wake
       /\ \A i \in TaskIds :
            wake <= LastSign(i) + WATCHDOG_TIMEOUT + WATCHDOG_CHECK_PERIOD

WatchdogInv ==
  /\ TypeOK
  /\ RoundInv
  /\ OnTimeInv
  /\ DelayInv
  /\ QueueInv
  /\ DeliveryInv
  /\ SeenInv
  /\ CheckInv
  /\ SleepInv
  /\ NoFalseAlarm

-----------------------------------------------------------------------------
(***************************************************************************)
(* The helpers.                                                            *)
(***************************************************************************)

\* The shortest of a task's waits is one of them.
LEMMA MinIsMember ==
  ASSUME NEW S \in SUBSET Nat, S # {}
  PROVE  Min(S) \in S
  <1> DEFINE R == OpToRel(<, Nat)
  <1>1. \E x \in S : \A y \in S : <<y, x>> \notin R
    BY NatLessThanWellFounded, WFMin
  <1>2. \A x, y \in Nat : <<y, x>> \notin R => x <= y
    BY DEF OpToRel
  <1>3. \E x \in S : \A y \in S : x <= y
    BY <1>1, <1>2
  <1> QED
    BY <1>3 DEF Min

\* The constants, in the form the steps need them.
LEMMA ConstantTypes ==
  /\ WATCHDOG_TIMEOUT \in Nat /\ WATCHDOG_CHECK_PERIOD \in Nat /\ Latency \in Nat
  /\ MaxTicks \in Nat
  /\ \A i \in TaskIds : Delays[i] \subseteq Nat /\ \A d \in Delays[i] : Latency <= d
  BY WatchdogAssumption

\* xQueueReceive takes the oldest heartbeat and keeps the others in order.
LEMMA DrainFacts ==
  ASSUME NEW q \in Seq(Heartbeat), q # <<>>
  PROVE  /\ Head(q) = q[1] /\ q[1] \in Heartbeat
         /\ Tail(q) \in Seq(Heartbeat)
         /\ Len(q) \in Nat \ {0} /\ Len(Tail(q)) = Len(q) - 1
         /\ \A k \in 1 .. Len(q) - 1 : Tail(q)[k] = q[k + 1]
  OBVIOUS

\* xQueueSend puts the newest behind the others.
LEMMA SendFacts ==
  ASSUME NEW q \in Seq(Heartbeat), NEW h \in Heartbeat
  PROVE  /\ Append(q, h) \in Seq(Heartbeat)
         /\ Len(q) \in Nat /\ Len(Append(q, h)) = Len(q) + 1
         /\ \A k \in 1 .. Len(q) : Append(q, h)[k] = q[k]
         /\ Append(q, h)[Len(q) + 1] = h
  OBVIOUS

\* The invariant holds before the scheduler starts.
LEMMA InitInv == Init => WatchdogInv
  <1> SUFFICES ASSUME Init PROVE WatchdogInv
    OBVIOUS
  <1> USE DEF Init, Zero
  <1>1. \A i \in TaskIds : delay[i] \in Delays[i] /\ delay[i] \in Nat
    <2> SUFFICES ASSUME NEW i \in TaskIds PROVE delay[i] \in Delays[i] /\ delay[i] \in Nat
      OBVIOUS
    <2>1. Delays[i] \in SUBSET Nat /\ Delays[i] # {}
      BY WatchdogAssumption
    <2>2. Min(Delays[i]) \in Delays[i]
      BY <2>1, MinIsMember
    <2> QED
      BY <2>1, <2>2
  <1>2. delay \in [TaskIds -> Nat]
    BY <1>1
  <1>3. TypeOK
    BY <1>1, <1>2, WatchdogAssumption DEF TypeOK
  <1>4. OnTimeInv
    BY <1>1 DEF OnTimeInv
  <1>5. RoundInv /\ DelayInv /\ QueueInv /\ SeenInv /\ CheckInv /\ SleepInv /\ NoFalseAlarm
    BY DEF RoundInv, DelayInv, QueueInv, SeenInv, LastSign, CheckInv, SleepInv, NoFalseAlarm
  <1>6. DeliveryInv
    BY DEF DeliveryInv, Seen
  <1> QED
    BY <1>3, <1>4, <1>5, <1>6 DEF WatchdogInv

-----------------------------------------------------------------------------
(***************************************************************************)
(* The steps of the tasks.                                                 *)
(***************************************************************************)

\* makeEvent: the stamp is not older than the last one sent, nor younger than the
\* wait allowed.
LEMMA StampKeeps ==
  ASSUME WatchdogInv, NEW i \in TaskIds, Heartbeat_Stamp(i)
  PROVE  WatchdogInv'
  <1> USE DEF WatchdogInv, Heartbeat_Stamp, watchdogVars
  <1>1. TypeOK'
    BY DEF TypeOK
  <1>2. RoundInv'
    BY DEF TypeOK, RoundInv
  <1>3. OnTimeInv'
    <2> SUFFICES ASSUME NEW j \in healthy
                 PROVE  /\ tpc'[j] = "work" => now <= stamp'[j] + delay[j]
                        /\ tpc'[j] = "send" => /\ now <= stamp'[j] + Latency
                                               /\ stamp'[j] <= sent[j] + delay[j]
      BY DEF OnTimeInv
    <2>1. CASE j # i
      BY <2>1 DEF TypeOK, OnTimeInv
    <2>2. CASE j = i
      <3>1. sent[i] = stamp[i] /\ now <= stamp[i] + delay[i]
        BY <2>2 DEF OnTimeInv, RoundInv
      <3>2. stamp'[i] = now /\ tpc'[i] = "send" /\ now \in Nat
        BY ConstantTypes DEF TypeOK
      <3> QED
        BY <2>2, <3>1, <3>2, ConstantTypes
    <2> QED
      BY <2>1, <2>2
  <1>4. QueueInv' /\ DeliveryInv'
    BY DEF QueueInv, DeliveryInv, Queued, Seen
  <1>5. DelayInv' /\ SeenInv' /\ CheckInv' /\ SleepInv' /\ NoFalseAlarm'
    BY DEF DelayInv, SeenInv, LastSign, CheckInv, SleepInv, NoFalseAlarm
  <1> QED
    BY <1>1, <1>2, <1>3, <1>4, <1>5

\* Bus_Publish: the heartbeat is queued behind the others, or the task is one of
\* those that lost one.
LEMMA SendKeeps ==
  ASSUME WatchdogInv, NEW i \in TaskIds, Heartbeat_Send(i)
  PROVE  WatchdogInv'
  <1> USE DEF WatchdogInv
  <1> DEFINE h == [id |-> i, timestamp |-> stamp[i]]
  <1>1. h \in Heartbeat /\ queue \in Seq(Heartbeat) /\ h.id = i /\ h.timestamp = stamp[i]
    BY DEF TypeOK, Heartbeat
  <1>2. PICK d \in Delays[i] : /\ delay' = [delay EXCEPT ![i] = d]
                               /\ slow' = IF TooLong(d) THEN slow \cup {i} ELSE slow
    BY DEF Heartbeat_Send, ChooseDelay
  <1>3. d \in Nat
    BY ConstantTypes
  <1>4. /\ tpc[i] = "send" /\ wpc \in {"sleep", "check"}
        /\ sent' = [sent EXCEPT ![i] = stamp[i]] /\ tpc' = [tpc EXCEPT ![i] = "work"]
        /\ UNCHANGED <<now, healthy, stamp, s_lastSeen, wpc, wake, reported>>
        /\ \/ /\ Len(queue) < WATCHDOG_QUEUE_DEPTH /\ queue' = Append(queue, h)
              /\ lost' = lost
           \/ queue' = queue /\ lost' = lost \cup {i}
    BY DEF Heartbeat_Send, TasksRun, watchdogVars
  <1> HIDE DEF h
  <1>5. \A j \in TaskIds : sent[j] <= sent'[j] /\ sent[j] \in Nat /\ sent'[j] \in Nat
    BY <1>4 DEF TypeOK, RoundInv
  <1>6. TypeOK'
    <2>1. /\ delay' \in [TaskIds -> Nat] /\ (\A j \in TaskIds : delay'[j] \in Delays[j])
          /\ slow' \subseteq TaskIds
      BY <1>2, <1>3 DEF TypeOK
    <2>2. sent' \in [TaskIds -> 0 .. now] /\ tpc' \in [TaskIds -> {"work", "send"}]
      BY <1>4 DEF TypeOK
    <2>3. /\ queue' \in Seq(Heartbeat) /\ Len(queue') <= WATCHDOG_QUEUE_DEPTH
          /\ lost' \subseteq TaskIds
      <3>1. CASE queue' = queue /\ lost' = lost \cup {i}
        BY <3>1 DEF TypeOK
      <3>2. CASE Len(queue) < WATCHDOG_QUEUE_DEPTH /\ queue' = Append(queue, h) /\ lost' = lost
        <4>1. queue' \in Seq(Heartbeat) /\ Len(queue') = Len(queue) + 1 /\ Len(queue) \in Nat
          BY <1>1, <3>2, SendFacts
        <4> QED
          BY <3>2, <4>1, WatchdogAssumption DEF TypeOK
      <3> QED
        BY <1>4, <3>1, <3>2
    <2> QED
      BY <1>4, <2>1, <2>2, <2>3 DEF TypeOK
  <1>7. RoundInv'
    BY <1>4 DEF TypeOK, RoundInv
  <1>8. DelayInv'
    BY <1>2 DEF DelayInv, TypeOK
  <1>9. OnTimeInv'
    <2> SUFFICES ASSUME NEW j \in healthy
                 PROVE  /\ tpc'[j] = "work" => now <= stamp[j] + delay'[j]
                        /\ tpc'[j] = "send" => /\ now <= stamp[j] + Latency
                                               /\ stamp[j] <= sent'[j] + delay'[j]
      BY <1>4 DEF OnTimeInv
    <2>1. CASE j # i
      BY <1>2, <1>4, <2>1 DEF OnTimeInv, TypeOK
    <2>2. CASE j = i
      <3>1. tpc'[i] = "work" /\ delay'[i] = d
        BY <1>2, <1>4 DEF TypeOK
      <3>2. now <= stamp[i] + Latency /\ Latency <= d /\ stamp[i] \in Nat /\ now \in Nat
        BY <1>4, <2>2, ConstantTypes DEF OnTimeInv, TypeOK
      <3> QED
        BY <1>3, <2>2, <3>1, <3>2, ConstantTypes
    <2> QED
      BY <2>1, <2>2
  <1>10. ASSUME queue' = Append(queue, h) /\ lost' = lost
         PROVE  QueueInv' /\ DeliveryInv'
    <2>1. /\ Len(queue) \in Nat /\ Len(queue') = Len(queue) + 1
          /\ \A k \in 1 .. Len(queue) : queue'[k] = queue[k] /\ queue[k] \in Heartbeat
          /\ queue'[Len(queue) + 1] = h
      BY <1>1, <1>10, SendFacts
    <2>2. QueueInv'
      <3> SUFFICES ASSUME NEW k \in 1 .. Len(queue')
                   PROVE  queue'[k].timestamp <= sent'[queue'[k].id]
        BY DEF QueueInv
      <3>1. CASE k \in 1 .. Len(queue)
        <4>1. queue[k].id \in TaskIds /\ queue[k].timestamp \in Nat
          BY <2>1, <3>1 DEF Heartbeat
        <4>2. queue[k].timestamp <= sent[queue[k].id]
          BY <3>1 DEF QueueInv
        <4> QED
          BY <1>5, <2>1, <3>1, <4>1, <4>2
      <3>2. CASE k = Len(queue) + 1
        BY <1>1, <1>4, <2>1, <3>2 DEF TypeOK
      <3> QED
        BY <2>1, <3>1, <3>2
    <2>3. ASSUME NEW j \in TaskIds \ lost'
          PROVE  Queued(j)' \/ Seen(j)'
      <3>1. CASE j = i
        <4>1. Len(queue) + 1 \in 1 .. Len(queue')
          BY <2>1
        <4>2. queue'[Len(queue) + 1].id = i /\ queue'[Len(queue) + 1].timestamp = sent'[i]
          BY <1>1, <1>4, <2>1 DEF TypeOK
        <4>3. \A m \in (Len(queue) + 1) + 1 .. Len(queue') : queue'[m].id # i
          BY <2>1
        <4> QED
          BY <3>1, <4>1, <4>2, <4>3 DEF Queued
      <3>2. CASE j # i /\ Queued(j)
        <4>1. PICK k \in 1 .. Len(queue) :
                /\ queue[k].id = j /\ queue[k].timestamp = sent[j]
                /\ \A m \in k + 1 .. Len(queue) : queue[m].id # j
          BY <3>2 DEF Queued
        <4>2. k \in 1 .. Len(queue') /\ queue'[k].id = j /\ queue'[k].timestamp = sent'[j]
          BY <1>4, <2>1, <3>2, <4>1, SMTT(30) DEF TypeOK
        <4>3. \A m \in k + 1 .. Len(queue') : queue'[m].id # j
          BY <1>1, <2>1, <3>2, <4>1
        <4> QED
          BY <4>2, <4>3 DEF Queued
      <3>3. CASE j # i /\ Seen(j)
        <4>1. sent'[j] = sent[j]
          BY <1>4, <3>3 DEF TypeOK
        <4>2. \A k \in 1 .. Len(queue') : queue'[k].id # j
          BY <1>1, <2>1, <3>3 DEF Seen
        <4> QED
          BY <1>4, <3>3, <4>1, <4>2 DEF Seen
      <3> QED
        BY <1>10, <3>1, <3>2, <3>3 DEF DeliveryInv
    <2> QED
      BY <2>2, <2>3 DEF DeliveryInv
  <1>11. ASSUME queue' = queue /\ lost' = lost \cup {i}
         PROVE  QueueInv' /\ DeliveryInv'
    <2>1. QueueInv'
      <3> SUFFICES ASSUME NEW k \in 1 .. Len(queue)
                   PROVE  queue[k].timestamp <= sent'[queue[k].id]
        BY <1>11 DEF QueueInv
      <3>0. queue[k] \in Heartbeat
        BY <1>1
      <3>1. queue[k].id \in TaskIds /\ queue[k].timestamp \in Nat
        BY <3>0 DEF Heartbeat
      <3>2. queue[k].timestamp <= sent[queue[k].id]
        BY DEF QueueInv
      <3> QED
        BY <1>5, <3>1, <3>2
    <2>2. ASSUME NEW j \in TaskIds \ lost'
          PROVE  Queued(j)' \/ Seen(j)'
      <3>1. j \in TaskIds \ lost /\ sent'[j] = sent[j]
        BY <1>4, <1>11 DEF TypeOK
      <3> QED
        BY <1>4, <1>11, <3>1 DEF DeliveryInv, Queued, Seen
    <2> QED
      BY <2>1, <2>2 DEF DeliveryInv
  <1>12. \A j \in TaskIds : /\ LastSign(j) \in Nat /\ LastSign(j)' \in Nat
                            /\ LastSign(j) <= LastSign(j)'
    <2> SUFFICES ASSUME NEW j \in TaskIds
                 PROVE  /\ LastSign(j) \in Nat /\ LastSign(j)' \in Nat
                        /\ LastSign(j) <= LastSign(j)'
      OBVIOUS
    <2>1. reported[j] \in Nat /\ reported'[j] = reported[j]
      BY <1>4 DEF TypeOK
    <2> QED
      BY <1>5, <2>1 DEF LastSign
  <1>13. SeenInv'
    <2>1. \A j \in TaskIds : s_lastSeen[j] \in Nat /\ s_lastSeen[j] <= LastSign(j)
      BY DEF SeenInv, TypeOK
    <2>2. \A j \in TaskIds : s_lastSeen[j] <= LastSign(j)'
      BY <1>12, <2>1
    <2> QED
      BY <1>4, <2>2 DEF SeenInv
  <1>14. SleepInv'
    <2>1. wpc = "sleep" =>
            \A j \in TaskIds :
              wake <= LastSign(j)' + WATCHDOG_TIMEOUT + WATCHDOG_CHECK_PERIOD
      <3> SUFFICES ASSUME wpc = "sleep", NEW j \in TaskIds
                   PROVE  wake <= LastSign(j)' + WATCHDOG_TIMEOUT + WATCHDOG_CHECK_PERIOD
        OBVIOUS
      <3>1. wake \in Nat /\ wake <= LastSign(j) + WATCHDOG_TIMEOUT + WATCHDOG_CHECK_PERIOD
        BY DEF SleepInv, TypeOK
      <3>2. LastSign(j) \in Nat /\ LastSign(j)' \in Nat /\ LastSign(j) <= LastSign(j)'
        BY <1>12
      <3> QED
        BY <3>1, <3>2, ConstantTypes
    <2> QED
      BY <1>4, <2>1 DEF SleepInv
  <1>15. CheckInv' /\ NoFalseAlarm'
    BY <1>2, <1>4 DEF CheckInv, NoFalseAlarm
  <1> QED
    BY <1>4, <1>6, <1>7, <1>8, <1>9, <1>10, <1>11, <1>13, <1>14, <1>15

\* A task that stops keeping time is out of the healthy ones: nothing more is
\* asked of it.
LEMMA StallKeeps ==
  ASSUME WatchdogInv, NEW i \in TaskIds, Stall(i)
  PROVE  WatchdogInv'
  <1> USE DEF WatchdogInv, Stall, watchdogVars
  <1>1. TypeOK' /\ OnTimeInv' /\ CheckInv' /\ NoFalseAlarm'
    BY DEF TypeOK, OnTimeInv, CheckInv, NoFalseAlarm
  <1>2. RoundInv' /\ DelayInv' /\ QueueInv' /\ DeliveryInv'
    BY DEF RoundInv, DelayInv, QueueInv, DeliveryInv, Queued, Seen
  <1>3. SeenInv' /\ SleepInv'
    BY DEF SeenInv, SleepInv, LastSign
  <1> QED
    BY <1>1, <1>2, <1>3

-----------------------------------------------------------------------------
(***************************************************************************)
(* The steps of the watchdog.                                              *)
(***************************************************************************)

\* The watchdog starts the timers at tick 0.
LEMMA StartKeeps ==
  ASSUME WatchdogInv, Watchdog_Start
  PROVE  WatchdogInv'
  <1> USE DEF WatchdogInv, Watchdog_Start, taskVars
  <1>1. now = 0
    BY DEF SleepInv
  <1>2. TypeOK'
    BY <1>1 DEF TypeOK
  <1>3. RoundInv' /\ OnTimeInv' /\ DelayInv' /\ QueueInv' /\ CheckInv' /\ SleepInv' /\ NoFalseAlarm'
    BY DEF RoundInv, OnTimeInv, DelayInv, QueueInv, CheckInv, SleepInv, NoFalseAlarm
  <1>4. SeenInv'
    BY <1>1 DEF SeenInv, LastSign, TypeOK
  <1>5. DeliveryInv'
    <2>1. \A i \in TaskIds : s_lastSeen'[i] >= sent[i]
      BY <1>1 DEF TypeOK
    <2> QED
      BY <2>1 DEF DeliveryInv, Queued, Seen
  <1> QED
    BY <1>2, <1>3, <1>4, <1>5

\* xQueueReceive: what is taken from the queue was sent, and if it was a task's latest
\* heartbeat, the watchdog has now seen it.
LEMMA DrainKeeps ==
  ASSUME WatchdogInv, Watchdog_Drain
  PROVE  WatchdogInv'
  <1> USE DEF WatchdogInv
  <1> DEFINE h == queue[1]
  <1>1. /\ wpc = "drain" /\ queue # <<>>
        /\ s_lastSeen' = [s_lastSeen EXCEPT ![Head(queue).id] = Head(queue).timestamp]
        /\ queue' = Tail(queue)
        /\ UNCHANGED <<now, healthy, delay, tpc, stamp, sent, lost, slow, wpc, wake, reported>>
    BY DEF Watchdog_Drain, taskVars
  <1>2. /\ Head(queue) = h /\ h \in Heartbeat
        /\ queue' \in Seq(Heartbeat)
        /\ Len(queue) \in Nat \ {0} /\ Len(queue') = Len(queue) - 1
        /\ \A k \in 1 .. Len(queue) - 1 : queue'[k] = queue[k + 1]
    BY <1>1, DrainFacts DEF TypeOK
  <1>3. h.id \in TaskIds /\ h.timestamp \in Nat /\ h.timestamp <= sent[h.id]
    BY <1>2 DEF Heartbeat, QueueInv
  <1> HIDE DEF h
  <1>4. TypeOK'
    <2>1. h.timestamp \in 0 .. now
      BY <1>3 DEF TypeOK
    <2>2. s_lastSeen' \in [TaskIds -> 0 .. now]
      BY <1>1, <1>2, <1>3, <2>1 DEF TypeOK
    <2>3. Len(queue') <= WATCHDOG_QUEUE_DEPTH
      BY <1>2, WatchdogAssumption DEF TypeOK
    <2> QED
      BY <1>1, <1>2, <2>2, <2>3 DEF TypeOK
  <1>5. RoundInv' /\ OnTimeInv' /\ DelayInv' /\ NoFalseAlarm'
    BY <1>1 DEF RoundInv, OnTimeInv, DelayInv, NoFalseAlarm
  <1>6. CheckInv' /\ SleepInv'
    BY <1>1 DEF CheckInv, SleepInv
  <1>7. QueueInv'
    <2> SUFFICES ASSUME NEW k \in 1 .. Len(queue')
                 PROVE  queue'[k].timestamp <= sent'[queue'[k].id]
      BY DEF QueueInv
    <2>1. k + 1 \in 1 .. Len(queue) /\ queue'[k] = queue[k + 1]
      BY <1>2
    <2> QED
      BY <1>1, <2>1 DEF QueueInv
  <1>8. SeenInv'
    <2> SUFFICES ASSUME NEW i \in TaskIds PROVE s_lastSeen'[i] <= LastSign(i)
      BY <1>1 DEF SeenInv, LastSign
    <2>1. CASE i = h.id
      BY <1>1, <1>2, <1>3, <2>1 DEF LastSign, TypeOK
    <2>2. CASE i # h.id
      BY <1>1, <1>2, <2>2 DEF SeenInv, TypeOK
    <2> QED
      BY <2>1, <2>2
  <1>9. DeliveryInv'
    <2> SUFFICES ASSUME NEW i \in TaskIds \ lost PROVE Queued(i)' \/ Seen(i)'
      BY <1>1 DEF DeliveryInv
    <2>1. CASE Queued(i)
      <3>1. PICK k \in 1 .. Len(queue) :
              /\ queue[k].id = i /\ queue[k].timestamp = sent[i]
              /\ \A j \in k + 1 .. Len(queue) : queue[j].id # i
        BY <2>1 DEF Queued
      <3>2. CASE k = 1
        <4>1. h.id = i /\ h.timestamp = sent[i]
          BY <3>1, <3>2 DEF h
        <4>2. s_lastSeen'[i] = sent[i]
          BY <1>1, <1>2, <4>1 DEF TypeOK
        <4>3. \A m \in 1 .. Len(queue') : queue'[m].id # i
          BY <1>2, <3>1, <3>2
        <4>4. sent[i] \in Nat
          BY DEF TypeOK
        <4> QED
          BY <1>1, <4>2, <4>3, <4>4 DEF Seen
      <3>3. CASE k # 1
        <4>1. k - 1 \in 1 .. Len(queue') /\ queue'[k - 1] = queue[k]
          BY <1>2, <3>1, <3>3
        <4>2. \A m \in (k - 1) + 1 .. Len(queue') : queue'[m].id # i
          BY <1>2, <3>1, <3>3
        <4> QED
          BY <1>1, <3>1, <4>1, <4>2 DEF Queued
      <3> QED
        BY <3>2, <3>3
    <2>2. CASE Seen(i)
      <3>1. h.id # i
        BY <1>2, <2>2 DEF Seen, h
      <3>2. s_lastSeen'[i] = s_lastSeen[i]
        BY <1>1, <1>2, <3>1 DEF TypeOK
      <3>3. \A m \in 1 .. Len(queue') : queue'[m].id # i
        BY <1>2, <2>2 DEF Seen
      <3> QED
        BY <1>1, <2>2, <3>2, <3>3 DEF Seen
    <2> QED
      BY <2>1, <2>2 DEF DeliveryInv
  <1> QED
    BY <1>4, <1>5, <1>6, <1>7, <1>8, <1>9

\* The heart of the argument: a healthy task that was not told to wait too long has
\* sent a heartbeat within the timeout, wherever it is in its round.
LEMMA SentRecently ==
  ASSUME WatchdogInv, NEW i \in healthy \ slow
  PROVE  now <= sent[i] + WATCHDOG_TIMEOUT
  <1>1. /\ i \in TaskIds /\ now \in Nat /\ sent[i] \in Nat /\ stamp[i] \in Nat /\ delay[i] \in Nat
        /\ tpc[i] \in {"work", "send"}
    BY ConstantTypes DEF WatchdogInv, TypeOK
  <1>2. delay[i] + Latency <= WATCHDOG_TIMEOUT
    BY <1>1, ConstantTypes DEF WatchdogInv, DelayInv, TooLong
  <1>3. CASE tpc[i] = "work"
    <2>1. sent[i] = stamp[i] /\ now <= stamp[i] + delay[i]
      BY <1>1, <1>3 DEF WatchdogInv, RoundInv, OnTimeInv
    <2> QED
      BY <1>1, <1>2, <2>1, ConstantTypes
  <1>4. CASE tpc[i] = "send"
    <2>1. now <= stamp[i] + Latency /\ stamp[i] <= sent[i] + delay[i]
      BY <1>1, <1>4 DEF WatchdogInv, OnTimeInv
    <2> QED
      BY <1>1, <1>2, <2>1, ConstantTypes
  <1> QED
    BY <1>1, <1>3, <1>4

\* When the queue is empty the watchdog has seen every latest heartbeat that was not
\* lost.
LEMMA DrainedKeeps ==
  ASSUME WatchdogInv, Watchdog_Drained
  PROVE  WatchdogInv'
  <1> USE DEF WatchdogInv, Watchdog_Drained, taskVars
  <1>1. TypeOK'
    BY DEF TypeOK
  <1>2. RoundInv' /\ OnTimeInv' /\ DelayInv' /\ QueueInv' /\ NoFalseAlarm'
    BY DEF RoundInv, OnTimeInv, DelayInv, QueueInv, NoFalseAlarm
  <1>3. SeenInv' /\ SleepInv'
    BY DEF SeenInv, SleepInv, LastSign
  <1>4. DeliveryInv'
    BY DEF DeliveryInv, Queued, Seen
  <1>5. CheckInv'
    <2> SUFFICES ASSUME NEW i \in healthy \ (lost \cup slow)
                 PROVE  now - s_lastSeen[i] <= WATCHDOG_TIMEOUT
      BY DEF CheckInv
    <2>1. i \in TaskIds /\ now \in Nat /\ sent[i] \in Nat /\ s_lastSeen[i] \in Nat
      BY ConstantTypes DEF TypeOK
    <2>2. ~Queued(i)
      BY DEF Queued
    <2>3. s_lastSeen[i] >= sent[i]
      BY <2>1, <2>2 DEF DeliveryInv, Seen
    <2>4. now <= sent[i] + WATCHDOG_TIMEOUT
      BY SentRecently
    <2> QED
      BY <2>1, <2>3, <2>4, ConstantTypes
  <1> QED
    BY <1>1, <1>2, <1>3, <1>4, <1>5

\* The loop over the tasks: who is in order is not overdue, and who is not reported
\* was heard of recently enough to wait for the next check.
LEMMA CheckKeeps ==
  ASSUME WatchdogInv, Watchdog_Check
  PROVE  WatchdogInv'
  <1> USE DEF WatchdogInv
  <1>1. /\ wpc = "check" /\ wpc' = "sleep" /\ wake' = now + WATCHDOG_CHECK_PERIOD
        /\ s_lastSeen' = [i \in TaskIds |-> IF i \in Overdue THEN now ELSE s_lastSeen[i]]
        /\ reported' = [i \in TaskIds |-> IF i \in Overdue THEN now ELSE reported[i]]
        /\ UNCHANGED <<now, healthy, delay, tpc, stamp, sent, lost, slow, queue>>
    BY DEF Watchdog_Check, taskVars
  <1>2. \A i \in TaskIds : /\ now \in Nat /\ sent[i] \in 0 .. now
                           /\ reported[i] \in 0 .. now /\ s_lastSeen[i] \in 0 .. now
    BY ConstantTypes DEF TypeOK
  <1>3. TypeOK'
    BY <1>1, <1>2, ConstantTypes DEF TypeOK
  <1>4. RoundInv' /\ OnTimeInv' /\ DelayInv' /\ QueueInv'
    BY <1>1 DEF RoundInv, OnTimeInv, DelayInv, QueueInv
  <1>5. NoFalseAlarm'
    <2>1. \A i \in healthy \ (lost \cup slow) : i \notin Overdue
      BY <1>1, <1>2, ConstantTypes DEF CheckInv, Overdue, TypeOK
    <2> QED
      BY <1>1, <2>1 DEF NoFalseAlarm, TypeOK
  <1>6. DeliveryInv'
    <2>1. \A i \in TaskIds : s_lastSeen[i] >= sent[i] => s_lastSeen'[i] >= sent[i]
      BY <1>1, <1>2
    <2> QED
      BY <1>1, <2>1 DEF DeliveryInv, Queued, Seen
  <1>7. SeenInv'
    <2> SUFFICES ASSUME NEW i \in TaskIds PROVE s_lastSeen'[i] <= LastSign(i)'
      BY DEF SeenInv
    <2>1. CASE i \in Overdue
      BY <1>1, <1>2, <2>1 DEF LastSign
    <2>2. CASE i \notin Overdue
      BY <1>1, <2>2 DEF SeenInv, LastSign
    <2> QED
      BY <2>1, <2>2
  <1>8. SleepInv'
    <2>1. now <= wake'
      BY <1>1, ConstantTypes DEF TypeOK
    <2>2. ASSUME NEW i \in TaskIds
          PROVE  wake' <= LastSign(i)' + WATCHDOG_TIMEOUT + WATCHDOG_CHECK_PERIOD
      <3>1. now <= LastSign(i)' + WATCHDOG_TIMEOUT
        <4>1. CASE i \in Overdue
          BY <1>1, <1>2, <4>1, ConstantTypes DEF LastSign
        <4>2. CASE i \notin Overdue
          <5>1. now - s_lastSeen[i] <= WATCHDOG_TIMEOUT
            BY <1>2, <4>2, ConstantTypes DEF Overdue
          <5>2. s_lastSeen[i] <= LastSign(i) /\ LastSign(i)' = LastSign(i) /\ LastSign(i) \in Nat
            BY <1>1, <1>2, <4>2 DEF SeenInv, LastSign
          <5> QED
            BY <1>2, <5>1, <5>2, ConstantTypes
        <4> QED
          BY <4>1, <4>2
      <3>2. LastSign(i)' \in Nat
        BY <1>1, <1>2 DEF LastSign
      <3> QED
        BY <1>1, <1>2, <3>1, <3>2, ConstantTypes
    <2> QED
      BY <1>1, <2>1, <2>2 DEF SleepInv
  <1>9. CheckInv'
    BY <1>1 DEF CheckInv
  <1> QED
    BY <1>3, <1>4, <1>5, <1>6, <1>7, <1>8, <1>9

\* vTaskDelay ends.
LEMMA WakeKeeps ==
  ASSUME WatchdogInv, Watchdog_Wake
  PROVE  WatchdogInv'
  <1> USE DEF WatchdogInv, Watchdog_Wake, taskVars
  <1>1. TypeOK'
    BY DEF TypeOK
  <1>2. RoundInv' /\ OnTimeInv' /\ DelayInv' /\ QueueInv' /\ NoFalseAlarm' /\ CheckInv'
    BY DEF RoundInv, OnTimeInv, DelayInv, QueueInv, NoFalseAlarm, CheckInv
  <1>3. SeenInv' /\ SleepInv'
    BY DEF SeenInv, SleepInv, LastSign
  <1>4. DeliveryInv'
    BY DEF DeliveryInv, Queued, Seen
  <1> QED
    BY <1>1, <1>2, <1>3, <1>4

\* A tick passes only while the watchdog sleeps and no healthy task is at the end of
\* its time.
LEMMA TickKeeps ==
  ASSUME WatchdogInv, Tick
  PROVE  WatchdogInv'
  <1> USE DEF WatchdogInv, Tick, taskVars, watchdogVars
  <1>1. now \in Nat /\ wake \in Nat /\ now' = now + 1
    BY ConstantTypes DEF TypeOK
  <1>2. TypeOK'
    BY <1>1, ConstantTypes DEF TypeOK
  <1>3. OnTimeInv'
    <2> SUFFICES ASSUME NEW i \in healthy
                 PROVE  /\ tpc[i] = "work" => now + 1 <= stamp[i] + delay[i]
                        /\ tpc[i] = "send" => /\ now + 1 <= stamp[i] + Latency
                                              /\ stamp[i] <= sent[i] + delay[i]
      BY DEF OnTimeInv
    <2>1. InTime(i) /\ stamp[i] \in Nat /\ delay[i] \in Nat
      BY DEF TypeOK
    <2> QED
      BY <1>1, <2>1, ConstantTypes DEF OnTimeInv, InTime
  <1>4. RoundInv' /\ DelayInv' /\ QueueInv' /\ NoFalseAlarm' /\ CheckInv'
    BY DEF RoundInv, DelayInv, QueueInv, NoFalseAlarm, CheckInv
  <1>5. SeenInv'
    BY DEF SeenInv, LastSign
  <1>6. SleepInv'
    BY <1>1 DEF SleepInv, LastSign
  <1>7. DeliveryInv'
    BY DEF DeliveryInv, Queued, Seen
  <1> QED
    BY <1>2, <1>3, <1>4, <1>5, <1>6, <1>7

\* Every step keeps the invariant.
LEMMA StepInv == WatchdogInv /\ [Next]_vars => WatchdogInv'
  <1> SUFFICES ASSUME WatchdogInv, [Next]_vars PROVE WatchdogInv'
    OBVIOUS
  <1>1. ASSUME NEW i \in TaskIds, Heartbeat_Stamp(i) \/ Heartbeat_Send(i) \/ Stall(i)
        PROVE  WatchdogInv'
    BY <1>1, StampKeeps, SendKeeps, StallKeeps
  <1>2. CASE Watchdog_Start \/ Watchdog_Drain \/ Watchdog_Drained \/ Watchdog_Check \/ Watchdog_Wake
    BY <1>2, StartKeeps, DrainKeeps, DrainedKeeps, CheckKeeps, WakeKeeps
  <1>3. CASE Tick
    BY <1>3, TickKeeps
  <1>4. CASE UNCHANGED vars
    BY <1>4 DEF vars, taskVars, watchdogVars, WatchdogInv, TypeOK, RoundInv, OnTimeInv, DelayInv,
       QueueInv, DeliveryInv, Queued, Seen, SeenInv, LastSign, CheckInv, SleepInv, NoFalseAlarm
  <1> QED
    BY <1>1, <1>2, <1>3, <1>4 DEF Next, Done

\* In every reachable state the invariant holds.
LEMMA InvHolds == Spec => []WatchdogInv
  BY InitInv, StepInv, PTL DEF Spec

-----------------------------------------------------------------------------
(***************************************************************************)
(* The theorems.                                                           *)
(***************************************************************************)

\* Every variable keeps its type; no stamp is ahead of the clock, and the queue does
\* not overflow.
THEOREM WatchdogTypeCorrect == Spec => []TypeOK
  <1>1. WatchdogInv => TypeOK
    BY DEF WatchdogInv
  <1> QED
    BY <1>1, InvHolds, PTL

\* prvWatchdogTask never reports a task that keeps its time, unless a heartbeat of it
\* was dropped or its wait was set beyond the timeout.
THEOREM NoFalseAlarms == Spec => []NoFalseAlarm
  <1>1. WatchdogInv => NoFalseAlarm
    BY DEF WatchdogInv
  <1> QED
    BY <1>1, InvHolds, PTL

\* A task that goes silent is reported within the timeout and one check period, and
\* again after each further timeout.
THEOREM StallsReported == Spec => []StallReported
  <1>1. WatchdogInv => StallReported
    <2> SUFFICES ASSUME WatchdogInv, wpc = "sleep", NEW i \in TaskIds
                 PROVE  now - LastSign(i) <= WATCHDOG_TIMEOUT + WATCHDOG_CHECK_PERIOD
      BY DEF StallReported, LastSign
    <2>1. now \in Nat /\ wake \in Nat /\ LastSign(i) \in Nat
      BY ConstantTypes DEF WatchdogInv, TypeOK, LastSign
    <2>2. now <= wake /\ wake <= LastSign(i) + WATCHDOG_TIMEOUT + WATCHDOG_CHECK_PERIOD
      BY DEF WatchdogInv, SleepInv
    <2> QED
      BY <2>1, <2>2, ConstantTypes
  <1> QED
    BY <1>1, InvHolds, PTL
=============================================================================

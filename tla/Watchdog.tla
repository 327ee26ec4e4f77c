-------------------------------- MODULE Watchdog --------------------------------
(***************************************************************************)
(* watchdog_task.c and the heartbeats of the application tasks, in time.   *)
(* A task stamps a heartbeat (makeEvent) and then sends it (Bus_Publish);  *)
(* the watchdog wakes every WATCHDOG_CHECK_PERIOD, empties its queue and   *)
(* reports the tasks it has not heard of for WATCHDOG_TIMEOUT.             *)
(*                                                                         *)
(* The watchdog has the highest priority: no tick passes while it runs,    *)
(* and the other tasks run only while it sleeps, or waits for a topic's    *)
(* mutex to publish a report.  Of the bus the model keeps what the         *)
(* watchdog's queue sees of it (EventBus has the rest).                    *)
(***************************************************************************)
EXTENDS Naturals, Sequences, FiniteSetsExt, TLC

CONSTANTS
  TaskIds,               \* the monitored tasks: TaskID_t
  WATCHDOG_TIMEOUT,
  WATCHDOG_CHECK_PERIOD,
  WATCHDOG_QUEUE_DEPTH,
  Delays,                \* the longest from a heartbeat's stamp to the next: sending it,
                         \* the wait at the end of the round, and the work of the next;
                         \* Diagnostics' wait is a setting
  Spacing,               \* the shortest
  Latency,               \* the longest a healthy task takes from stamp to send
  MaxTicks               \* bound: the tick count

ASSUME WatchdogAssumption ==
  /\ WATCHDOG_TIMEOUT \in Nat
  /\ WATCHDOG_CHECK_PERIOD \in Nat \ {0}
  /\ WATCHDOG_QUEUE_DEPTH \in Nat \ {0}
  /\ Spacing \in Nat
  /\ Latency \in Nat
  /\ \A i \in TaskIds : /\ Delays[i] \in SUBSET (Nat \ {0}) /\ Delays[i] # {}
                        /\ \A d \in Delays[i] : d >= Latency
  /\ MaxTicks \in Nat

VARIABLES
  now,                   \* xTaskGetTickCount()
  healthy,               \* the tasks that keep to their delay and to Latency
  delay,                 \* which of them applies in each task's present round
  tpc,                   \* where each task is: "work" or "send"
  stamp,                 \* timestamp of its latest heartbeat
  queue,                 \* s_watchdogQueue
  s_lastSeen,
  wpc,                   \* where the watchdog is
  wake,                  \* when its vTaskDelay ends
  sent,                  \* history: timestamp of the latest heartbeat sent
  lost,                  \* history: the tasks of which a heartbeat was dropped
  slow,                  \* history: the tasks told to wait too long for the watchdog
  reported               \* history: when each task was last reported; 0 if never

taskVars == <<healthy, delay, tpc, stamp, sent, lost, slow>>
watchdogVars == <<s_lastSeen, wpc, wake, reported>>
vars == <<now, taskVars, queue, watchdogVars>>

Heartbeat == [id : TaskIds, timestamp : Nat]

TypeOK ==
  /\ now \in 0 .. MaxTicks
  /\ healthy \subseteq TaskIds
  /\ delay \in [TaskIds -> Nat] /\ \A i \in TaskIds : delay[i] \in Delays[i]
  /\ tpc \in [TaskIds -> {"work", "send"}]
  /\ stamp \in [TaskIds -> 0 .. now]
  /\ queue \in Seq(Heartbeat) /\ Len(queue) <= WATCHDOG_QUEUE_DEPTH
  /\ s_lastSeen \in [TaskIds -> 0 .. now]
  /\ wpc \in {"start", "drain", "check", "sleep"}
  /\ wake \in Nat
  /\ sent \in [TaskIds -> 0 .. now]
  /\ lost \subseteq TaskIds /\ slow \subseteq TaskIds
  /\ reported \in [TaskIds -> 0 .. now]

Zero == [i \in TaskIds |-> 0]

TooLong(d) == d + Latency > WATCHDOG_TIMEOUT

Init ==
  /\ now = 0
  /\ healthy = TaskIds
  /\ delay = [i \in TaskIds |-> Min(Delays[i])]      \* all start with a round
  /\ slow = {i \in TaskIds : TooLong(delay[i])}
  /\ tpc = [i \in TaskIds |-> "work"]
  /\ stamp = Zero
  /\ queue = <<>>
  /\ s_lastSeen = Zero
  /\ wpc = "start"
  /\ wake = 0
  /\ sent = Zero
  /\ lost = {}
  /\ reported = Zero

-----------------------------------------------------------------------------
(***************************************************************************)
(* The application tasks: sendHeartbeat at the end of each round of their  *)
(* loops.                                                                  *)
(***************************************************************************)

TasksRun == wpc \in {"sleep", "check"}

\* makeEvent reads the clock.
Heartbeat_Stamp(i) ==
  /\ TasksRun
  /\ tpc[i] = "work"
  /\ now >= stamp[i] + Spacing
  /\ stamp' = [stamp EXCEPT ![i] = now]
  /\ tpc' = [tpc EXCEPT ![i] = "send"]
  /\ UNCHANGED <<now, healthy, delay, sent, lost, slow, queue, watchdogVars>>

\* Diagnostics reads the configuration for the time to wait; the others' is fixed.
ChooseDelay(i) ==
  \E d \in Delays[i] : /\ delay' = [delay EXCEPT ![i] = d]
                       /\ slow' = IF TooLong(d) THEN slow \cup {i} ELSE slow

\* Bus_Publish: the event is dropped if the watchdog's queue is full.  The task
\* then calls vTaskDelay.
Heartbeat_Send(i) ==
  /\ TasksRun
  /\ tpc[i] = "send"
  /\ \/ /\ Len(queue) < WATCHDOG_QUEUE_DEPTH
        /\ queue' = Append(queue, [id |-> i, timestamp |-> stamp[i]])
        /\ UNCHANGED lost
     \/ /\ Len(queue) >= WATCHDOG_QUEUE_DEPTH
        /\ lost' = lost \cup {i}
        /\ UNCHANGED queue
  /\ sent' = [sent EXCEPT ![i] = stamp[i]]
  /\ tpc' = [tpc EXCEPT ![i] = "work"]
  /\ ChooseDelay(i)
  /\ UNCHANGED <<now, healthy, stamp, watchdogVars>>

\* The task is blocked or starved: from here on it runs late or never.
Stall(i) ==
  /\ TasksRun
  /\ i \in healthy
  /\ healthy' = healthy \ {i}
  /\ UNCHANGED <<now, delay, tpc, stamp, sent, lost, slow, queue, watchdogVars>>

(***************************************************************************)
(* prvWatchdogTask.                                                        *)
(***************************************************************************)

Watchdog_Start ==
  /\ wpc = "start"
  /\ s_lastSeen' = [i \in TaskIds |-> now]
  /\ wpc' = "drain"
  /\ UNCHANGED <<now, taskVars, queue, wake, reported>>

\* Variant: the time of receipt counts, not that of the heartbeat.
Watchdog_Drain_ReceiptTime ==
  /\ wpc = "drain"
  /\ queue # <<>>
  /\ s_lastSeen' = [s_lastSeen EXCEPT ![Head(queue).id] = now]
  /\ queue' = Tail(queue)
  /\ UNCHANGED <<now, taskVars, wpc, wake, reported>>

\* xQueueReceive(s_watchdogQueue, &evt, 0) == pdPASS
Watchdog_Drain ==
  /\ wpc = "drain"
  /\ queue # <<>>
  /\ s_lastSeen' = [s_lastSeen EXCEPT ![Head(queue).id] = Head(queue).timestamp]
  /\ queue' = Tail(queue)
  /\ UNCHANGED <<now, taskVars, wpc, wake, reported>>

Watchdog_Drained ==
  /\ wpc = "drain"
  /\ queue = <<>>
  /\ wpc' = "check"
  /\ UNCHANGED <<now, taskVars, queue, s_lastSeen, wake, reported>>

\* Variant: >= instead of >.
Overdue_OffByOne == {i \in TaskIds : now - s_lastSeen[i] >= WATCHDOG_TIMEOUT}

Overdue == {i \in TaskIds : now - s_lastSeen[i] > WATCHDOG_TIMEOUT}

\* Variant: the reset adds a timeout to the time.
Watchdog_Check_Snoozes ==
  /\ wpc = "check"
  /\ s_lastSeen' = [i \in TaskIds |->
                      IF i \in Overdue THEN now + WATCHDOG_TIMEOUT ELSE s_lastSeen[i]]
  /\ reported' = [i \in TaskIds |-> IF i \in Overdue THEN now ELSE reported[i]]
  /\ wake' = now + WATCHDOG_CHECK_PERIOD
  /\ wpc' = "sleep"
  /\ UNCHANGED <<now, taskVars, queue>>

\* The loop over the tasks: report the overdue ones (SYSTEM_FAULT) and reset
\* their timers, then vTaskDelay.
Watchdog_Check ==
  /\ wpc = "check"
  /\ s_lastSeen' = [i \in TaskIds |-> IF i \in Overdue THEN now ELSE s_lastSeen[i]]
  /\ reported' = [i \in TaskIds |-> IF i \in Overdue THEN now ELSE reported[i]]
  /\ wake' = now + WATCHDOG_CHECK_PERIOD
  /\ wpc' = "sleep"
  /\ UNCHANGED <<now, taskVars, queue>>

Watchdog_Wake ==
  /\ wpc = "sleep"
  /\ now = wake
  /\ wpc' = "drain"
  /\ UNCHANGED <<now, taskVars, queue, s_lastSeen, wake, reported>>

(***************************************************************************)
(* Time.                                                                   *)
(***************************************************************************)

\* A healthy task does not let a tick pass that would make it late.
InTime(i) ==
  \/ tpc[i] = "work" /\ now < stamp[i] + delay[i]
  \/ tpc[i] = "send" /\ now < stamp[i] + Latency

Tick ==
  /\ now < MaxTicks
  /\ wpc = "sleep" /\ now < wake
  /\ \A i \in healthy : InTime(i)
  /\ now' = now + 1
  /\ UNCHANGED <<taskVars, queue, watchdogVars>>

\* The bound MaxTicks is reached.
Done == now = MaxTicks /\ wpc = "sleep" /\ UNCHANGED vars

Next ==
  \/ \E i \in TaskIds : Heartbeat_Stamp(i) \/ Heartbeat_Send(i) \/ Stall(i)
  \/ Watchdog_Start
  \/ Watchdog_Drain
  \/ Watchdog_Drained
  \/ Watchdog_Check
  \/ Watchdog_Wake
  \/ Tick
  \/ Done

Spec == Init /\ [][Next]_vars

-----------------------------------------------------------------------------
(***************************************************************************)
(* Properties.                                                             *)
(***************************************************************************)

\* A task that does what it is told is not reported as stalled, at start-up or
\* later, unless the watchdog's queue was full when it sent a heartbeat, or its
\* wait was set beyond the timeout: diag_period_ms may be 60 s, the timeout is 8 s
\* and does not follow it.  A wait up to the timeout, less the time from stamp to
\* send, is safe, however it is changed from round to round.
NoFalseAlarm == \A i \in healthy \ (lost \cup slow) : reported[i] = 0

\* A task that goes silent is reported at most one check period after the
\* timeout, whatever it was doing when it stopped, and again after each further
\* timeout ("Detects stalled tasks", README).
StallReported ==
  \A i \in TaskIds :
    wpc = "sleep" =>
      now - (IF reported[i] > sent[i] THEN reported[i] ELSE sent[i])
        <= WATCHDOG_TIMEOUT + WATCHDOG_CHECK_PERIOD
=============================================================================

# A TLA+ model of the pub/sub middleware

This directory holds TLA+ specifications of the FreeRTOS publish/subscribe
middleware in `pubsub_rtos/`, the TLC configurations that check them on small
instances, and TLAPS proofs of what holds for every instance. `PROJECT.json`
lists the runs, the source lines behind each definition, the hazards each
property is aimed at, and the theorems.

    tlc -workers 2 -config MC_BusLog.cfg MC_BusLog     # a run
    tlapm EventBusProofs.tla                           # the proofs

## 1. The system

A device firmware on FreeRTOS (POSIX port, preemptive, 1000 Hz tick): about a
dozen tasks that talk to each other only through an in-process event bus.

| Part | Source | State | Operations |
|---|---|---|---|
| Event bus | `event_bus.c` | per topic: subscriber list, mutex, statistics; `s_dropCount`, `s_nextEventId` under `s_dropLock` | `Bus_Init`, `Bus_Subscribe`, `Bus_PublishWithCount`, `Bus_PublishFromISR`, getters |
| Event construction | `app_tasks.c` `makeEvent` | `s_taskSequences[]`, no lock | called before every publication |
| Payload pool | `payload_pool.c` | 8 blocks: `inUse`, `refCount`, descriptor, under `s_poolLock` | `Pool_Alloc`, `AddRef`, `SetRefCount`, `Free`, `GetFreeCount` |
| Zero-copy frames | `app_tasks.c` `publishFrameReady`, Storage, Cloud, Logger | `frameSeq`, pointers in events | allocate, share, publish, free what was not sent; each subscriber frees |
| Fault manager | `fault_manager.c`, HealthManager | ring of faults, device state, last signal | `FaultManager_HandleEvent`, announcement of the state |
| Watchdog | `watchdog_task.c` | `s_lastSeen[]`, its queue | drain heartbeats, report overdue tasks, every 200 ms |
| Configuration | `runtime_config.c`, ConfigManager | `s_config` under `s_configLock` | load, migrate, set, save |
| Storage | `storage_backend_posix.c` | `device_config.nvm`, a log | read, write, append |
| Application tasks | `app_tasks.c` | periods, last readings | Sensor, Command, Network, Power, Diagnostics publish; Storage, Cloud, Logger, Health, Config consume |
| Command parser | `command_parser.c` | none | text line to command |
| Telemetry encoder | `telemetry_encoder.c` | none | event to text |
| Start-up | `main.c` | none | initialise, subscribe, start the scheduler |

**Interactions.** Publishers call into the bus, which copies the event into each
subscriber's queue without waiting, under the topic's mutex. Subscribers block in
`xQueueReceive`. Large payloads travel as a pointer into the pool, one reference
per subscriber. Every task sends heartbeats through the same bus to the watchdog,
which publishes `SYSTEM_FAULT`; HealthManager turns that and other signals into a
device state. ConfigManager applies `CONFIG_UPDATE` and saves.

**What is hard here.** A fan-out is a long critical section in which subscribers
run and queues fill; counters are updated one at a time; sequence numbers and the
interrupt path use no lock; the pool's references are given away before the
publisher is done with the block; the watchdog's heartbeats are stamped before they
are sent; and power can fail in the middle of a save.

**What makes each part correct.**

- Bus: fan-outs on a topic do not interleave; each offered event is delivered or
  counted as dropped, exactly once; the caller learns how many got it; one order of
  a topic's events for all; a slow subscriber stalls nobody.
- Pool and frames: the count is the number of references; no block is recycled while
  referenced; each block comes back; a frame event always points to its frame.
- Faults: the ring holds the latest faults in order; suppression only of recent
  repetitions; the announced state catches up with the real one.
- Watchdog: every silent task is reported in time, no working task is.
- Configuration: no boot sees a mixture of records; settings stay in range; "ok"
  means done; boots are counted and settings survive.
- Application: what a command line asks for happens, each request is answered once, a
  fault is announced whatever else is going on, and the tasks' reactions to each other
  come to an end.

## 2. Modules

| Module | Role |
|---|---|
| `EventBus` | The bus and `makeEvent`, at the granularity of task switches |
| `TopicLog` | Abstract specification: a topic is a log from which each subscriber takes or loses each event |
| `BusLog` | `EventBus` with the log as a history; implements `TopicLog` |
| `EventBusISR` | Extends `EventBus` with `Bus_PublishFromISR` |
| `EventBusProofs` | Theorems about `EventBus`, and the lemmas that the next one and `FramePathProofs` use |
| `BusExtensionsProofs` | `EventBus` implements `TopicLog`; a theorem about `EventBusISR` |
| `PayloadPool` | The functions of `payload_pool.c`, each one step |
| `PoolContract` | Abstract specification: the pool with callers that keep its contract |
| `PoolContractProofs` | Theorems about it |
| `FramePath` | Composes `EventBus` and `PayloadPool` with publisher and subscribers of `FRAME_READY`; implements `PoolContract` |
| `FramePathProofs` | Theorems about it, the refinement included |
| `FaultRules` | Severities and device states of `fault_manager.c` |
| `FaultManager` | `fault_manager.c` and HealthManager |
| `FaultManagerProofs` | Theorems about it |
| `Watchdog` | `watchdog_task.c` and the tasks' heartbeats, in discrete time |
| `WatchdogProofs` | Theorems about it |
| `DeviceConfig` | The configuration record and what its setters accept and do |
| `RuntimeConfig` | Extends it with `runtime_config.c`, the file backend, ConfigManager, with faults |
| `RuntimeConfigProofs` | Theorems about it |
| `CommandParser` | `CommandParser_Parse` on lines given as words |
| `AppTasks` | The ten tasks of `app_tasks.c` and the watchdog's reports, composed; uses `DeviceConfig`, `FaultRules`, `CommandParser` |
| `AppTasksProofs` | Theorems about it |
| `MC_*` | Instances for TLC |

Definitions whose comment begins with "Variant:" are deliberately wrong versions
of the definition that follows them. They occur in no specification. Putting one in
the place of the original makes TLC report the property that `PROJECT.json` pairs
it with, which shows that the property depends on that piece of code.

### EventBus

A critical section that neither blocks nor takes another mutex is one step.
`Bus_PublishWithCount` is not: it is the steps `AllocateEventId`,
`Publish_TakeLock`, `Publish_Begin`, then per subscriber `SendAccepted`,
`CountDelivered` or `SendRejected`, `IncrementDropCount`, `CountDropped`, and
`Publish_Return`. `s_dropLock` is held within single steps only: no section under it
takes another mutex, so a wait for it is over by itself. That is read off the code, and
`PublishCompletes`, which is about waits for topics' mutexes, says nothing of it. The
watchdog's fault event is not built by `makeEvent` but zero-initialised
(`UnstampedEvent`): its number is 0, and its source the task whose id is 0. `makeEvent` is
`MakeEvent_Load`, `_Store`, `_Reload`: the build does not optimise, so
`++s_taskSequences[source]` and the read for `evt.sequence` are separate accesses.
The subscriptions are made, in order, before the scheduler starts (`Running`); one
that finds the topic's list full fails, and its caller does not look. The code does not
look for duplicates, but `AppTasks_Start` and `Watchdog_Init` repeat no call: the
assumption `SubscribedOnce` says so. Any interleaving of tasks is allowed, more than
the priorities allow. `received` is a history of what each consumer has taken. Topics,
sources and payloads are model values: nothing depends on their contents. The
counters are unbounded; in the code they are `uint32_t`, and 2^32 events are out of
the reach of a check.

### TopicLog, BusLog

`TopicLog` is what a user of the bus may rely on: per topic a log, per queue what it was
given, and the set of subscribers that have yet to be offered the last event. An event is
offered to the whole audience, once each, before the topic's next event; an offer is
taken (`Deliver`) or lost (`Drop`). `BusLog` adds the log to `EventBus` (a history
variable that no action reads) and gives the mapping: a queue was given what its consumer
has received and what it still holds, and an offer is over when `xQueueSend` has
returned.

### EventBusISR

The handler runs between two instructions of a task. Where it increments a counter
that some task is about to increment, its increments may be lost (`Added`), since the
task's load may already have happened. This is the code's data race as a choice. No
handler in the repository calls it yet; `porting_guide.md` asks drivers to.

### PayloadPool, PoolContract, FramePath

Of a descriptor the model keeps `sequence`, which tells one use of a block from the
next. `PoolContract` adds `refs`, the references callers hold, and lets them do only
what a holder may do. `FramePath` has the steps of `publishFrameReady`, its
subscriber count read under the mutex before the publication included, and the
subscribers' receive and `Pool_Free`. Its refinement mapping counts references: one for
each place of a `FRAME_READY` event that waits in a queue or is being handled
(`Outstanding`, `References`), and those that the publisher has not handed over
(`SensorRefs`). It assumes what the code has: nobody else publishes on `FRAME_READY`,
and the number of its subscribers fits in a `uint8_t`. In an event the record
field `frame` is no part of the payload; it says which frame the event announces.

### FaultManager

`FaultManager_HandleEvent` is one critical section and one step; HealthManager
announces in a later one. `handled` is the history of signals; for the ring,
`FaultIndices` are the accepted faults in it, `Rank` counts them from the newest, and
`SlotBack` is the slot where one should be.

### Watchdog

Time is `now`. Each task stamps a heartbeat and sends it later, and then waits: for a
fixed time, or, in Diagnostics, for the time that the configuration holds at that moment
(`ChooseDelay`). A *healthy* task lets at most that `delay` pass between stamps and
`Latency` between stamp and send; `slow` remembers who was told to wait too long;
`Stall` makes a task late or silent for good. A wait is counted from stamp to stamp, so
it includes the time to send and is no shorter than `Latency`. The watchdog has the highest priority, so no tick
passes while it runs and other tasks run only when it sleeps or may wait for a
mutex. The bus between task and queue is reduced to "sent or dropped".

### RuntimeConfig

One thread of control at a time writes: start-up, then ConfigManager. A save is the
steps copy, `fopen` (truncates), write out. `Faults` says what may fail: power in the
middle of a change, `fopen`, a short `fwrite`, the flush in `fclose`, a changed byte.
The history variable `failed` collects what did. A short write cuts the record between
two fields; one of the cuts has the size of a v1 record. A device is first switched on
without a file or with a whole one of either format (`ConfigAssumption`). The CRC is idealised as the
tuple of the fields it covers, that is, without collisions.

### AppTasks, CommandParser

Here a publication is one step, in which each subscriber's queue takes the event or,
being full, drops it: what `EventBus` and `TopicLog` show of the bus. A round of a task
computes what it will publish (`todo`), and the publications follow one by one, with
steps of other tasks between them; PowerMonitor reads the configuration in the middle of
its round (`Power_Check`). Every round ends with a heartbeat, which only the watchdog's
queue sees: heartbeats, and their drops, are left to `Watchdog`.

The tasks run by their priorities, as `xTaskCreate` sets them: a task that can run is not
overtaken by one of lower priority. Tasks of equal priority interleave freely, and when a
producer's `vTaskDelay` ends is left open.

Of the data, the model keeps what some task branches on: topics, `payload[0]` (which the
fault manager compares and classifies), the values of commands and updates, temperature
and voltage, the settings. A save succeeds or fails (`RuntimeConfig` says how), a repeated
signal is suppressed or not (`FaultManager` says when), a frame is due or not and finds a
block or not (`FramePath`), and the watchdog reports tasks (`Watchdog`).

A command line is a verb, an argument and perhaps a number; `rest` says that text follows,
which `sscanf` ignores and `strcmp` does not. How words are told apart is left out: a blank
in the format of `sscanf` matches any white space, none included, so that
`SETtemp_threshold 1` is taken as well, and `%31s` cuts a longer argument. The program's own
lines have single blanks and short words. `MC_AppTasks` assumes the vectors of the
repository's parser test, which TLC evaluates.

## 3. Runs

| Run | Instance | Checks |
|---|---|---|
| `bus` | 3 tasks, 2 topics, queues of length 1 and 2, 3 events | `TypeOK`, `LockOwner`, `StatsBalance`, `SnapshotConsistent`, `DropCountExact`, `DeliveredExact`, `SentCountExact`, `StampedInOrder`, `EventIdIdentifies`, `PublishCompletes`, `ImplementsTopicLog` |
| `isr` | 2 tasks, 2 events, 2 interrupts | `SentCountExact`, `CountersNeverAhead` |
| `pool` | 3 blocks, counter modulo 4 | `RefCountExact`, `NoRecycling` |
| `frames` | 2 blocks, 3 frames, 2 subscribers, a second publisher | `FrameIntact`, `ImplementsContract`, `FaultMeansExhausted`, `BlockReturns` |
| `frames_nosubs` | no subscriber of `FRAME_READY` | `ImplementsContract` |
| `faults` | 5 signals of all severities, ring of 2, 4 signals in 4 ticks | `TypeOK`, `RingHoldsLatest`, `SuppressedOnlyIfRecent`, `StateTracksLatest`, `StateAnnounced` |
| `watchdog` | 2 tasks, one with a changing delay, timeout 3, check period 1, queue of 2, 7 ticks | `TypeOK`, `NoFalseAlarm`, `StallReported` |
| `config` | all faults, 5 updates, 3 initial files, 3 boots | `TypeOK`, `RestoredWhole`, `SettingsInRange`, `SaveResultHonest`, `BootCounter`, `SettingsSurvive` |
| `tasks` | all ten tasks, 4 starts, queues of 1 and 2, 2 rounds of producers | `TypeOK`, `SettingsAsCommanded`, `OneAnswerEach`, `AlertsCurrent`, `FaultAnnounced`, `ReactionsDieOut` |

Three more runs refute what a document or a comment says; section 6 describes them.

**Why the bounds are enough.** Each instance reaches every action and the case its
properties are about. On the bus, three events over a queue of one force drops in
the middle of a fan-out, and two publishers and the watchdog meet on the fan-in
queue; the theorems cover any size. Two blocks
and three frames exhaust the pool and recycle a block. A ring of two overflows at the
third fault, and `FAULT_DEBOUNCE_TICKS` of 2 in 4 ticks allows signals before, at and
after the window. The watchdog's seven ticks hold two timeouts with their checks, and
its queue of two overflows when both tasks catch up. Three boots are one that
migrates, one that reads the result, and one more after a failure. In `tasks`, two
rounds of any two producers put up to ten events on queues of one and two, with all
reactions to them; since rounds begin at any time, this is any pair of rounds that
overlap. The starts are states between two rounds: the first after power-up, one with the
`SET` lines next (the second update finds ConfigManager's queue full), a temperature at
the threshold and StorageTask's fifth event near, one in which `commandIndex` wraps,
the temperature passes below 0 and drops have happened, and one in which the next lines
set the low voltage, with the supply just at it. So an update of a limit waits while the
reading that it would change the verdict on is being published.

**Deadlock** is checked in all runs. Where a bound ends a behaviour an explicit
stuttering action (`Quiescent`, `FrameQuiescent`, `Done`) says so, enabled only when
nothing is in progress.

**Fairness.** `EventBus`: each task in a publish call takes its next step
eventually, if it can; the code blocks in `vTaskDelay` or `xQueueReceive` in each round
of each loop, so lower priorities get the processor. Nothing is assumed of consumers,
so `PublishCompletes` holds even if all queues stay full. `FramePath`: the same, and
the subscribers of `FRAME_READY` receive and free; they wait for nothing else without a
timeout. `FaultManager`: HealthManager announces after it has handled a signal; signals
and time are not fair. `AppTasks`: a task that has begun a round
finishes it, and `xQueueReceive` returns with an event or after its timeout; whether a
producer begins another round is left open. `Watchdog` and `RuntimeConfig` use no fairness: "in time" is a
safety property here.

**What they say, where it is not obvious.**

- `ImplementsTopicLog` contains that subscribers agree on the order of a topic's events,
  that each event is offered once to everyone who subscribed, and that nothing is
  delivered that was not published.
- `NoFalseAlarm` excuses a task one of whose heartbeats the full queue rejected, and one
  whose wait was set beyond the timeout (`diag_period_ms` may be 60 s). The
  code does not bound bursts (consumers send a heartbeat per event), and Network sends
  one in 6 s of the 8 s timeout, so a single loss there is a false alarm.
- `StallReported` allows the timeout plus a check period since the last heartbeat sent
  or the last report, and holds whatever is lost or late.
- `SaveResultHonest` is claimed only as long as no flush failed, since the code ignores the
  result of `fclose`, and for values that fit in the setter's parameter.
- `SettingsSurvive` is claimed as long as at most `fopen` failed; `BootCounter` as long
  as nothing did. After other faults `RestoredWhole` still holds: the last whole
  record, or the defaults.
- `SettingsAsCommanded` and `OneAnswerEach` speak of the requests that found room in the
  queue. One that did not is lost: nobody looks at the result of `Bus_Publish`.
- `StampedInOrder` exempts the events numbered 0. The watchdog's `SYSTEM_FAULT` is one, and
  carries the name of the task with id 0, so a subscriber of both sees *n*, 0, *n + 1*
  under one name. `SourceFifo`, which exempts nothing, is what `event_bus.h` calls
  "publisher-local sequence"; it holds of neither the
  watchdog's events nor a shared name (section 6).
- `AlertsCurrent` holds because of the priorities. SensorManager publishes three events
  between its copy of the configuration and the alert, PowerMonitor can be preempted between
  the two, and a SET may wait for ConfigManager all the while; the `xTaskCreate` priorities keep ConfigManager out until
  the alert is published. With ConfigManager above them TLC finds an alert about a limit
  that is no longer in force. The property ends with the publication: in a subscriber's
  queue an alert may of course become old.
- `ReactionsDieOut` would fail if a task reacted to a topic by publishing on one that leads
  back to it; Cloud's reaction to `ACTUATOR_COMMAND` and the announcements of Health and
  Config, which Cloud receives, come close.

## 4. Proofs

All theorems hold for every value of the constants that satisfies the named
assumptions: any sets of tasks, topics, queues and call sites, any queue lengths, any
bounds. Except for `SourceFifo` and those in the second table, each is a property of section 3's
passing runs, where TLC checks it on an instance.

| Module | Theorem | States | Assumptions |
|---|---|---|---|
| `EventBusProofs` | `TypeCorrect`, `MutualExclusion`, `StatisticsBalance`, `SnapshotsConsistent` | `TypeOK`, `LockOwner`, `StatsBalance`, `SnapshotConsistent` | `BusAssumption` |
| | `DropCounterExact`, `DeliveryCounterExact` | `DropCountExact`, `DeliveredExact` | the same |
| | `IdsIdentifyEvents`, `SentCounts` | `EventIdIdentifies`, `SentCountExact` | and `SubscribedOnce` |
| | `StampedSourcesInOrder` | `StampedInOrder` | and `OneTaskPerSource` |
| | `NamesInOrder` | `SourceFifo` | and `AllStamped` |
| `BusExtensionsProofs` | `BusImplementsLog` | `ImplementsTopicLog` | `BusAssumption`, `SubscribedOnce` |
| | `CountersBehind` | `CountersNeverAhead` | `BusAssumption`, `IsrAssumption` |
| `PoolContractProofs` | `RefCounting`, `NoRecyclingHolds` | `RefCountExact`, `NoRecycling` | `PoolAssumption` |
| `FramePathProofs` | `FramesIntact`, `FramePathKeepsContract`, `FaultsMeanExhaustion` | `FrameIntact`, `ImplementsContract`, `FaultMeansExhausted` | those of bus and pool, `FrameAssumption` |
| `FaultManagerProofs` | `FaultTypeCorrect`, `RingCorrect`, `DebounceBounded`, `StateIsOfLatest` | `TypeOK`, `RingHoldsLatest`, `SuppressedOnlyIfRecent`, `StateTracksLatest` | `FaultAssumption` |
| `WatchdogProofs` | `WatchdogTypeCorrect`, `NoFalseAlarms`, `StallsReported` | `TypeOK`, `NoFalseAlarm`, `StallReported` | `WatchdogAssumption` |
| `RuntimeConfigProofs` | `ConfigTypeCorrect`, `SettingsStayInRange`, `BootFindsWholeRecord`, `SaveResultsHonest`, `BootsCounted`, `BootRestoresSettings` | `TypeOK`, `SettingsInRange`, `RestoredWhole`, `SaveResultHonest`, `BootCounter`, `SettingsSurvive` | `ConfigAssumption` |
| `AppTasksProofs` | `AppTypeCorrect`, `RequestsAnswered`, `SettingsFollowCommands`, `AlertsStayCurrent` | `TypeOK`, `OneAnswerEach`, `SettingsAsCommanded`, `AlertsCurrent` | `AppAssumption` |

Four liveness properties that only TLC can check have a part that is safety, and that part
is proved:

| Module | Theorem | States | Part of |
|---|---|---|---|
| `EventBusProofs` | `CallsAreBounded` | A publish call has at most three steps per subscriber and six more left; who waits for a topic's mutex holds none, and its holder waits for nothing | `PublishCompletes` |
| | `CallsAlwaysAdvance` | Each step of a call lowers that bound, and nothing raises it | |
| `FramePathProofs` | `NoLeaks` | A block in use has a holder: `publishFrameReady`, or an event that a subscriber has or will get | `BlockReturns` |
| `FaultManagerProofs` | `AnnouncementUnderWay` | When HealthManager waits for an event, it has announced the present state | `StateAnnounced` |
| `AppTasksProofs` | `FaultNotHidden` | When HealthManager takes a `SYSTEM_FAULT`, `FAULT` is announced or is what it publishes next | `FaultAnnounced` |

What fairness adds to them is only that the step which is next is taken.

The assumptions are the types of the constants and what section 2 says of them.
`OneTaskPerSource` and `AllStamped` are different: they are hypotheses of two theorems, and
the program keeps neither. `OneTaskPerSource` says that the call sites which number their
events use each name from one task only. The program keeps it for the names other than
HealthManager's, under whose id `publishSimple` makes others publish. It is enough for
`StampedInOrder`, which speaks of numbered events. `AllStamped` says that every call site
numbers its events; the watchdog's does not. With both, `SourceFifo` holds without
exemption. So there are two reasons, and no third, why a subscriber may see the numbers of
a name out of order: the shared name and the unnumbered event. Run `bus_shared_source` shows the first; section
6 describes both.

`AppAssumption` says of a state to begin with (between two rounds, with empty queues) that
its configuration is sealed and that its device state is that of the last accepted signal,
if there was one: what `AnnounceInv` below shows of every later state.

### The arguments

**Statistics.** `StatsBalance` speaks of topics that nobody publishes on and is not
inductive. `BusInv` adds what holds during a fan-out: the loop counter stays within the
list (`LoopBounds`), nothing is published before start-up is over, so that the
subscriber list does not grow under the statistics (`QuietStart`), and after *n - 1*
subscribers the counters lack exactly the rest (`StatsInv`). `LockOwner` is needed to
know that at most one task is in that position.

**Counters against queues.** `DropCountExact` and `DeliveredExact` compare a counter with
the size of a set. They are nearly inductive (`CountInv`); what is added is that the sets
are finite. The work is in the lemmas that a send adds one place to what was delivered,
that receiving adds none, and that one more drop adds one to a sum over topics.

**Identity.** Two events have one id only if they are the same. For that, ids in progress
must differ and be behind the allocator (`FreshIds`), and an event in progress must have
reached only the subscribers that its loop has passed (`OwnEvent`), which needs that no
queue is in a list twice (`SubscriberInv`). `SentInv` is `SentCountExact` in the middle
of the loop.

**Order.** The number of an event in progress is its source's counter, or will be
(`NumberInv`), and everything delivered of the source is numbered below it, unless it is
the event itself (`OrderInv`). The second case is why order rests on identity. For the
claim without exemption, `NonzeroInv`: if every call site counts from 1, no event in
progress or delivered has the number 0.

**The log.** `AudienceInv` says that the lists hold the queues of the first
`MAX_SUBSCRIBERS_PER_TOPIC` calls of each topic, `NewestInv` that the event which a loop
offers is the last of the log. `Publish_Begin` is then a `Publish` of the log,
`SendAccepted` a `Deliver`, `SendRejected` a `Drop`, and all other steps stutter. The
refinement has no liveness.

**Interrupts.** With lost updates the statistics do not balance and `BusInv` is false.
What remains is `BaseInv` (types, loop bounds, quiet start) and `BehindInv`: each counter
plus the number of tasks that still have to increment it is at most what it counts. A
lost increment only widens the gap.

**Frames.** `FrameInv` has three parts. `StaticInv` is what the bus keeps by itself.
`UseInv` is what the users of the pool keep between them: where publisher and loop are
(`SensorInv`, `PendingInv`), that as many queues have been sent the frame as `accepted`
says (`ProgressInv`), which frames are in the queues (`AnnouncedInv`, `UnsentInv`,
`HandledInv`), and what the blocks hold (`FilledInv`, `FrameIntact`). `CountedInv` says
that each count is the number of references. Every step is shown to be a step of
`PoolContract` or to leave count and references alone, and `CountedInv` follows from that
alone, so that the pool's side is argued once. `FilledInv` claims the publisher's block
only while it still has references: the subscribers may have freed everything before
`Bus_PublishWithCount` returns, and somebody else may have the block by then.

**Faults.** The debounce compares with the last accepted signal. `LatestInv` says that
this has the topic and code of the latest signal handled, accepted or not; from it follow
the state and the suppression. For the ring, a lemma on remainders shows that when
`s_next` advances, every slot is one place further back.

**Watchdog.** `NoFalseAlarm` needs a chain from the task to `s_lastSeen`: a healthy task
stamps and sends in time (`OnTimeInv`, `RoundInv`, `DelayInv`), its latest heartbeat
waits in the queue with none of its own behind, or was seen (`DeliveryInv`), so when the
queue is empty `s_lastSeen` is recent (`CheckInv`). For `StallReported`, `s_lastSeen` is
never ahead of the last sign (`SeenInv`, `QueueInv`), and each sleep ends in time
(`SleepInv`).

**Configuration.** `FileInv` lists what the file can be: the record last written whole, in
either format, one that the CRC rejects, or a cut one. `SnapshotInv` says that nobody
changes the settings during a save; `IntactInv`, `CounterInv` and `ResultInv` tie file,
memory and result together for as long as the faults that part them have not happened.

**Publish calls.** `StepsLeft` counts down: six steps before and after the loop, three
per subscriber. That it never goes up needs `QuietStart` (no list grows during a call) and
that other tasks touch neither the event nor the loop counter; that it is bounded needs
`LoopBounds` and `ListsFit`. That nobody waits in a circle follows from `LockOwner`: a
task that waits is not in the loop, so it holds no topic's mutex.

**Application.** `AppInv` has five parts beside the types, one for each thing that must stay
in step. `AnswersCounted` is `OneAnswerEach` with a counting operator, about which there
are lemmas on queueing, taking and publishing; requests and answers are counted by topic
in sequences, as cardinalities of sets of places, so that no induction over sequences is
needed. `QueueInv` says that queues hold only subscribed topics: without it ConfigManager
might answer something that was no request. For `SettingsAsCommanded` the
state in which the queue is empty is reached through states in which it is not:
`WantedInv` says of each setting that it is as wanted, or that the last update waiting for
it will make it so; `UpdateInv`, that all updates come from CommandTask's present line and
have a key and a value that the setter takes as they are. `AnnounceInv` says that
HealthManager has announced the fault manager's state or is about to, and that this is the
state of the last accepted signal: so a suppressed fault is one whose state is announced
already. `AlertsCurrent` is inductive given the types. The step that could break it is
`Config_Apply`, and that step needs `MayRun("CONFIG_MANAGER")`: SensorManager and
PowerMonitor, which are above it, have nothing left to publish then (`ConfigWaits`).

### Only model-checked

Liveness under fairness is out of the prover's reach: `PublishCompletes`, `BlockReturns`,
`StateAnnounced`, `FaultAnnounced` and `ReactionsDieOut` are checked by TLC on the
instances. The safety part of the first four is proved (second table). For the last one a
measure would have to add up, over queues of any length, how many reactions each waiting
event can still cause, and what such a sum does when a queue changes is an induction over
sequences. What the parser returns is checked on the vectors of the repository's test.
The three claims at the head of section 6 are refuted by TLC.

## 5. Not modelled

- The telemetry encoder and `StorageBackend_AppendLog`: text formatting and output, which
  nothing in the program reads back.
- Humidity, units, quality, event priorities: carried in events, looked at by nobody.
- The fields of Diagnostics' report other than the drop count.
- The getters that only read, and the FreeRTOS hooks (memory for the idle and timer tasks,
  endless loops after a failed assertion).
- FreeRTOS itself: queues and mutexes as the code uses them, the scheduler as
  arbitrary interleaving in `EventBus` and as fixed priorities in `AppTasks`. Failure of
  allocations at start-up stops the program there.

## 6. Where code and documents disagree

- `bus_shared_source`: `publishSimple` makes Sensor, Storage and Cloud publish under
  HealthManager's id. The increment of the sequence counter is not protected, so a
  subscriber can see a number of the "publisher-local sequence" twice or out of order.
- `faults_debounce`: only the last signal is remembered, so A, B, A within two seconds
  records A twice, where `fault_model.md` says repetitions are debounced.
- `config_torn`: a save truncates the only copy first. Power lost then wipes settings
  and boot counter, on the first boot after an upgrade too ("without wiping user
  settings", `faqs.txt`).

Met while modelling, part of the models, without a run of their own:

- the watchdog fills in its `SYSTEM_FAULT` without `makeEvent` (`watchdog_task.c:60`), and the
  fields that it leaves zero say "SensorManager, number 0". Storage, Cloud and Logger see
  that 0 between two of SensorManager's own numbers, although nobody shares its name:
  `SourceFifo`, the "publisher-local sequence" of `event_bus.h`, is false where the watchdog
  takes part, and run `bus` checks `StampedInOrder` in its place;
- Diagnostics casts the drop count to `uint8_t`, for the report and for the console: after
  256 drops it shows none, although `faqs.txt` relies on "the drop counter and the stats
  task" to make drops visible;
- increments of the interrupt path can be lost;
- `publishFrameReady` reads the descriptor for its log line after it gave its references
  away (`Frame_Print`): the block may be free, and zeroed, by then;
- a heartbeat sent long after it was stamped moves `s_lastSeen` back behind the reset, and
  its task is reported again at the next check;
- `diag_period_ms` may be set above the watchdog's timeout, which makes Diagnostics look
  stalled;
- a threshold of 300 is stored as 44 and reported as applied;
- a temperature that falls below 0 becomes 50 and crosses the threshold;
- 256 is no multiple of nine, so after 256 commands the cycle starts over out of turn;
- the first byte of `DEVICE_STATUS` is a device state if HealthManager sent it, 1 or 2 for
  success or failure if ConfigManager did, and 0 after `GET status`.

## 7. Plan

The order of work was: the bus first, as everything else rests on it, then pool and frames,
faults, watchdog, configuration, with the first theorems; then the application tasks, the
parser and the abstract log; then the proofs. All of it is done: every invariant and every
action property that a run checks and that holds is also proved, and so are both
refinements. Worth adding, if the program grows: drivers that call `Bus_PublishFromISR`,
and a second writer of the configuration, which today's model of a save excludes because
the code has none.

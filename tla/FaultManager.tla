------------------------------ MODULE FaultManager ------------------------------
(***************************************************************************)
(* fault_manager.c and the HealthManager task that drives it: signals are  *)
(* classified, debounced against the last accepted one, mapped to a device *)
(* state, recorded in a ring, and announced as DEVICE_STATUS.              *)
(***************************************************************************)
EXTENDS FaultRules, Naturals, Sequences, FiniteSets

CONSTANTS
  Signals,               \* the events HealthManager receives: topic, code (payload[0])
  FAULT_HISTORY_DEPTH,
  FAULT_DEBOUNCE_TICKS,
  MaxSignals,            \* bound: number of signals
  MaxTicks               \* bound: the tick count

Topics == {"SYSTEM_FAULT", "SECURITY_EVENT", "POWER_EVENT", "THRESHOLD_CROSSED",
           "NETWORK_STATUS", "DIAGNOSTIC_REPORT"}

Signal == [topic : Topics, code : 0 .. 255]

ASSUME FaultAssumption ==
  /\ Signals \subseteq Signal
  /\ FAULT_HISTORY_DEPTH \in Nat \ {0}
  /\ FAULT_DEBOUNCE_TICKS \in Nat
  /\ MaxSignals \in Nat /\ MaxTicks \in Nat

TOPIC_MAX == "TOPIC_MAX"

FaultRecord == [timestamp : Nat, topic : Topics, code : 0 .. 255, severity : Severities]
ZeroRecord == [timestamp |-> 0, topic |-> "TEMP_UPDATE", code |-> 0, severity |-> "INFO"]

Slots == 0 .. FAULT_HISTORY_DEPTH - 1

VARIABLES
  now,                   \* xTaskGetTickCount()
  s_history, s_next, s_state, s_lastTopic, s_lastCode, s_lastTick,
  hpc,                   \* HealthManager: waiting for an event or about to announce
  announced,             \* the device state of its last DEVICE_STATUS
  handled                \* history: the signals handled, when, and whether accepted

faultVars == <<s_history, s_next, s_state, s_lastTopic, s_lastCode, s_lastTick>>
vars == <<now, faultVars, hpc, announced, handled>>

TypeOK ==
  /\ now \in 0 .. MaxTicks
  /\ s_history \in [Slots -> FaultRecord \cup {ZeroRecord}]
  /\ s_next \in Slots
  /\ s_state \in DeviceStates
  /\ s_lastTopic \in Topics \cup {TOPIC_MAX}
  /\ s_lastCode \in 0 .. 255
  /\ s_lastTick \in 0 .. now
  /\ hpc \in {"receive", "announce"}
  /\ announced \in DeviceStates
  /\ handled \in Seq([signal : Signal, tick : Nat, accepted : BOOLEAN])

\* FaultManager_Init, and HealthManager before its first event.
Init ==
  /\ now = 0
  /\ s_history = [k \in Slots |-> ZeroRecord]
  /\ s_next = 0
  /\ s_state = "BOOTING"
  /\ s_lastTopic = TOPIC_MAX
  /\ s_lastCode = 0
  /\ s_lastTick = 0
  /\ hpc = "receive"
  /\ announced = "BOOTING"
  /\ handled = <<>>

\* Variant: <= instead of <.
Debounced_OffByOne(e) ==
  /\ e.topic = s_lastTopic
  /\ e.code = s_lastCode
  /\ now - s_lastTick <= FAULT_DEBOUNCE_TICKS

Debounced(e) ==
  /\ e.topic = s_lastTopic
  /\ e.code = s_lastCode
  /\ now - s_lastTick < FAULT_DEBOUNCE_TICKS

Record(e) == [timestamp |-> now, topic |-> e.topic, code |-> e.code,
              severity |-> classifyFault(e)]

\* Variant: s_next runs past the end of the ring.
NextSlot_NoWrap == s_next + 1

NextSlot == (s_next + 1) % FAULT_HISTORY_DEPTH

\* Variant: s_next is advanced before the record is written.
Recorded_AdvancesFirst(e) == [s_history EXCEPT ![NextSlot] = Record(e)]

Recorded(e) == [s_history EXCEPT ![s_next] = Record(e)]

\* Variant: an INFO signal leaves the state alone.
StateAfter_KeepsFault(e) ==
  IF classifyFault(e) = "INFO" THEN s_state ELSE stateForSeverity(classifyFault(e))

StateAfter(e) == stateForSeverity(classifyFault(e))

\* The first part of FaultManager_HandleEvent's critical section: an accepted
\* signal becomes the last one and sets the state; if it is a fault it is recorded.
Accept(e) ==
  /\ s_lastTopic' = e.topic
  /\ s_lastCode' = e.code
  /\ s_lastTick' = now
  /\ s_state' = StateAfter(e)
  /\ \/ /\ classifyFault(e) # "INFO"
        /\ s_history' = Recorded(e)
        /\ s_next' = NextSlot
     \/ /\ classifyFault(e) = "INFO"
        /\ UNCHANGED <<s_history, s_next>>

\* Variant: only faults are announced.
FaultManager_HandleEvent_FaultsOnly(e) ==
  /\ hpc = "receive"
  /\ Len(handled) < MaxSignals
  /\ handled' = Append(handled, [signal |-> e, tick |-> now, accepted |-> ~Debounced(e)])
  /\ \/ /\ Debounced(e)
        /\ UNCHANGED <<faultVars, hpc>>
     \/ /\ ~Debounced(e)
        /\ Accept(e)
        /\ hpc' = IF classifyFault(e) = "INFO" THEN "receive" ELSE "announce"
  /\ UNCHANGED <<now, announced>>

\* HealthManager receives e.  Only this task calls FaultManager_HandleEvent.
FaultManager_HandleEvent(e) ==
  /\ hpc = "receive"
  /\ Len(handled) < MaxSignals
  /\ handled' = Append(handled, [signal |-> e, tick |-> now, accepted |-> ~Debounced(e)])
  /\ \/ /\ Debounced(e)
        /\ UNCHANGED <<faultVars, hpc>>
     \/ /\ ~Debounced(e)
        /\ Accept(e)
        /\ hpc' = "announce"
  /\ UNCHANGED <<now, announced>>

\* publishSimpleFrom(TASK_ID_HEALTH_MANAGER, TOPIC_DEVICE_STATUS, ...)
AnnounceState ==
  /\ hpc = "announce"
  /\ announced' = s_state
  /\ hpc' = "receive"
  /\ UNCHANGED <<now, faultVars, handled>>

Tick ==
  /\ now < MaxTicks
  /\ now' = now + 1
  /\ UNCHANGED <<faultVars, hpc, announced, handled>>

\* The bounds are reached.
Done ==
  /\ now = MaxTicks /\ Len(handled) = MaxSignals /\ hpc = "receive"
  /\ UNCHANGED vars

Next ==
  \/ \E e \in Signals : FaultManager_HandleEvent(e)
  \/ AnnounceState
  \/ Tick
  \/ Done

Spec == Init /\ [][Next]_vars /\ WF_vars(AnnounceState)

-----------------------------------------------------------------------------
(***************************************************************************)
(* Properties.                                                             *)
(***************************************************************************)

\* The signals that were accepted as faults, by their places in handled.
FaultIndices ==
  {k \in DOMAIN handled : handled[k].accepted /\ classifyFault(handled[k].signal) # "INFO"}

\* How recent the k-th signal is among the faults: the newest has rank 1.
Rank(k) == Cardinality({i \in FaultIndices : i >= k})

\* The slot r places before the one to be written next.
SlotBack(r) == (s_next + FAULT_HISTORY_DEPTH - r) % FAULT_HISTORY_DEPTH

\* The ring holds the last FAULT_HISTORY_DEPTH accepted faults, the newest just
\* before s_next, and nothing else ("bounded ring history").
RingHoldsLatest ==
  /\ \A k \in FaultIndices :
       Rank(k) <= FAULT_HISTORY_DEPTH =>
         s_history[SlotBack(Rank(k))] =
           [timestamp |-> handled[k].tick, topic |-> handled[k].signal.topic,
            code |-> handled[k].signal.code, severity |-> classifyFault(handled[k].signal)]
  /\ \A r \in 1 .. FAULT_HISTORY_DEPTH :
       r > Cardinality(FaultIndices) => s_history[SlotBack(r)] = ZeroRecord

\* A signal is suppressed only if the same signal was accepted less than
\* FAULT_DEBOUNCE_TICKS before: a steady stream of repetitions does not keep
\* itself suppressed, and nothing is suppressed at start-up.
SuppressedOnlyIfRecent ==
  \A j \in DOMAIN handled :
    ~handled[j].accepted =>
      \E k \in 1 .. j - 1 :
        /\ handled[k].accepted
        /\ handled[k].signal = handled[j].signal
        /\ handled[j].tick - handled[k].tick < FAULT_DEBOUNCE_TICKS

\* The device state is that of the latest signal, suppressed or not: debouncing
\* never hides a change of state.
StateTracksLatest ==
  handled # <<>> =>
    s_state = stateForSeverity(classifyFault(handled[Len(handled)].signal))

\* The device state that HealthManager last announced catches up with s_state.
StateAnnounced == [](announced # s_state => <>(announced = s_state))

\* fault_model.md: "Repeated identical fault signals are debounced for two
\* seconds": two acceptances of one fault are at least that far apart.
RepeatsDebounced ==
  \A k, j \in FaultIndices :
    k < j /\ handled[k].signal = handled[j].signal =>
      handled[j].tick - handled[k].tick >= FAULT_DEBOUNCE_TICKS
=============================================================================

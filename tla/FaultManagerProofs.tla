--------------------------- MODULE FaultManagerProofs ---------------------------
(***************************************************************************)
(* Proofs about FaultManager: for every depth of the ring, debounce time   *)
(* and set of signals, the ring holds the latest faults, the state is that *)
(* of the latest signal, and only recent repetitions are suppressed.       *)
(***************************************************************************)
EXTENDS FaultManager, FiniteSetTheorems, TLAPS

-----------------------------------------------------------------------------
(***************************************************************************)
(* The helpers.                                                            *)
(***************************************************************************)

\* classifyFault knows every topic that HealthManager receives; each severity has a
\* device state.
LEMMA RuleTypes ==
  ASSUME NEW e
  PROVE  classifyFault(e) \in Severities /\ stateForSeverity(classifyFault(e)) \in DeviceStates
  <1>1. classifyFault(e) \in Severities
    BY DEF classifyFault, Severities
  <1> QED
    BY <1>1 DEF stateForSeverity, Severities, DeviceStates

\* The remainder of a number that is less than twice the divisor.
LEMMA ModFacts ==
  ASSUME NEW D \in Nat \ {0}, NEW x \in Nat, x < 2 * D
  PROVE  x % D = IF x < D THEN x ELSE x - D
  <1>1. CASE x < D
    BY <1>1
  <1>2. CASE x >= D
    BY <1>2
  <1> QED
    BY <1>1, <1>2

\* When s_next advances, the slot written is the newest, and every other one moves
\* one place back: none is skipped and none is written twice within a round.
LEMMA SlotsShift ==
  ASSUME NEW D \in Nat \ {0}, NEW s \in 0 .. D - 1
  PROVE  LET t == (s + 1) % D IN
         /\ t \in 0 .. D - 1
         /\ (t + D - 1) % D = s
         /\ \A r \in 1 .. D - 1 : /\ (t + D - (r + 1)) % D = (s + D - r) % D
                                  /\ (s + D - r) % D # s
                                  /\ (s + D - r) % D \in 0 .. D - 1
  <1> DEFINE t == (s + 1) % D
  <1>1. t = IF s = D - 1 THEN 0 ELSE s + 1
    BY ModFacts
  <1> HIDE DEF t
  <1>2. (t + D - 1) % D = s
    <2>1. t + D - 1 \in Nat /\ t + D - 1 < 2 * D
      BY <1>1
    <2> QED
      BY <1>1, <2>1, ModFacts
  <1>3. ASSUME NEW r \in 1 .. D - 1
        PROVE  /\ (t + D - (r + 1)) % D = (s + D - r) % D
               /\ (s + D - r) % D # s
               /\ (s + D - r) % D \in 0 .. D - 1
    <2>1. s + D - r \in Nat /\ s + D - r < 2 * D
      OBVIOUS
    <2>2. t + D - (r + 1) \in Nat /\ t + D - (r + 1) < 2 * D
      BY <1>1
    <2>3. (s + D - r) % D = IF s + D - r < D THEN s + D - r ELSE (s + D - r) - D
      BY <2>1, ModFacts, Zenon
    <2>4. (t + D - (r + 1)) % D =
            IF t + D - (r + 1) < D THEN t + D - (r + 1) ELSE (t + D - (r + 1)) - D
      BY <2>2, ModFacts, Zenon
    <2> QED
      BY <1>1, <2>3, <2>4
  <1> QED
    BY <1>1, <1>2, <1>3 DEF t

-----------------------------------------------------------------------------
(***************************************************************************)
(* The inductive invariant.  The debounce compares a signal with the last  *)
(* accepted one; for the properties, which speak of the signals handled,   *)
(* that one must be known to have the topic and code of the latest signal. *)
(***************************************************************************)

StartInv == handled = <<>> => s_lastTopic = TOPIC_MAX

LatestInv ==
  handled # <<>> =>
    LET h == handled[Len(handled)] IN
    /\ h.signal.topic = s_lastTopic /\ h.signal.code = s_lastCode
    /\ s_state = stateForSeverity(classifyFault(h.signal))
    /\ \E k \in DOMAIN handled : /\ handled[k].accepted
                                 /\ handled[k].signal = h.signal
                                 /\ handled[k].tick = s_lastTick

FaultInv == TypeOK /\ StartInv /\ LatestInv /\ SuppressedOnlyIfRecent /\ RingHoldsLatest

Handled == [signal : Signal, tick : Nat, accepted : BOOLEAN]

\* What FaultManager_HandleEvent appends to the history.
LEMMA HandledGrows ==
  ASSUME TypeOK, NEW e \in Signals, FaultManager_HandleEvent(e)
  PROVE  LET n == Len(handled)  h == [signal |-> e, tick |-> now, accepted |-> ~Debounced(e)] IN
         /\ n \in Nat
         /\ e \in Signal
         /\ handled' \in Seq(Handled)
         /\ \A k \in 1 .. n : handled[k] \in Handled
         /\ DOMAIN handled = 1 .. n /\ DOMAIN handled' = 1 .. n + 1 /\ Len(handled') = n + 1
         /\ \A k \in 1 .. n : handled'[k] = handled[k]
         /\ handled'[n + 1] = h
  <1> DEFINE h == [signal |-> e, tick |-> now, accepted |-> ~Debounced(e)]
  <1>1. e \in Signal /\ h \in Handled
    BY FaultAssumption DEF Handled, TypeOK, Debounced
  <1>2. handled \in Seq(Handled) /\ handled' = Append(handled, h)
    BY DEF TypeOK, Handled, FaultManager_HandleEvent
  <1> HIDE DEF h
  <1>3. /\ Len(handled) \in Nat
        /\ DOMAIN handled = 1 .. Len(handled)
        /\ handled' \in Seq(Handled) /\ Len(handled') = Len(handled) + 1
        /\ \A k \in 1 .. Len(handled) : handled[k] \in Handled
        /\ DOMAIN handled' = 1 .. Len(handled) + 1
        /\ \A k \in 1 .. Len(handled) : handled'[k] = handled[k]
        /\ handled'[Len(handled) + 1] = h
    BY <1>1, <1>2
  <1> QED
    BY <1>1, <1>3 DEF h

\* Every step keeps the type.
LEMMA StepType == TypeOK /\ [Next]_vars => TypeOK'
  <1> SUFFICES ASSUME TypeOK, [Next]_vars PROVE TypeOK'
    OBVIOUS
  <1>1. ASSUME NEW e \in Signals, FaultManager_HandleEvent(e)
        PROVE  TypeOK'
    <2>1. handled' \in Seq(Handled) /\ e \in Signal
      BY <1>1, HandledGrows
    <2>2. CASE Debounced(e) /\ UNCHANGED <<faultVars, hpc>>
      BY <1>1, <2>1, <2>2 DEF FaultManager_HandleEvent, TypeOK, Handled, faultVars
    <2>3. CASE Accept(e) /\ hpc' = "announce"
      <3>1. Record(e) \in FaultRecord /\ StateAfter(e) \in DeviceStates
        BY <2>1, RuleTypes DEF Record, FaultRecord, StateAfter, Signal, TypeOK
      <3>2. NextSlot \in Slots
        BY SlotsShift, FaultAssumption DEF NextSlot, Slots, TypeOK
      <3>3. s_history' \in [Slots -> FaultRecord \cup {ZeroRecord}] /\ s_next' \in Slots
        BY <2>3, <3>1, <3>2 DEF Accept, Recorded, TypeOK
      <3>4. s_lastTick' \in 0 .. now' /\ now' \in 0 .. MaxTicks
        BY <1>1, <2>3, FaultAssumption DEF Accept, FaultManager_HandleEvent, TypeOK
      <3> QED
        BY <1>1, <2>1, <2>3, <3>1, <3>3, <3>4
           DEF Accept, FaultManager_HandleEvent, Signal, TypeOK, Handled
    <2> QED
      BY <1>1, <2>2, <2>3 DEF FaultManager_HandleEvent
  <1>2. CASE AnnounceState
    BY <1>2 DEF AnnounceState, faultVars, TypeOK
  <1>3. CASE Tick
    BY <1>3, FaultAssumption DEF Tick, faultVars, TypeOK
  <1>4. CASE UNCHANGED vars
    BY <1>4 DEF vars, faultVars, TypeOK
  <1> QED
    BY <1>1, <1>2, <1>3, <1>4 DEF Next, Done

\* The state, the last accepted signal and the suppressed ones after a signal.
LEMMA HandleLatest ==
  ASSUME TypeOK, StartInv, LatestInv, SuppressedOnlyIfRecent,
         NEW e \in Signals, FaultManager_HandleEvent(e)
  PROVE  StartInv' /\ LatestInv' /\ SuppressedOnlyIfRecent'
  <1> DEFINE n == Len(handled)
             h == [signal |-> e, tick |-> now, accepted |-> ~Debounced(e)]
  <1>1. /\ n \in Nat /\ e \in Signal
        /\ DOMAIN handled = 1 .. n /\ DOMAIN handled' = 1 .. n + 1 /\ Len(handled') = n + 1
        /\ \A k \in 1 .. n : handled'[k] = handled[k]
        /\ handled'[n + 1] = h
    BY HandledGrows
  <1>2. h.signal = e /\ h.tick = now /\ h.accepted = ~Debounced(e)
    OBVIOUS
  <1> HIDE DEF n, h
  <1>3. handled' # <<>>
    BY <1>1
  <1>4. CASE Debounced(e)
    <2>1. UNCHANGED <<s_state, s_lastTopic, s_lastCode, s_lastTick>>
      BY <1>4 DEF FaultManager_HandleEvent, faultVars
    <2>2. handled # <<>> /\ n \in 1 .. n
      <3>1. s_lastTopic # TOPIC_MAX
        BY <1>1, <1>4 DEF Debounced, Signal, Topics, TOPIC_MAX
      <3>2. handled # <<>>
        BY <3>1 DEF StartInv
      <3> QED
        BY <1>1, <3>2 DEF n, TypeOK
    <2>3. PICK k \in 1 .. n : /\ handled[k].accepted /\ handled[k].signal = handled[n].signal
                              /\ handled[k].tick = s_lastTick
      BY <1>1, <2>2 DEF LatestInv, n
    <2>4. handled[n].signal = e
      <3>1. handled[n].signal \in Signal
        BY <2>2, HandledGrows DEF Handled, n
      <3>2. handled[n].signal.topic = e.topic /\ handled[n].signal.code = e.code
        BY <1>4, <2>2 DEF LatestInv, Debounced, n
      <3> QED
        BY <1>1, <3>1, <3>2 DEF Signal
    <2>5. LatestInv'
      BY <1>1, <1>2, <2>1, <2>2, <2>3, <2>4 DEF LatestInv, n
    <2>6. ASSUME NEW j \in 1 .. n + 1, ~handled'[j].accepted
          PROVE  \E i \in 1 .. j - 1 : /\ handled'[i].accepted
                                       /\ handled'[i].signal = handled'[j].signal
                                       /\ handled'[j].tick - handled'[i].tick < FAULT_DEBOUNCE_TICKS
      <3>1. CASE j \in 1 .. n
        BY <1>1, <2>6, <3>1 DEF SuppressedOnlyIfRecent
      <3>2. CASE j = n + 1
        <4>1. now - handled[k].tick < FAULT_DEBOUNCE_TICKS
          BY <1>4, <2>3 DEF Debounced
        <4>2. k \in 1 .. j - 1 /\ handled'[k] = handled[k]
          BY <1>1, <3>2
        <4> QED
          BY <1>1, <1>2, <2>3, <2>4, <3>2, <4>1, <4>2
      <3> QED
        BY <1>1, <3>1, <3>2
    <2> QED
      BY <1>1, <1>3, <2>5, <2>6 DEF StartInv, SuppressedOnlyIfRecent
  <1>5. CASE ~Debounced(e)
    <2>1. /\ s_lastTopic' = e.topic /\ s_lastCode' = e.code /\ s_lastTick' = now
          /\ s_state' = stateForSeverity(classifyFault(e))
      BY <1>5 DEF FaultManager_HandleEvent, Accept, StateAfter
    <2>2. LatestInv'
      <3>1. n + 1 \in 1 .. n + 1
        BY <1>1
      <3> QED
        BY <1>1, <1>2, <1>5, <2>1, <3>1 DEF LatestInv
    <2>3. ASSUME NEW j \in 1 .. n + 1, ~handled'[j].accepted
          PROVE  \E i \in 1 .. j - 1 : /\ handled'[i].accepted
                                       /\ handled'[i].signal = handled'[j].signal
                                       /\ handled'[j].tick - handled'[i].tick < FAULT_DEBOUNCE_TICKS
      <3>1. handled'[n + 1].accepted
        BY <1>1, <1>2, <1>5
      <3>2. j \in 1 .. n
        BY <1>1, <2>3, <3>1
      <3> QED
        BY <1>1, <2>3, <3>2 DEF SuppressedOnlyIfRecent
    <2> QED
      BY <1>1, <1>3, <2>2, <2>3 DEF StartInv, SuppressedOnlyIfRecent
  <1> QED
    BY <1>4, <1>5

\* A new largest index has rank 1 and moves the others one rank back.
LEMMA RanksShift ==
  ASSUME NEW n \in Nat, NEW F \in SUBSET (1 .. n)
  PROVE  LET G == F \cup {n + 1} IN
         /\ Cardinality(F) \in Nat /\ Cardinality(G) = Cardinality(F) + 1
         /\ Cardinality({i \in G : i >= n + 1}) = 1
         /\ \A k \in F : /\ Cardinality({i \in F : i >= k}) \in Nat \ {0}
                         /\ Cardinality({i \in F : i >= k}) <= Cardinality(F)
                         /\ Cardinality({i \in G : i >= k}) = Cardinality({i \in F : i >= k}) + 1
  <1> DEFINE G == F \cup {n + 1}
             From(S, k) == {i \in S : i >= k}
  <1>1. IsFiniteSet(1 .. n)
    BY FS_Interval
  <1>2. IsFiniteSet(F) /\ \A T \in SUBSET F : IsFiniteSet(T)
    BY <1>1, FS_Subset
  <1>3. n + 1 \notin F
    OBVIOUS
  <1>4. Cardinality(F) \in Nat /\ Cardinality(G) = Cardinality(F) + 1
    BY <1>2, <1>3, FS_CardinalityType, FS_AddElement
  <1>5. From(G, n + 1) = {n + 1}
    <2>1. \A i \in F : ~(i >= n + 1)
      OBVIOUS
    <2>2. \A i \in From(G, n + 1) : i = n + 1
      BY <2>1
    <2>3. n + 1 \in From(G, n + 1)
      OBVIOUS
    <2> HIDE DEF From
    <2> QED
      BY <2>2, <2>3
  <1>6. Cardinality(From(G, n + 1)) = 1
    BY <1>5, FS_Singleton
  <1>7. ASSUME NEW k \in F
        PROVE  /\ Cardinality(From(F, k)) \in Nat \ {0}
               /\ Cardinality(From(F, k)) <= Cardinality(F)
               /\ Cardinality(From(G, k)) = Cardinality(From(F, k)) + 1
    <2>1. From(F, k) \in SUBSET F /\ k \in From(F, k)
      OBVIOUS
    <2>2. IsFiniteSet(From(F, k)) /\ From(F, k) # {}
      BY <1>2, <2>1
    <2>3. From(G, k) = From(F, k) \cup {n + 1} /\ n + 1 \notin From(F, k)
      OBVIOUS
    <2> HIDE DEF From
    <2>4. Cardinality(From(F, k)) \in Nat \ {0}
      BY <2>2, FS_CardinalityType, FS_EmptySet
    <2>5. Cardinality(From(F, k)) <= Cardinality(F)
      BY <1>2, <2>1, FS_Subset
    <2>6. Cardinality(From(G, k)) = Cardinality(From(F, k)) + 1
      BY <2>2, <2>3, FS_AddElement
    <2> QED
      BY <2>4, <2>5, <2>6
  <1> QED
    BY <1>4, <1>6, <1>7

\* The record of a handled signal.
RecordOf(h) ==
  [timestamp |-> h.tick, topic |-> h.signal.topic, code |-> h.signal.code,
   severity |-> classifyFault(h.signal)]

\* The ring after a signal: unchanged unless it is an accepted fault, else the
\* oldest record makes room for it.
LEMMA HandleRing ==
  ASSUME TypeOK, RingHoldsLatest, NEW e \in Signals, FaultManager_HandleEvent(e)
  PROVE  RingHoldsLatest'
  <1> DEFINE n == Len(handled)
             h == [signal |-> e, tick |-> now, accepted |-> ~Debounced(e)]
             D == FAULT_HISTORY_DEPTH
             F == FaultIndices
             G == F \cup {n + 1}
             From(S, k) == {i \in S : i >= k}
  <1>1. /\ n \in Nat
        /\ DOMAIN handled = 1 .. n /\ DOMAIN handled' = 1 .. n + 1
        /\ \A k \in 1 .. n : handled'[k] = handled[k]
        /\ handled'[n + 1] = h
    BY HandledGrows
  <1>2. h.signal = e /\ h.tick = now /\ h.accepted = ~Debounced(e)
    OBVIOUS
  <1>3. F \in SUBSET (1 .. n)
    BY <1>1 DEF FaultIndices
  <1>4. D \in Nat \ {0} /\ s_next \in 0 .. D - 1 /\ DOMAIN s_history = 0 .. D - 1
    BY FaultAssumption DEF TypeOK, Slots
  <1> HIDE DEF n, h, D
  <1>5. CASE Debounced(e) \/ classifyFault(e) = "INFO"
    <2>1. s_history' = s_history /\ s_next' = s_next
      BY <1>5 DEF FaultManager_HandleEvent, faultVars, Accept
    <2>2. ~(handled'[n + 1].accepted /\ classifyFault(handled'[n + 1].signal) # "INFO")
      BY <1>1, <1>2, <1>5
    <2>3. FaultIndices' = F
      BY <1>1, <2>2 DEF FaultIndices
    <2>4. \A k \in F : Rank(k)' = Rank(k) /\ handled'[k] = handled[k]
      BY <1>1, <1>3, <2>3 DEF Rank
    <2>5. \A r \in 1 .. D : SlotBack(r)' = SlotBack(r)
      BY <2>1 DEF SlotBack
    <2> QED
      BY <2>1, <2>3, <2>4, <2>5 DEF RingHoldsLatest, SlotBack, D
  <1>6. CASE ~Debounced(e) /\ classifyFault(e) # "INFO"
    <2>1. s_history' = [s_history EXCEPT ![s_next] = Record(e)] /\ s_next' = (s_next + 1) % D
      BY <1>6 DEF FaultManager_HandleEvent, Accept, Recorded, NextSlot, D
    <2>2. handled'[n + 1].accepted /\ classifyFault(handled'[n + 1].signal) # "INFO"
      BY <1>1, <1>2, <1>6
    <2>3. FaultIndices' = G
      BY <1>1, <2>2 DEF FaultIndices
    <2>4. Record(e) = RecordOf(handled'[n + 1])
      BY <1>1, <1>2 DEF Record, RecordOf
    <2>5. \A k : Rank(k) = Cardinality(From(F, k)) /\ Rank(k)' = Cardinality(From(G, k))
      BY <2>3 DEF Rank
    <2> DEFINE Old(r) == (s_next + D - r) % D
               New(r) == (((s_next + 1) % D) + D - r) % D
    <2>6. /\ New(1) = s_next
          /\ \A r \in 1 .. D - 1 : New(r + 1) = Old(r) /\ Old(r) # s_next /\ Old(r) \in 0 .. D - 1
      BY <1>4, SlotsShift, ZenonT(60)
    <2>7. /\ \A k \in F : Cardinality(From(F, k)) <= D =>
                            s_history[Old(Cardinality(From(F, k)))] = RecordOf(handled[k])
          /\ \A r \in 1 .. D : r > Cardinality(F) => s_history[Old(r)] = ZeroRecord
      BY <2>5 DEF RingHoldsLatest, RecordOf, SlotBack, D
    <2> HIDE DEF F, From, Old, New
    <2>8. /\ Cardinality(F) \in Nat /\ Cardinality(G) = Cardinality(F) + 1
          /\ Cardinality(From(G, n + 1)) = 1
          /\ \A k \in F : /\ Cardinality(From(F, k)) \in Nat \ {0}
                          /\ Cardinality(From(G, k)) = Cardinality(From(F, k)) + 1
      <3>1. n \in Nat
        BY <1>1
      <3> QED
        BY <1>3, <3>1, RanksShift, ZenonT(60) DEF From
    <2>9. ASSUME NEW k \in G, Cardinality(From(G, k)) <= D
          PROVE  s_history'[New(Cardinality(From(G, k)))] = RecordOf(handled'[k])
      <3>1. CASE k = n + 1
        BY <1>4, <2>1, <2>4, <2>6, <2>8, <3>1
      <3>2. CASE k \in F
        <4> DEFINE c == Cardinality(From(F, k))
        <4>0. c \in Nat \ {0} /\ Cardinality(From(G, k)) = c + 1 /\ c + 1 <= D
          BY <2>8, <2>9, <3>2
        <4>1. c \in 1 .. D - 1 /\ Cardinality(From(G, k)) = c + 1
          BY <1>4, <4>0
        <4>2. New(c + 1) = Old(c) /\ Old(c) # s_next /\ Old(c) \in DOMAIN s_history
          BY <1>4, <2>6, <4>1
        <4>3. s_history'[Old(c)] = s_history[Old(c)]
          BY <2>1, <4>2
        <4>4. handled'[k] = handled[k]
          BY <1>1, <1>3, <3>2
        <4>5. c <= D
          BY <1>4, <4>1
        <4>6. s_history[Old(c)] = RecordOf(handled[k])
          BY <2>7, <3>2, <4>5
        <4> HIDE DEF c
        <4> QED
          BY <4>1, <4>2, <4>3, <4>4, <4>6
      <3> QED
        BY <3>1, <3>2
    <2>10. ASSUME NEW r \in 1 .. D, r > Cardinality(G)
           PROVE  s_history'[New(r)] = ZeroRecord
      <3>1. r - 1 \in 1 .. D - 1 /\ r - 1 > Cardinality(F) /\ (r - 1) + 1 = r
        BY <1>4, <2>8, <2>10
      <3>2. New(r) = Old(r - 1) /\ Old(r - 1) # s_next /\ Old(r - 1) \in DOMAIN s_history
        BY <1>4, <2>6, <3>1
      <3>3. s_history[Old(r - 1)] = ZeroRecord
        BY <1>4, <2>7, <3>1
      <3> QED
        BY <2>1, <3>2, <3>3
    <2> QED
      BY <2>1, <2>3, <2>5, <2>9, <2>10 DEF RingHoldsLatest, RecordOf, SlotBack, D, New
  <1> QED
    BY <1>5, <1>6

\* The invariant holds before the first signal.
LEMMA InitInv == Init => FaultInv
  <1> SUFFICES ASSUME Init PROVE FaultInv
    OBVIOUS
  <1> USE DEF Init
  <1>1. TypeOK
    BY FaultAssumption DEF TypeOK, Slots, DeviceStates
  <1>2. DOMAIN handled = {}
    OBVIOUS
  <1>3. FaultIndices = {}
    BY <1>2 DEF FaultIndices
  <1>4. RingHoldsLatest
    <2>1. ASSUME NEW r \in 1 .. FAULT_HISTORY_DEPTH
          PROVE  SlotBack(r) \in Slots
      <3> DEFINE D == FAULT_HISTORY_DEPTH
                 x == 0 + D - r
      <3>1. D \in Nat \ {0} /\ x \in Nat /\ x < D
        BY FaultAssumption
      <3>2. SlotBack(r) = x % D
        BY DEF SlotBack
      <3> HIDE DEF x, D
      <3>3. x % D = x
        BY <3>1
      <3> QED
        BY <3>1, <3>2, <3>3 DEF Slots, D
    <2> QED
      BY <1>3, <2>1 DEF RingHoldsLatest
  <1>5. StartInv /\ LatestInv /\ SuppressedOnlyIfRecent
    BY <1>2 DEF StartInv, LatestInv, SuppressedOnlyIfRecent
  <1> QED
    BY <1>1, <1>4, <1>5 DEF FaultInv

\* Every step keeps the invariant.
LEMMA StepInv == FaultInv /\ [Next]_vars => FaultInv'
  <1> SUFFICES ASSUME FaultInv, [Next]_vars PROVE FaultInv'
    OBVIOUS
  <1>0. TypeOK'
    BY StepType DEF FaultInv
  <1>1. ASSUME NEW e \in Signals, FaultManager_HandleEvent(e)
        PROVE  FaultInv'
    BY <1>0, <1>1, HandleLatest, HandleRing DEF FaultInv
  <1>2. CASE UNCHANGED <<faultVars, handled>>
    <2>1. StartInv' /\ LatestInv' /\ SuppressedOnlyIfRecent'
      BY <1>2 DEF FaultInv, faultVars, StartInv, LatestInv, SuppressedOnlyIfRecent
    <2>2. RingHoldsLatest'
      BY <1>2 DEF FaultInv, faultVars, RingHoldsLatest, FaultIndices, Rank, SlotBack
    <2> QED
      BY <1>0, <2>1, <2>2 DEF FaultInv
  <1> QED
    BY <1>1, <1>2 DEF Next, AnnounceState, Tick, Done, vars

\* In every reachable state the invariant holds.
LEMMA InvHolds == Spec => []FaultInv
  BY InitInv, StepInv, PTL DEF Spec

-----------------------------------------------------------------------------
(***************************************************************************)
(* The theorems.                                                           *)
(***************************************************************************)

\* The ring index never leaves the ring and every variable keeps its type.
THEOREM FaultTypeCorrect == Spec => []TypeOK
  <1>1. FaultInv => TypeOK
    BY DEF FaultInv
  <1> QED
    BY <1>1, InvHolds, PTL

\* s_history holds the last FAULT_HISTORY_DEPTH accepted faults in order, however
\* often it wrapped, and nothing else.
THEOREM RingCorrect == Spec => []RingHoldsLatest
  <1>1. FaultInv => RingHoldsLatest
    BY DEF FaultInv
  <1> QED
    BY <1>1, InvHolds, PTL

\* FaultManager_HandleEvent suppresses a signal only within FAULT_DEBOUNCE_TICKS of
\* an acceptance of the same signal.
THEOREM DebounceBounded == Spec => []SuppressedOnlyIfRecent
  <1>1. FaultInv => SuppressedOnlyIfRecent
    BY DEF FaultInv
  <1> QED
    BY <1>1, InvHolds, PTL

\* s_state is the state of the latest signal, suppressed or not.
THEOREM StateIsOfLatest == Spec => []StateTracksLatest
  <1>1. FaultInv => StateTracksLatest
    BY DEF FaultInv, LatestInv, StateTracksLatest
  <1> QED
    BY <1>1, InvHolds, PTL

\* The announced state lags behind s_state only while HealthManager is on its way to
\* the announcement: it never waits for the next event with a state that it has not
\* published, a suppressed signal included.
NothingUnannounced == hpc = "receive" => announced = s_state

\* What StateAnnounced needs besides fairness: whenever HealthManager waits in
\* xQueueReceive, the device state that it announced last is the device state.
THEOREM AnnouncementUnderWay == Spec => []NothingUnannounced
  <1>1. Init => NothingUnannounced
    BY DEF Init, NothingUnannounced
  <1>2. NothingUnannounced /\ [Next]_vars => NothingUnannounced'
    BY DEF NothingUnannounced, Next, FaultManager_HandleEvent, AnnounceState, Tick, Done,
       vars, faultVars
  <1> QED
    BY <1>1, <1>2, PTL DEF Spec
=============================================================================

----------------------------- MODULE AppTasksProofs -----------------------------
(***************************************************************************)
(* Proofs about AppTasks: for every length of the queues, number of rounds *)
(* and state to begin with, every request is answered once, the settings   *)
(* are those commanded, two equal drop reports mean that nothing was lost, *)
(* and a fault that HealthManager takes is or will be announced.           *)
(***************************************************************************)
EXTENDS AppTasks, FiniteSetTheorems, TLAPS

-----------------------------------------------------------------------------
(***************************************************************************)
(* Events in sequences, and how many of a topic there are.                 *)
(***************************************************************************)

\* Where events of topic t are in sequence s.
Places(s, t) == {k \in DOMAIN s : s[k].topic = t}

Count(s, t) == Cardinality(Places(s, t))

\* A sequence holds a finite number of events of a topic, and none if it is empty.
LEMMA CountType ==
  ASSUME NEW s \in Seq(Event), NEW t
  PROVE  /\ IsFiniteSet(Places(s, t)) /\ Count(s, t) \in Nat
         /\ s = <<>> => Count(s, t) = 0
  <1>1. IsFiniteSet(1 .. Len(s)) /\ Places(s, t) \subseteq 1 .. Len(s)
    BY FS_Interval DEF Places
  <1>2. IsFiniteSet(Places(s, t)) /\ Count(s, t) \in Nat
    BY <1>1, FS_Subset, FS_CardinalityType DEF Count
  <1>3. ASSUME s = <<>>
        PROVE  Count(s, t) = 0
    <2>1. Places(s, t) = {}
      BY <1>3 DEF Places
    <2> QED
      BY <2>1, FS_EmptySet DEF Count
  <1> QED
    BY <1>2, <1>3

\* Queueing an event adds one to the count of its topic.
LEMMA CountAppend ==
  ASSUME NEW s \in Seq(Event), NEW e \in Event, NEW t
  PROVE  Count(Append(s, e), t) = Count(s, t) + IF e.topic = t THEN 1 ELSE 0
  <1> DEFINE n == Len(s)
             a == Append(s, e)
  <1>1. /\ n \in Nat /\ DOMAIN s = 1 .. n /\ DOMAIN a = 1 .. n + 1
        /\ a[n + 1] = e /\ \A k \in 1 .. n : a[k] = s[k]
    OBVIOUS
  <1> HIDE DEF n, a
  <1>2. /\ IsFiniteSet(Places(s, t)) /\ Count(s, t) \in Nat
        /\ n + 1 \notin Places(s, t)
    <2>1. IsFiniteSet(Places(s, t)) /\ Count(s, t) \in Nat
      BY CountType
    <2>2. n + 1 \notin Places(s, t)
      BY <1>1 DEF Places
    <2> QED
      BY <2>1, <2>2
  <1>3. CASE e.topic = t
    <2>1. Places(a, t) = Places(s, t) \cup {n + 1}
      BY <1>1, <1>3 DEF Places
    <2> QED
      BY <1>2, <1>3, <2>1, FS_AddElement, ZenonT(60) DEF Count, a
  <1>4. CASE e.topic # t
    <2>1. Places(a, t) = Places(s, t)
      BY <1>1, <1>4 DEF Places
    <2> QED
      BY <1>2, <1>4, <2>1 DEF Count, a
  <1> QED
    BY <1>3, <1>4

\* The count of a topic in a sequence of one event.
LEMMA CountOne ==
  ASSUME NEW e \in Event, NEW t
  PROVE  Count(<<e>>, t) = IF e.topic = t THEN 1 ELSE 0
  <1>1. <<>> \in Seq(Event) /\ <<e>> = Append(<<>>, e)
    OBVIOUS
  <1>2. Count(<<>>, t) = 0
    BY <1>1, CountType
  <1>3. Count(Append(<<>>, e), t) = Count(<<>>, t) + IF e.topic = t THEN 1 ELSE 0
    BY <1>1, CountAppend, Zenon
  <1> QED
    BY <1>1, <1>2, <1>3

\* The elements of a sequence without its first.
LEMMA TailFacts ==
  ASSUME NEW S, NEW s \in Seq(S), s # <<>>
  PROVE  /\ Head(s) \in S /\ Head(s) = s[1] /\ Tail(s) \in Seq(S)
         /\ Len(s) \in Nat \ {0} /\ DOMAIN s = 1 .. Len(s)
         /\ Len(Tail(s)) = Len(s) - 1 /\ DOMAIN Tail(s) = 1 .. Len(s) - 1
         /\ \A k \in 1 .. Len(s) - 1 : Tail(s)[k] = s[k + 1]
  OBVIOUS

\* Taking the first event takes one from the count of its topic.
LEMMA CountTail ==
  ASSUME NEW s \in Seq(Event), s # <<>>, NEW t
  PROVE  Count(s, t) = Count(Tail(s), t) + IF Head(s).topic = t THEN 1 ELSE 0
  <1> DEFINE n == Len(s)
             r == Tail(s)
             P == Places(s, t) \ {1}
             f == [k \in Places(r, t) |-> k + 1]
  <1>1. /\ r \in Seq(Event) /\ n \in Nat \ {0} /\ Head(s) = s[1]
        /\ DOMAIN s = 1 .. n /\ DOMAIN r = 1 .. n - 1
        /\ \A k \in 1 .. n - 1 : r[k] = s[k + 1]
    BY TailFacts
  <1> HIDE DEF r, n
  <1>2. /\ IsFiniteSet(Places(r, t)) /\ Count(r, t) \in Nat
        /\ IsFiniteSet(Places(s, t)) /\ Count(s, t) \in Nat
    BY <1>1, CountType
  <1>3. \A k \in Places(r, t) : k \in 1 .. n - 1 /\ k + 1 \in P
    BY <1>1 DEF Places
  <1>4. \A k \in P : k - 1 \in Places(r, t) /\ k \in 2 .. n
    <2> SUFFICES ASSUME NEW k \in P PROVE k - 1 \in Places(r, t) /\ k \in 2 .. n
      OBVIOUS
    <2>1. k \in 2 .. n /\ s[k].topic = t
      BY <1>1 DEF Places
    <2>2. k - 1 \in 1 .. n - 1 /\ r[k - 1] = s[(k - 1) + 1] /\ (k - 1) + 1 = k
      BY <1>1, <2>1
    <2> QED
      BY <1>1, <2>1, <2>2 DEF Places
  <1>5. f \in Bijection(Places(r, t), P)
    <2>1. f \in [Places(r, t) -> P]
      BY <1>3
    <2>2. \A j, k \in Places(r, t) : f[j] = f[k] => j = k
      BY <1>3
    <2>3. \A k \in P : \E j \in Places(r, t) : f[j] = k
      <3> TAKE k \in P
      <3>1. k - 1 \in Places(r, t) /\ f[k - 1] = k
        BY <1>4
      <3> QED
        BY <3>1
    <2> HIDE DEF f, P
    <2> QED
      BY <2>1, <2>2, <2>3 DEF Bijection, Injection, IsInjective, Surjection
  <1> HIDE DEF f
  <1>6. Cardinality(P) = Count(r, t)
    BY <1>2, <1>5, FS_Bijection DEF ExistsBijection, Count
  <1>7. Cardinality(P) = IF 1 \in Places(s, t) THEN Count(s, t) - 1 ELSE Count(s, t)
    BY <1>2, FS_RemoveElement DEF Count
  <1>8. 1 \in Places(s, t) <=> Head(s).topic = t
    BY <1>1 DEF Places
  <1> QED
    BY <1>2, <1>6, <1>7, <1>8 DEF r

-----------------------------------------------------------------------------
(***************************************************************************)
(* The inductive invariant.                                                *)
(***************************************************************************)

\* A queue holds events of the topics that its task has subscribed to.
QueueInv ==
  \A c \in Consumers : \A k \in DOMAIN queue[c] : queue[c][k].topic \in Subscribed[c]

\* OneAnswerEach, with Count.
AnswersCounted ==
  \A c \in DOMAIN Request :
    asked[c] = answered[c] + Count(todo[c], Answer[c]) + Count(queue[c], Request[c])

\* An update that the setter it selects accepts, and stores as it is.
GoodUpdate(e) ==
  /\ e.code \in 1 .. 4
  /\ Argument(Unpacked(e)) = e.value
  /\ e.value \in ValidRange(KeyName(e.code))

\* Updates come from CommandTask alone, and say what its present line says.
UpdateInv ==
  /\ \A k \in DOMAIN queue["CONFIG_MANAGER"] : GoodUpdate(queue["CONFIG_MANAGER"][k])
  /\ \A p \in Tasks : \A k \in DOMAIN todo[p] :
       todo[p][k].topic = "CONFIG_UPDATE" =>
         /\ p = "COMMAND"
         /\ GoodUpdate(todo[p][k])
         /\ line.arg \in DOMAIN CONFIG_KEY
         /\ todo[p][k].code = CONFIG_KEY[line.arg]
         /\ todo[p][k].value = line.number

\* Where updates of setting n wait in queue q.
Updates(q, n) == {k \in DOMAIN q : q[k].code = CONFIG_KEY[n]}

\* A setting is as wanted, or the last update waiting for it will make it so.
WantedInv ==
  \A n \in DOMAIN CONFIG_KEY :
    LET q == queue["CONFIG_MANAGER"] IN
    \/ Updates(q, n) = {} /\ TextSettings(s_config)[n] = wanted[n]
    \/ \E k \in Updates(q, n) : q[k].value = wanted[n] /\ \A j \in Updates(q, n) : j <= k

\* HealthManager has announced the state of the fault manager or is about to, and
\* that state is the last accepted signal's.
AnnounceInv ==
  /\ \/ todo["HEALTH_MANAGER"] = <<>> /\ announced = StateCode[health.state]
     \/ /\ Len(todo["HEALTH_MANAGER"]) = 1
        /\ todo["HEALTH_MANAGER"][1].topic = "DEVICE_STATUS"
        /\ todo["HEALTH_MANAGER"][1].code = StateCode[health.state]
  /\ health.topic # "TOPIC_MAX" => health.state = stateForSeverity(classifyFault(health))

AppInv ==
  /\ TypeOK
  /\ QueueInv
  /\ AnswersCounted
  /\ UpdateInv
  /\ WantedInv
  /\ AnnounceInv
-----------------------------------------------------------------------------
(***************************************************************************)
(* The subscriptions, the commands and the configuration record.           *)
(***************************************************************************)

\* The events that update no setting.
Plain == {e \in Event : e.topic # "CONFIG_UPDATE"}

\* Who is asked receives the requests; updates go to ConfigManager (and Logger).
LEMMA RequestFacts ==
  /\ DOMAIN Request = {"CLOUD", "CONFIG_MANAGER"} /\ DOMAIN Answer = DOMAIN Request
  /\ Request["CLOUD"] = "ACTUATOR_COMMAND" /\ Request["CONFIG_MANAGER"] = "CONFIG_UPDATE"
  /\ Answer["CLOUD"] = "ACTUATOR_STATUS" /\ Answer["CONFIG_MANAGER"] = "DEVICE_STATUS"
  /\ \A c \in DOMAIN Request : /\ c \in Consumers /\ c \in Tasks
                               /\ Request[c] \in Topics /\ c \in Subscribers[Request[c]]
  /\ \A t \in Topics : "CONFIG_MANAGER" \in Subscribers[t] <=> t = "CONFIG_UPDATE"
  <1>1. /\ DOMAIN Request = {"CLOUD", "CONFIG_MANAGER"} /\ DOMAIN Answer = DOMAIN Request
        /\ Request["CLOUD"] = "ACTUATOR_COMMAND"
        /\ Request["CONFIG_MANAGER"] = "CONFIG_UPDATE"
        /\ Answer["CLOUD"] = "ACTUATOR_STATUS" /\ Answer["CONFIG_MANAGER"] = "DEVICE_STATUS"
    BY DEF Request, Answer
  <1>2. /\ Subscribed["CONFIG_MANAGER"] = {"CONFIG_UPDATE"}
        /\ "ACTUATOR_COMMAND" \in Subscribed["CLOUD"]
    BY DEF Subscribed
  <1>3. /\ "CLOUD" \in Consumers /\ "CONFIG_MANAGER" \in Consumers
        /\ "ACTUATOR_COMMAND" \in Topics /\ "CONFIG_UPDATE" \in Topics
    BY DEF Consumers, Topics
  <1>4. \A t \in Topics : "CONFIG_MANAGER" \in Subscribers[t] <=> t = "CONFIG_UPDATE"
    BY <1>2, <1>3 DEF Subscribers
  <1>5. "CLOUD" \in Subscribers["ACTUATOR_COMMAND"]
    BY <1>2, <1>3 DEF Subscribers
  <1> QED
    BY <1>1, <1>3, <1>4, <1>5 DEF Tasks

\* A full queue loses one event: the count of losses is a number.
LEMMA LostType ==
  ASSUME NEW t \in Topics
  PROVE  Cardinality({c \in Subscribers[t] : ~HasRoom(c)}) \in Nat
  <1> DEFINE C == {c \in Subscribers[t] : ~HasRoom(c)}
             A == {"STORAGE"} \cup {"CLOUD"} \cup {"CONFIG_MANAGER"}
  <1>1. IsFiniteSet({"STORAGE"} \cup {"CLOUD"})
    BY FS_Singleton, FS_AddElement
  <1>2. IsFiniteSet(A)
    BY <1>1, FS_AddElement
  <1>3. C \subseteq (A \cup {"HEALTH_MANAGER"}) \cup {"LOGGER"}
    BY DEF Subscribers, Consumers
  <1> HIDE DEF A, C
  <1>4. IsFiniteSet((A \cup {"HEALTH_MANAGER"}) \cup {"LOGGER"})
    BY <1>2, FS_AddElement
  <1>5. IsFiniteSet(C)
    BY <1>3, <1>4, FS_Subset
  <1> QED
    BY <1>5, FS_CardinalityType DEF C

\* The four settings and their distinct keys.
LEMMA KeyFacts ==
  /\ DOMAIN CONFIG_KEY =
       {"temp_threshold", "diag_period_ms", "low_voltage_dv", "frame_period_ms"}
  /\ CONFIG_KEY["temp_threshold"] = 1 /\ CONFIG_KEY["diag_period_ms"] = 2
  /\ CONFIG_KEY["low_voltage_dv"] = 3 /\ CONFIG_KEY["frame_period_ms"] = 4
  /\ \A n \in DOMAIN CONFIG_KEY : CONFIG_KEY[n] \in 1 .. 4
  /\ \A m, n \in DOMAIN CONFIG_KEY : CONFIG_KEY[m] = CONFIG_KEY[n] => m = n
  BY DEF CONFIG_KEY

Lines == {commands[i] : i \in DOMAIN commands}

\* What follows from the command table: a number is missing or natural, and the
\* SET lines ask for values that their setters accept and their fields hold.
LEMMA LineFacts ==
  /\ Len(commands) = 9 /\ DOMAIN commands = 1 .. 9
  /\ \A l \in Lines :
       /\ l.number \in Nat \cup {NoNumber}
       /\ l.verb = "SET" =>
            \/ l.arg = "temp_threshold" /\ l.number = 38
            \/ l.arg = "diag_period_ms" /\ l.number = 4000
            \/ l.arg = "low_voltage_dv" /\ l.number = 34
            \/ l.arg = "frame_period_ms" /\ l.number = 2000
  <1>1. Len(commands) = 9 /\ DOMAIN commands = 1 .. 9
    BY DEF commands
  <1>2. ASSUME NEW l \in Lines
        PROVE  \/ l.number = 1 /\ l.verb = "ACTUATOR"
               \/ l.number = NoNumber /\ l.verb \in {"BUTTON", "OTA", "SECURITY", "GET"}
               \/ l.verb = "SET" /\ l.arg = "temp_threshold" /\ l.number = 38
               \/ l.verb = "SET" /\ l.arg = "diag_period_ms" /\ l.number = 4000
               \/ l.verb = "SET" /\ l.arg = "low_voltage_dv" /\ l.number = 34
               \/ l.verb = "SET" /\ l.arg = "frame_period_ms" /\ l.number = 2000
    <2>1. PICK i \in 1 .. 9 : l = commands[i]
      BY <1>1 DEF Lines
    <2>2. i \in {1, 2, 3, 4, 5, 6, 7, 8, 9}
      OBVIOUS
    <2> QED
      BY <2>1, <2>2 DEF commands, Line
  <1>3. ASSUME NEW l \in Lines, l.verb = "SET"
        PROVE  \/ l.arg = "temp_threshold" /\ l.number = 38
               \/ l.arg = "diag_period_ms" /\ l.number = 4000
               \/ l.arg = "low_voltage_dv" /\ l.number = 34
               \/ l.arg = "frame_period_ms" /\ l.number = 2000
    BY <1>2, <1>3
  <1>4. ASSUME NEW l \in Lines
        PROVE  l.number \in Nat \cup {NoNumber}
    BY <1>2
  <1> QED
    BY <1>1, <1>3, <1>4

\* What the parser returns: small codes, and for a SET line the key it names and
\* the number it gives.
LEMMA ParseFacts ==
  ASSUME NEW l, l.number \in Nat \cup {NoNumber}
  PROVE  LET cmd == CommandParser_Parse(l) IN
         /\ cmd.ok \in BOOLEAN /\ cmd.commandId \in 0 .. 6 /\ cmd.targetId \in 0 .. 4
         /\ cmd.value \in Nat
         /\ cmd.ok /\ cmd.commandId = COMMAND_ID.SET_CONFIG =>
              /\ l.verb = "SET" /\ l.arg \in DOMAIN CONFIG_KEY
              /\ cmd.targetId = CONFIG_KEY[l.arg] /\ cmd.value = l.number
  <1> DEFINE cmd == CommandParser_Parse(l)
             Good(c) == /\ c.ok \in BOOLEAN /\ c.commandId \in 0 .. 6
                        /\ c.targetId \in 0 .. 4 /\ c.value \in Nat
                        /\ c.ok /\ c.commandId = 1 =>
                             /\ l.verb = "SET" /\ l.arg \in DOMAIN CONFIG_KEY
                             /\ c.targetId = CONFIG_KEY[l.arg] /\ c.value = l.number
  <1>1. /\ COMMAND_ID.SET_CONFIG = 1 /\ COMMAND_ID.ACTUATOR = 2 /\ COMMAND_ID.BUTTON = 3
        /\ COMMAND_ID.OTA = 4 /\ COMMAND_ID.SECURITY_EVENT = 5 /\ COMMAND_ID.GET_STATUS = 6
    BY DEF COMMAND_ID
  <1>2. Good(Rejected)
    BY DEF Rejected
  <1>3. ASSUME NEW i \in 2 .. 6, NEW t \in 0 .. 4, NEW v \in Nat
        PROVE  Good(ParsedCommand(i, t, v))
    BY DEF ParsedCommand
  <1>4. ASSUME Scans(l, "SET"), l.arg \in DOMAIN CONFIG_KEY
        PROVE  Good(ParsedCommand(1, CONFIG_KEY[l.arg], l.number))
    <2>1. CONFIG_KEY[l.arg] \in 0 .. 4
      BY <1>4, KeyFacts
    <2>2. l.number \in Nat /\ l.verb = "SET"
      BY <1>4 DEF Scans
    <2> QED
      BY <1>4, <2>1, <2>2 DEF ParsedCommand
  <1>5. \/ cmd = Rejected
        \/ /\ cmd = ParsedCommand(1, CONFIG_KEY[l.arg], l.number)
           /\ Scans(l, "SET") /\ l.arg \in DOMAIN CONFIG_KEY
        \/ cmd = ParsedCommand(2, 1, l.number) /\ Scans(l, "ACTUATOR")
        \/ cmd = ParsedCommand(3, 0, 0)
        \/ cmd = ParsedCommand(4, 0, 1)
        \/ cmd = ParsedCommand(5, 0, 1)
        \/ cmd = ParsedCommand(6, 0, 0)
    BY <1>1 DEF CommandParser_Parse
  <1> HIDE DEF cmd, Good
  <1>6. Scans(l, "ACTUATOR") => Good(ParsedCommand(2, 1, l.number))
    <2>1. Scans(l, "ACTUATOR") => l.number \in Nat
      BY DEF Scans
    <2>2. 2 \in 2 .. 6 /\ 1 \in 0 .. 4
      OBVIOUS
    <2> QED
      BY <1>3, <2>1, <2>2
  <1>7. /\ Good(ParsedCommand(3, 0, 0)) /\ Good(ParsedCommand(4, 0, 1))
        /\ Good(ParsedCommand(5, 0, 1)) /\ Good(ParsedCommand(6, 0, 0))
    <2>1. /\ 3 \in 2 .. 6 /\ 4 \in 2 .. 6 /\ 5 \in 2 .. 6 /\ 6 \in 2 .. 6
          /\ 0 \in 0 .. 4 /\ 0 \in Nat /\ 1 \in Nat
      OBVIOUS
    <2> QED
      BY <1>3, <2>1
  <1>8. Good(cmd)
    BY <1>2, <1>4, <1>5, <1>6, <1>7
  <1> QED
    BY <1>1, <1>8 DEF Good, cmd

\* The values of the SET lines pass the setters unchanged.
LEMMA SetLinesGood ==
  ASSUME NEW l \in Lines, l.verb = "SET", NEW e \in Event,
         e.code = CONFIG_KEY[l.arg], e.value = l.number
  PROVE  GoodUpdate(e)
  <1>1. \/ e.code = 1 /\ e.value = 38
        \/ e.code = 2 /\ e.value = 4000
        \/ e.code = 3 /\ e.value = 34
        \/ e.code = 4 /\ e.value = 2000
    BY LineFacts, KeyFacts
  <1>2. /\ KeyName(1) = "TEMP_THRESHOLD" /\ KeyName(2) = "DIAG_PERIOD_MS"
        /\ KeyName(3) = "LOW_VOLTAGE_DV" /\ KeyName(4) = "FRAME_PERIOD_MS"
    BY DEF KeyName
  <1>3. 38 % 256 = 38 /\ 34 % 256 = 34
    OBVIOUS
  <1> DEFINE u == Unpacked(e)
  <1>4. u.key = KeyName(e.code) /\ u.value = e.value
    BY DEF Unpacked
  <1> HIDE DEF u
  <1>5. e.code \in 1 .. 4 /\ e.value \in ValidRange(u.key)
    <2>1. 38 \in ValidRange(KeyName(1))
      BY DEF KeyName, ValidRange, TempThresholdRange
    <2>2. 4000 \in ValidRange(KeyName(2))
      BY DEF KeyName, ValidRange, DiagnosticPeriodRange
    <2>3. 34 \in ValidRange(KeyName(3))
      BY DEF KeyName, ValidRange, LowVoltageRange
    <2>4. 2000 \in ValidRange(KeyName(4))
      BY DEF KeyName, ValidRange, FramePeriodRange
    <2>5. e.value \in ValidRange(KeyName(e.code))
      BY <1>1, <2>1, <2>2, <2>3, <2>4
    <2> QED
      BY <1>1, <1>4, <2>5
  <1>6. Argument(u) = e.value
    <2>1. CASE e.code \in {1, 3}
      BY <1>1, <1>3, <1>4, <2>1 DEF Argument
    <2>2. CASE e.code \in {2, 4}
      BY <1>1, <1>2, <1>4, <2>2 DEF Argument
    <2> QED
      BY <1>1, <2>1, <2>2
  <1> QED
    BY <1>4, <1>5, <1>6 DEF GoodUpdate, u

\* What a setter does to the configuration: one setting becomes the value.
LEMMA SetFieldFacts ==
  ASSUME NEW c \in ConfigType, NEW code \in 1 .. 4, NEW v \in ValidRange(KeyName(code))
  PROVE  LET d == SetField(c, KeyName(code), v) IN
         /\ d \in ConfigType
         /\ \A n \in DOMAIN CONFIG_KEY :
              TextSettings(d)[n] = IF CONFIG_KEY[n] = code THEN v ELSE TextSettings(c)[n]
  <1> DEFINE Named(d, n) == CASE n = "temp_threshold" -> d.tempThreshold
                              [] n = "diag_period_ms" -> d.diagnosticPeriodMs
                              [] n = "low_voltage_dv" -> d.lowVoltageDecivolts
                              [] n = "frame_period_ms" -> d.framePeriodMs
  <1>1. \A d : \A n \in DOMAIN CONFIG_KEY : TextSettings(d)[n] = Named(d, n)
    BY KeyFacts DEF TextSettings
  <1>2. \A d \in ConfigType : /\ Seal(d) \in ConfigType
                              /\ \A n \in DOMAIN CONFIG_KEY : Named(Seal(d), n) = Named(d, n)
    <2> TAKE d \in ConfigType
    <2>1. Crc32(d) \in Nat \X Nat \X Nat \X Nat \X Nat
      BY DEF Crc32, ConfigType
    <2>2. Seal(d) \in ConfigType
      BY <2>1 DEF Seal, ConfigType
    <2>3. /\ Seal(d).tempThreshold = d.tempThreshold
          /\ Seal(d).diagnosticPeriodMs = d.diagnosticPeriodMs
          /\ Seal(d).lowVoltageDecivolts = d.lowVoltageDecivolts
          /\ Seal(d).framePeriodMs = d.framePeriodMs
      BY DEF Seal, ConfigType
    <2> QED
      BY <2>2, <2>3
  <1>3. /\ KeyName(1) = "TEMP_THRESHOLD" /\ KeyName(2) = "DIAG_PERIOD_MS"
        /\ KeyName(3) = "LOW_VOLTAGE_DV" /\ KeyName(4) = "FRAME_PERIOD_MS"
    BY DEF KeyName
  <1>4. code = 1 \/ code = 2 \/ code = 3 \/ code = 4
    OBVIOUS
  <1>5. /\ FieldOf["TEMP_THRESHOLD"] = "tempThreshold"
        /\ FieldOf["DIAG_PERIOD_MS"] = "diagnosticPeriodMs"
        /\ FieldOf["LOW_VOLTAGE_DV"] = "lowVoltageDecivolts"
        /\ FieldOf["FRAME_PERIOD_MS"] = "framePeriodMs"
    BY DEF FieldOf
  <1>6. /\ ValidRange("TEMP_THRESHOLD") = TempThresholdRange
        /\ ValidRange("DIAG_PERIOD_MS") = DiagnosticPeriodRange
        /\ ValidRange("LOW_VOLTAGE_DV") = LowVoltageRange
        /\ ValidRange("FRAME_PERIOD_MS") = FramePeriodRange
    BY DEF ValidRange
  <1> DEFINE d == [c EXCEPT ![FieldOf[KeyName(code)]] = v]
  <1>7. /\ d \in ConfigType
        /\ \A n \in DOMAIN CONFIG_KEY :
             Named(d, n) = IF CONFIG_KEY[n] = code THEN v ELSE Named(c, n)
    <2> HIDE DEF d
    <2>1. CASE code = 1
      <3>1. FieldOf[KeyName(code)] = "tempThreshold" /\ v \in TempThresholdRange
        BY <1>3, <1>5, <1>6, <2>1
      <3>2. d = [c EXCEPT !.tempThreshold = v]
        BY <3>1, SMTT(30) DEF d
      <3>3. v \in 0 .. 255
        BY <3>1 DEF TempThresholdRange
      <3> QED
        BY <2>1, <3>2, <3>3, KeyFacts, SMTT(30) DEF ConfigType
    <2>2. CASE code = 2
      <3>1. FieldOf[KeyName(code)] = "diagnosticPeriodMs" /\ v \in DiagnosticPeriodRange
        BY <1>3, <1>5, <1>6, <2>2
      <3>2. d = [c EXCEPT !.diagnosticPeriodMs = v]
        BY <3>1, SMTT(30) DEF d
      <3>3. v \in Nat
        BY <3>1 DEF DiagnosticPeriodRange
      <3> QED
        BY <2>2, <3>2, <3>3, KeyFacts, SMTT(30) DEF ConfigType
    <2>3. CASE code = 3
      <3>1. FieldOf[KeyName(code)] = "lowVoltageDecivolts" /\ v \in LowVoltageRange
        BY <1>3, <1>5, <1>6, <2>3
      <3>2. d = [c EXCEPT !.lowVoltageDecivolts = v]
        BY <3>1, SMTT(30) DEF d
      <3>3. v \in 0 .. 255
        BY <3>1 DEF LowVoltageRange
      <3> QED
        BY <2>3, <3>2, <3>3, KeyFacts, SMTT(30) DEF ConfigType
    <2>4. CASE code = 4
      <3>1. FieldOf[KeyName(code)] = "framePeriodMs" /\ v \in FramePeriodRange
        BY <1>3, <1>5, <1>6, <2>4
      <3>2. d = [c EXCEPT !.framePeriodMs = v]
        BY <3>1, SMTT(30) DEF d
      <3>3. v \in Nat
        BY <3>1 DEF FramePeriodRange
      <3> QED
        BY <2>4, <3>2, <3>3, KeyFacts, SMTT(30) DEF ConfigType
    <2> QED
      BY <1>4, <2>1, <2>2, <2>3, <2>4
  <1> HIDE DEF Named, d
  <1>8. SetField(c, KeyName(code), v) = Seal(d)
    BY DEF SetField, d
  <1> QED
    BY <1>1, <1>2, <1>7, <1>8

\* HealthManager's rules know every signal, and a state fits in a byte.
LEMMA RuleTypes ==
  /\ \A e : stateForSeverity(classifyFault(e)) \in DeviceStates
  /\ \A s \in DeviceStates : StateCode[s] \in 0 .. 255
  <1>1. \A e : classifyFault(e) \in Severities
    BY DEF classifyFault, Severities
  <1>2. \A v \in Severities : stateForSeverity(v) \in DeviceStates
    BY DEF stateForSeverity, Severities, DeviceStates
  <1>3. \A s \in DeviceStates : StateCode[s] \in 0 .. 255
    BY DEF StateCode, DeviceStates
  <1> QED
    BY <1>1, <1>2, <1>3

-----------------------------------------------------------------------------
(***************************************************************************)
(* The initial states.                                                     *)
(***************************************************************************)

\* Every state to begin with satisfies the invariant.
LEMMA InitInv == Init => AppInv
  <1> SUFFICES ASSUME Init PROVE AppInv
    OBVIOUS
  <1>1. PICK s \in Starts : /\ local = s.local
                            /\ s_config = s.config
                            /\ wanted = TextSettings(s.config)
                            /\ health = s.health
                            /\ s_dropCount = s.drops
                            /\ announced = StateCode[s.health.state]
    BY SMTT(30) DEF Init
  <1>2. /\ s.local \in Locals /\ s.config \in ConfigType /\ s.health \in Health
        /\ s.drops \in Nat
        /\ s.health.topic # "TOPIC_MAX" =>
             s.health.state = stateForSeverity(classifyFault(s.health))
    BY AppAssumption
  <1>3. /\ \A c \in Consumers : queue[c] = <<>>
        /\ \A p \in Tasks : todo[p] = <<>>
        /\ queue \in [Consumers -> Seq(Event)] /\ todo \in [Tasks -> Seq(Event)]
    BY DEF Init
  <1>4. DOMAIN <<>> = {} /\ Len(<<>>) = 0 /\ <<>> \in Seq(Event)
    OBVIOUS
  <1>5. TypeOK
    <2>1. \A c \in Consumers : Len(queue[c]) <= QueueLength[c]
      BY <1>3, <1>4, AppAssumption
    <2>2. line \in {commands[i] : i \in DOMAIN commands}
      BY LineFacts DEF Init
    <2>3. wanted \in [DOMAIN CONFIG_KEY -> Nat]
      BY <1>1, <1>2, KeyFacts DEF TextSettings, ConfigType
    <2>4. announced \in 0 .. 255
      BY <1>1, <1>2, RuleTypes DEF Health
    <2>5. asked \in [Consumers -> Nat] /\ answered \in [Consumers -> Nat]
      BY DEF Init
    <2>6. 0 \in 0 .. MaxRounds
      BY AppAssumption
    <2>7. checking \in BOOLEAN /\ rounds \in 0 .. MaxRounds
      BY <2>6 DEF Init
    <2> QED
      BY <1>1, <1>2, <1>3, <2>1, <2>2, <2>3, <2>4, <2>5, <2>7 DEF TypeOK
  <1>6. QueueInv
    BY <1>3, <1>4 DEF QueueInv
  <1>7. AnswersCounted
    <2> SUFFICES ASSUME NEW c \in DOMAIN Request
                 PROVE  asked[c] = answered[c] + Count(todo[c], Answer[c])
                                     + Count(queue[c], Request[c])
      BY DEF AnswersCounted
    <2>1. c \in Consumers /\ c \in Tasks
      BY RequestFacts
    <2>2. asked[c] = 0 /\ answered[c] = 0 /\ todo[c] = <<>> /\ queue[c] = <<>>
      BY <1>3, <2>1 DEF Init
    <2>3. Count(<<>>, Answer[c]) = 0 /\ Count(<<>>, Request[c]) = 0
      BY <1>4, CountType
    <2> QED
      BY <2>2, <2>3
  <1>8. UpdateInv
    <2>1. "CONFIG_MANAGER" \in Consumers
      BY RequestFacts
    <2> QED
      BY <1>3, <1>4, <2>1 DEF UpdateInv
  <1>9. WantedInv
    <2> SUFFICES ASSUME NEW n \in DOMAIN CONFIG_KEY
                 PROVE  /\ Updates(queue["CONFIG_MANAGER"], n) = {}
                        /\ TextSettings(s_config)[n] = wanted[n]
      BY Zenon DEF WantedInv
    <2>1. queue["CONFIG_MANAGER"] = <<>>
      BY <1>3, RequestFacts
    <2> QED
      BY <1>1, <1>4, <2>1 DEF Updates
  <1>10. AnnounceInv
    <2>1. "HEALTH_MANAGER" \in Tasks
      BY DEF Tasks, Consumers
    <2> QED
      BY <1>1, <1>2, <1>3, <2>1 DEF AnnounceInv
  <1> QED
    BY <1>5, <1>6, <1>7, <1>8, <1>9, <1>10 DEF AppInv

-----------------------------------------------------------------------------
(***************************************************************************)
(* The rounds of the producers.  All they change for the invariant is what *)
(* the task has yet to publish.                                            *)
(***************************************************************************)

\* Task p, which is not a subscriber, has new events to publish.
LEMMA ProducerKeeps ==
  ASSUME AppInv, NEW p \in Producers, NEW events \in Seq(Event),
         todo' = [todo EXCEPT ![p] = events],
         UNCHANGED <<queue, s_dropCount, s_config, health, history>>,
         local' \in Locals, line' \in Lines, checking' \in BOOLEAN,
         rounds' \in 0 .. MaxRounds, UpdateInv'
  PROVE  AppInv'
  <1>1. p \in Tasks /\ p \notin Consumers
    BY DEF Producers, Consumers, Tasks
  <1>2. TypeOK'
    BY <1>1 DEF AppInv, TypeOK, history, Lines
  <1>3. \A c \in Consumers : todo'[c] = todo[c]
    BY <1>1 DEF AppInv, TypeOK, Tasks
  <1>4. QueueInv'
    BY DEF AppInv, QueueInv
  <1>5. AnswersCounted'
    BY <1>3, RequestFacts DEF AppInv, AnswersCounted, history
  <1>6. WantedInv'
    BY DEF AppInv, WantedInv, history
  <1>7. AnnounceInv'
    BY <1>3 DEF AppInv, AnnounceInv, history, Consumers
  <1> QED
    BY <1>2, <1>4, <1>5, <1>6, <1>7 DEF AppInv

\* Events that update no setting do not disturb UpdateInv.
LEMMA PlainKeepsUpdates ==
  ASSUME AppInv, NEW p \in Tasks, NEW events \in Seq(Plain),
         todo' = [todo EXCEPT ![p] = events],
         \A k \in DOMAIN queue'["CONFIG_MANAGER"] : GoodUpdate(queue'["CONFIG_MANAGER"][k]),
         line' = line
  PROVE  UpdateInv'
  <1>1. ASSUME NEW q \in Tasks, NEW k \in DOMAIN todo'[q],
               todo'[q][k].topic = "CONFIG_UPDATE"
        PROVE  q # p /\ todo'[q] = todo[q]
    <2>1. \A j \in DOMAIN events : events[j].topic # "CONFIG_UPDATE"
      BY DEF Plain
    <2>2. q = p => todo'[q] = events
      BY DEF AppInv, TypeOK
    <2>3. q # p => todo'[q] = todo[q]
      BY DEF AppInv, TypeOK
    <2> QED
      BY <1>1, <2>1, <2>2, <2>3
  <1> QED
    BY <1>1 DEF AppInv, UpdateInv

\* A sequence of plain events is a sequence of events, and an event of any topic but
\* CONFIG_UPDATE is plain.
LEMMA PlainFacts ==
  /\ \A s \in Seq(Plain) : s \in Seq(Event)
  /\ \A t \in Topics \ {"CONFIG_UPDATE"}, code \in 0 .. 255, value \in Nat :
       Evt(t, code, value) \in Plain
  /\ <<>> \in Seq(Plain)
  /\ \A e \in Plain : <<e>> \in Seq(Plain)
  /\ \A s, t \in Seq(Plain) : s \o t \in Seq(Plain)
  /\ \A s \in Seq(Plain), condition \in BOOLEAN : If(condition, s) \in Seq(Plain)
  <1>1. \A t \in Topics \ {"CONFIG_UPDATE"}, code \in 0 .. 255, value \in Nat :
          Evt(t, code, value) \in Plain
    <2> TAKE t \in Topics \ {"CONFIG_UPDATE"}, code \in 0 .. 255, value \in Nat
    <2>1. t \in Topics /\ t # "CONFIG_UPDATE"
      OBVIOUS
    <2>2. Evt(t, code, value) \in Event /\ Evt(t, code, value).topic = t
      BY <2>1 DEF Evt, Event
    <2> QED
      BY <2>1, <2>2 DEF Plain
  <1>2. Plain \subseteq Event
    BY DEF Plain
  <1> HIDE DEF Plain
  <1>3. <<>> \in Seq(Plain) /\ \A e \in Plain : <<e>> \in Seq(Plain)
    OBVIOUS
  <1>4. \A s, t \in Seq(Plain) : s \o t \in Seq(Plain)
    OBVIOUS
  <1>5. \A s \in Seq(Plain) : s \in Seq(Event)
    BY <1>2
  <1>6. \A s \in Seq(Plain), condition \in BOOLEAN : If(condition, s) \in Seq(Plain)
    BY <1>3 DEF If
  <1> QED
    BY <1>1, <1>3, <1>4, <1>5, <1>6

\* A round that publishes no update.
LEMMA PlainRound ==
  ASSUME AppInv, NEW p \in Producers, NEW events \in Seq(Plain),
         BeginRound(p, events), local' \in Locals, line' = line, checking' \in BOOLEAN
  PROVE  AppInv'
  <1>1. p \in Tasks /\ events \in Seq(Event) /\ line \in Lines
    BY PlainFacts DEF Producers, Tasks, AppInv, TypeOK, Lines
  <1>2. /\ todo' = [todo EXCEPT ![p] = events]
        /\ UNCHANGED <<queue, s_dropCount, s_config, health, history>>
    BY DEF BeginRound
  <1>3. rounds' \in 0 .. MaxRounds
    BY AppAssumption DEF BeginRound, AppInv, TypeOK
  <1>4. UpdateInv'
    <2>1. \A k \in DOMAIN queue'["CONFIG_MANAGER"] : GoodUpdate(queue'["CONFIG_MANAGER"][k])
      BY <1>2 DEF AppInv, UpdateInv
    <2> QED
      BY <1>1, <1>2, <2>1, PlainKeepsUpdates
  <1> QED
    BY <1>1, <1>2, <1>3, <1>4, ProducerKeeps

\* The events that producers and the watchdog publish are plain.
LEMMA PlainEvents ==
  /\ \A t \in {"TEMP_UPDATE", "FRAME_READY"} : Evt(t, 0, 0) \in Plain
  /\ \A n \in 0 .. 255 : /\ Evt("SENSOR_READING", n, 0) \in Plain
                         /\ Evt("THRESHOLD_CROSSED", n, 0) \in Plain
                         /\ Evt("SYSTEM_FAULT", n, 0) \in Plain
                         /\ Evt("POWER_EVENT", n, 0) \in Plain
                         /\ Evt("DIAGNOSTIC_REPORT", n, 0) \in Plain
                         /\ Evt("STORAGE_LOG", n, 0) \in Plain
                         /\ Evt("ACTUATOR_STATUS", n, 1) \in Plain
                         /\ Evt("SECURITY_EVENT", n, 0) \in Plain
                         /\ \A v \in Nat : /\ Evt("DEVICE_STATUS", n, v) \in Plain
                                           /\ Evt("NETWORK_STATUS", n, v) \in Plain
                                           /\ Evt("COMMAND_RECEIVED", n, v) \in Plain
  /\ Evt("SYSTEM_FAULT", 0, 1) \in Plain
  <1>1. {"TEMP_UPDATE", "FRAME_READY", "SENSOR_READING", "THRESHOLD_CROSSED", "SYSTEM_FAULT",
         "POWER_EVENT", "DIAGNOSTIC_REPORT", "STORAGE_LOG", "ACTUATOR_STATUS",
         "SECURITY_EVENT", "DEVICE_STATUS", "NETWORK_STATUS", "COMMAND_RECEIVED"}
           \subseteq Topics \ {"CONFIG_UPDATE"}
    BY DEF Topics
  <1>2. 0 \in 0 .. 255 /\ 0 \in Nat /\ 1 \in Nat
    OBVIOUS
  <1> QED
    BY <1>1, <1>2, PlainFacts, ZenonT(60)

\* A round of SensorManager keeps the invariant.
LEMMA SensorKeeps == AppInv /\ Sensor_Round => AppInv'
  <1> SUFFICES ASSUME AppInv, Sensor_Round PROVE AppInv'
    OBVIOUS
  <1>1. PICK delta \in TempDeltas, frame \in FrameEvents :
          LET temperature == (local.temperature + delta + 51) % 51 IN
          /\ local' = [local EXCEPT !.temperature = temperature]
          /\ BeginRound("SENSOR_MANAGER",
               <<Evt("TEMP_UPDATE", 0, 0), Evt("SENSOR_READING", 1, 0),
                 Evt("SENSOR_READING", 2, 0)>>
                 \o If(temperature > s_config.tempThreshold, <<Evt("THRESHOLD_CROSSED", 1, 0)>>)
                 \o frame)
          /\ UNCHANGED <<line, checking>>
    BY DEF Sensor_Round
  <1> DEFINE temperature == (local.temperature + delta + 51) % 51
             readings == <<Evt("TEMP_UPDATE", 0, 0), Evt("SENSOR_READING", 1, 0),
                           Evt("SENSOR_READING", 2, 0)>>
             crossed == If(temperature > s_config.tempThreshold,
                           <<Evt("THRESHOLD_CROSSED", 1, 0)>>)
  <1>2. temperature \in 0 .. 50 /\ local' \in Locals
    <2>1. delta \in -2 .. 2 /\ local \in Locals
      BY AppAssumption DEF AppInv, TypeOK
    <2>2. local.temperature + delta + 51 \in Nat
      BY <2>1 DEF Locals
    <2>3. temperature \in 0 .. 50
      BY <2>2
    <2> HIDE DEF temperature
    <2>4. local' = [local EXCEPT !.temperature = temperature]
      BY <1>1 DEF temperature
    <2> QED
      BY <2>1, <2>3, <2>4 DEF Locals
  <1>3. readings \in Seq(Plain)
    BY PlainEvents
  <1>4. crossed \in Seq(Plain)
    <2>1. (temperature > s_config.tempThreshold) \in BOOLEAN
      OBVIOUS
    <2>2. <<Evt("THRESHOLD_CROSSED", 1, 0)>> \in Seq(Plain)
      BY PlainEvents
    <2> QED
      BY <2>1, <2>2, PlainFacts DEF If
  <1>5. frame \in Seq(Plain)
    <2>1. frame = <<>> \/ frame = <<Evt("FRAME_READY", 0, 0)>>
            \/ frame = <<Evt("SYSTEM_FAULT", 0, 1)>>
      BY DEF FrameEvents
    <2> QED
      BY <2>1, PlainEvents, PlainFacts
  <1> DEFINE events == readings \o crossed \o frame
  <1>6. events \in Seq(Plain)
    <2> HIDE DEF readings, crossed
    <2> QED
      BY <1>3, <1>4, <1>5
  <1>7. BeginRound("SENSOR_MANAGER", events) /\ UNCHANGED <<line, checking>>
    BY <1>1
  <1> HIDE DEF events, temperature
  <1>8. "SENSOR_MANAGER" \in Producers
    BY DEF Producers
  <1>9. /\ checking' \in BOOLEAN /\ line' = line
    BY <1>7 DEF AppInv, TypeOK, BeginRound
  <1> QED
    BY <1>2, <1>6, <1>7, <1>8, <1>9, PlainRound

\* So does a round of Network.
LEMMA NetworkKeeps == AppInv /\ Network_Round => AppInv'
  <1> SUFFICES ASSUME AppInv, Network_Round PROVE AppInv'
    OBVIOUS
  <1> DEFINE link == IF local.online THEN 1 ELSE 0
             status == <<Evt("NETWORK_STATUS", link, link)>>
             received == If(local.online, <<Evt("COMMAND_RECEIVED", 10, 0)>>)
             events == status \o received
  <1>1. local \in Locals /\ local.online \in BOOLEAN
    BY DEF AppInv, TypeOK, Locals
  <1>2. status \in Seq(Plain)
    BY PlainEvents, SMTT(30)
  <1>3. received \in Seq(Plain)
    BY PlainEvents, PlainFacts, SMTT(30) DEF If
  <1>4. events \in Seq(Plain)
    <2> HIDE DEF status, received
    <2> QED
      BY <1>2, <1>3
  <1>5. /\ local' = [local EXCEPT !.online = ~@]
        /\ BeginRound("NETWORK", events) /\ UNCHANGED <<line, checking>>
    BY DEF Network_Round
  <1> HIDE DEF events
  <1>6. local' \in Locals
    <2> DEFINE flipped == ~local.online
    <2>1. flipped \in BOOLEAN /\ local' = [local EXCEPT !.online = flipped]
      BY <1>5
    <2> HIDE DEF flipped
    <2> QED
      BY <1>1, <2>1 DEF Locals
  <1>7. "NETWORK" \in Producers
    BY DEF Producers
  <1>8. /\ checking' \in BOOLEAN /\ line' = line
    BY <1>5 DEF AppInv, TypeOK, BeginRound
  <1> QED
    BY <1>4, <1>5, <1>6, <1>7, <1>8, PlainRound

\* The supply stays between 30 and 49 decivolts.
LEMMA VoltageFacts ==
  ASSUME NEW v \in 30 .. 49, NEW delta \in -1 .. 1
  PROVE  NextVoltage(v, delta) \in 30 .. 49
  <1> DEFINE volts == (v + delta + 50) % 50
  <1>1. v + delta + 50 \in Nat
    OBVIOUS
  <1>2. volts \in 0 .. 49
    BY <1>1
  <1> HIDE DEF volts
  <1>3. NextVoltage(v, delta) = IF volts < 30 THEN 37 ELSE volts
    BY DEF NextVoltage, volts
  <1> QED
    BY <1>2, <1>3

\* So does the first half of a round of PowerMonitor, its reading.
LEMMA PowerRoundKeeps == AppInv /\ Power_Round => AppInv'
  <1> SUFFICES ASSUME AppInv, Power_Round PROVE AppInv'
    OBVIOUS
  <1>1. PICK delta \in VoltDeltas :
          /\ local' = [local EXCEPT !.voltageDecivolts = NextVoltage(@, delta)]
          /\ checking' = TRUE
          /\ BeginRound("POWER_MONITOR", <<Evt("SENSOR_READING", 3, 0)>>)
          /\ UNCHANGED <<line>>
    BY DEF Power_Round
  <1>2. local' \in Locals
    <2>1. delta \in -1 .. 1 /\ local \in Locals
      BY AppAssumption DEF AppInv, TypeOK
    <2>2. local.voltageDecivolts \in 30 .. 49
      BY <2>1 DEF Locals
    <2>3. NextVoltage(local.voltageDecivolts, delta) \in 30 .. 49
      BY <2>1, <2>2, VoltageFacts
    <2> QED
      BY <1>1, <2>1, <2>3 DEF Locals
  <1>3. <<Evt("SENSOR_READING", 3, 0)>> \in Seq(Plain)
    BY PlainEvents
  <1>4. "POWER_MONITOR" \in Producers
    BY DEF Producers
  <1>5. /\ checking' \in BOOLEAN /\ line' = line
    BY <1>1 DEF AppInv, TypeOK, BeginRound
  <1> QED
    BY <1>1, <1>2, <1>3, <1>4, <1>5, PlainRound

\* So does the second half, the comparison with the configured voltage.
LEMMA PowerCheckKeeps == AppInv /\ Power_Check => AppInv'
  <1> SUFFICES ASSUME AppInv, Power_Check PROVE AppInv'
    OBVIOUS
  <1> DEFINE low == IF local.voltageDecivolts < s_config.lowVoltageDecivolts THEN 1 ELSE 0
             events == <<Evt("POWER_EVENT", low, 0)>>
  <1>1. /\ checking' = FALSE
        /\ todo' = [todo EXCEPT !["POWER_MONITOR"] = events]
        /\ UNCHANGED <<queue, s_dropCount, s_config, local, line, health, rounds, history>>
    BY DEF Power_Check
  <1>2. events \in Seq(Plain)
    BY PlainEvents, SMTT(30)
  <1> HIDE DEF events
  <1>3. events \in Seq(Event) /\ "POWER_MONITOR" \in Producers /\ "POWER_MONITOR" \in Tasks
    BY <1>2, PlainFacts DEF Producers, Tasks
  <1>4. UpdateInv'
    <2>1. \A k \in DOMAIN queue'["CONFIG_MANAGER"] : GoodUpdate(queue'["CONFIG_MANAGER"][k])
      BY <1>1 DEF AppInv, UpdateInv
    <2>2. line' = line
      BY <1>1
    <2> QED
      BY <1>1, <1>2, <1>3, <2>1, <2>2, PlainKeepsUpdates
  <1>5. /\ local' \in Locals /\ line' \in Lines /\ checking' \in BOOLEAN
        /\ rounds' \in 0 .. MaxRounds
    BY <1>1 DEF AppInv, TypeOK, Lines
  <1>6. UNCHANGED <<queue, s_dropCount, s_config, health, history>>
    BY <1>1
  <1> QED
    BY <1>1, <1>3, <1>4, <1>5, <1>6, ProducerKeeps

\* So does a round of Diagnostics.
LEMMA DiagnosticsKeeps == AppInv /\ Diagnostics_Round => AppInv'
  <1> SUFFICES ASSUME AppInv, Diagnostics_Round PROVE AppInv'
    OBVIOUS
  <1>1. ReportedDrops \in 0 .. 255
    BY DEF AppInv, TypeOK, ReportedDrops, Bus_GetDropCount
  <1>2. /\ BeginRound("DIAGNOSTICS", <<Evt("DIAGNOSTIC_REPORT", ReportedDrops, 0)>>)
        /\ UNCHANGED <<local, line, checking>>
    BY DEF Diagnostics_Round
  <1>3. <<Evt("DIAGNOSTIC_REPORT", ReportedDrops, 0)>> \in Seq(Plain)
    BY <1>1, PlainEvents, SMTT(30)
  <1>4. "DIAGNOSTICS" \in Producers
    BY DEF Producers
  <1>5. local' \in Locals /\ line' = line /\ checking' \in BOOLEAN
    BY <1>2 DEF AppInv, TypeOK
  <1> QED
    BY <1>2, <1>3, <1>4, <1>5, PlainRound

\* So does a report of the watchdog's.
LEMMA WatchdogKeeps == AppInv /\ Watchdog_Report => AppInv'
  <1> SUFFICES ASSUME AppInv, Watchdog_Report PROVE AppInv'
    OBVIOUS
  <1>1. PICK id \in {0, 9} : /\ BeginRound("WATCHDOG", <<Evt("SYSTEM_FAULT", id, 0)>>)
                             /\ UNCHANGED <<local, line, checking>>
    BY DEF Watchdog_Report
  <1>2. <<Evt("SYSTEM_FAULT", id, 0)>> \in Seq(Plain)
    BY PlainEvents, SMTT(30)
  <1>3. "WATCHDOG" \in Producers
    BY DEF Producers
  <1>4. /\ local' \in Locals /\ line' = line /\ checking' \in BOOLEAN
    BY <1>1 DEF AppInv, TypeOK, BeginRound
  <1> QED
    BY <1>1, <1>2, <1>3, <1>4, PlainRound

\* An update is made from a SET line only, with the key and the number found there.
LEMMA RoutedFacts ==
  ASSUME NEW l \in Lines
  PROVE  LET cmd == CommandParser_Parse(l)  e == Routed(cmd) IN
         /\ e \in Event
         /\ cmd.ok /\ e.topic = "CONFIG_UPDATE" =>
              l.arg \in DOMAIN CONFIG_KEY /\ e.code = CONFIG_KEY[l.arg] /\ e.value = l.number
                /\ GoodUpdate(e)
  <1> DEFINE cmd == CommandParser_Parse(l)
             e == Routed(cmd)
  <1>1. l.number \in Nat \cup {NoNumber}
    BY LineFacts
  <1>2. /\ cmd.targetId \in 0 .. 255 /\ cmd.value \in Nat
        /\ cmd.ok /\ cmd.commandId = COMMAND_ID.SET_CONFIG =>
             /\ l.verb = "SET" /\ l.arg \in DOMAIN CONFIG_KEY
             /\ cmd.targetId = CONFIG_KEY[l.arg] /\ cmd.value = l.number
    BY <1>1, ParseFacts
  <1> HIDE DEF cmd
  <1>3. \/ /\ e = Evt("CONFIG_UPDATE", cmd.targetId, cmd.value)
           /\ cmd.commandId = COMMAND_ID.SET_CONFIG
        \/ e = Evt("ACTUATOR_COMMAND", cmd.targetId, cmd.value % 256)
        \/ e = Evt("BUTTON_PRESS", 0, 0)
        \/ e = Evt("OTA_EVENT", 1, 0)
        \/ e = Evt("SECURITY_EVENT", 1, 0)
        \/ e = Evt("DEVICE_STATUS", 0, 0)
    BY DEF Routed
  <1>4. /\ {"CONFIG_UPDATE", "ACTUATOR_COMMAND", "BUTTON_PRESS", "OTA_EVENT",
            "SECURITY_EVENT", "DEVICE_STATUS"} \subseteq Topics
        /\ cmd.value % 256 \in Nat
        /\ 0 \in 0 .. 255 /\ 1 \in 0 .. 255 /\ 0 \in Nat /\ 1 \in Nat
    BY <1>2 DEF Topics
  <1> HIDE DEF e
  <1>5. e \in Event
    BY <1>2, <1>3, <1>4 DEF Evt, Event
  <1>6. ASSUME cmd.ok, e.topic = "CONFIG_UPDATE"
        PROVE  /\ l.verb = "SET" /\ l.arg \in DOMAIN CONFIG_KEY
               /\ e.code = CONFIG_KEY[l.arg] /\ e.value = l.number
    BY <1>2, <1>3, <1>6 DEF Evt
  <1>7. cmd.ok /\ e.topic = "CONFIG_UPDATE" => GoodUpdate(e)
    BY <1>5, <1>6, SetLinesGood
  <1> QED
    BY <1>5, <1>6, <1>7 DEF e, cmd

\* So does a round of CommandTask: a SET line becomes an update that its setter will
\* accept.
LEMMA CommandKeeps == AppInv /\ Command_Round => AppInv'
  <1> SUFFICES ASSUME AppInv, Command_Round PROVE AppInv'
    OBVIOUS
  <1> DEFINE next == commands[(local.commandIndex % Len(commands)) + 1]
             cmd == CommandParser_Parse(next)
             e == Routed(cmd)
             first == Evt("COMMAND_RECEIVED", cmd.commandId, cmd.value)
             events == IF cmd.ok THEN <<first, e>> ELSE <<Evt("SECURITY_EVENT", 2, 0)>>
  <1>1. local \in Locals /\ local.commandIndex \in 0 .. 255
    BY DEF AppInv, TypeOK, Locals
  <1>2. next \in Lines
    <2>1. (local.commandIndex % 9) + 1 \in 1 .. 9
      BY <1>1
    <2> QED
      BY <2>1, LineFacts DEF Lines
  <1>3. /\ line' = next
        /\ local' = [local EXCEPT !.commandIndex = (@ + 1) % 256]
        /\ BeginRound("COMMAND", events)
        /\ UNCHANGED <<checking>>
    BY DEF Command_Round
  <1> HIDE DEF next
  <1>4. /\ e \in Event
        /\ cmd.ok /\ e.topic = "CONFIG_UPDATE" =>
             /\ next.arg \in DOMAIN CONFIG_KEY /\ e.code = CONFIG_KEY[next.arg]
             /\ e.value = next.number /\ GoodUpdate(e)
    BY <1>2, RoutedFacts
  <1>5. first \in Event /\ first.topic # "CONFIG_UPDATE"
    <2>1. next.number \in Nat \cup {NoNumber}
      BY <1>2, LineFacts
    <2>2. cmd.commandId \in 0 .. 255 /\ cmd.value \in Nat
      BY <2>1, ParseFacts
    <2> QED
      BY <2>2 DEF Evt, Event, Topics
  <1>6. Evt("SECURITY_EVENT", 2, 0) \in Event
          /\ Evt("SECURITY_EVENT", 2, 0).topic # "CONFIG_UPDATE"
    BY DEF Evt, Event, Topics
  <1> HIDE DEF cmd, e, first
  <1>7. /\ events \in Seq(Event)
        /\ \A k \in DOMAIN events :
             events[k].topic = "CONFIG_UPDATE" => cmd.ok /\ events[k] = e
    <2>1. CASE cmd.ok
      <3>1. events = <<first, e>>
        BY <2>1
      <3> HIDE DEF events
      <3>2. DOMAIN events = {1, 2} /\ events[1] = first /\ events[2] = e
        BY <3>1
      <3>3. events \in Seq(Event)
        BY <1>4, <1>5, <3>1
      <3> QED
        BY <1>5, <2>1, <3>2, <3>3
    <2>2. CASE ~cmd.ok
      <3>1. events = <<Evt("SECURITY_EVENT", 2, 0)>>
        BY <2>2
      <3> HIDE DEF events
      <3> QED
        BY <1>6, <3>1
    <2> QED
      BY <2>1, <2>2
  <1> HIDE DEF events
  <1>8. "COMMAND" \in Producers /\ "COMMAND" \in Tasks
    BY DEF Producers, Tasks
  <1>9. /\ todo' = [todo EXCEPT !["COMMAND"] = events]
        /\ UNCHANGED <<queue, s_dropCount, s_config, health, history>>
    BY <1>3 DEF BeginRound
  <1>10. rounds' \in 0 .. MaxRounds
    BY <1>3, AppAssumption DEF BeginRound, AppInv, TypeOK
  <1>11. local' \in Locals
    <2>1. (local.commandIndex + 1) % 256 \in 0 .. 255
      BY <1>1
    <2> QED
      BY <1>1, <1>3, <2>1 DEF Locals
  <1>12. /\ line' \in Lines /\ checking' \in BOOLEAN
    BY <1>2, <1>3, <1>9 DEF AppInv, TypeOK
  <1>13. UpdateInv'
    <2>1. ASSUME NEW p \in Tasks, NEW k \in DOMAIN todo'[p],
                 todo'[p][k].topic = "CONFIG_UPDATE"
          PROVE  p = "COMMAND" /\ cmd.ok /\ todo'[p][k] = e
      <3>1. CASE p = "COMMAND"
        <4>1. todo'[p] = events
          BY <1>8, <1>9, <3>1 DEF AppInv, TypeOK
        <4> QED
          BY <1>7, <2>1, <3>1, <4>1
      <3>2. CASE p # "COMMAND"
        <4>1. todo'[p] = todo[p]
          BY <1>9, <3>2 DEF AppInv, TypeOK
        <4> QED
          BY <2>1, <3>2, <4>1 DEF AppInv, UpdateInv
      <3> QED
        BY <3>1, <3>2
    <2>2. \A k \in DOMAIN queue'["CONFIG_MANAGER"] : GoodUpdate(queue'["CONFIG_MANAGER"][k])
      BY <1>9 DEF AppInv, UpdateInv
    <2>3. line'.arg = next.arg /\ line'.number = next.number
      BY <1>3
    <2> QED
      BY <1>4, <2>1, <2>2, <2>3 DEF UpdateInv
  <1> QED
    BY <1>7, <1>8, <1>9, <1>10, <1>11, <1>12, <1>13, ProducerKeeps

-----------------------------------------------------------------------------
(***************************************************************************)
(* The subscribers.                                                        *)
(***************************************************************************)

\* WantedInv depends on the updates that wait, the settings and what was asked for.
LEMMA WantedKept ==
  ASSUME AppInv, queue'["CONFIG_MANAGER"] = queue["CONFIG_MANAGER"],
         s_config' = s_config, wanted' = wanted
  PROVE  WantedInv'
  BY DEF AppInv, WantedInv

\* AnnounceInv depends on HealthManager and the fault manager only.
LEMMA AnnounceKept ==
  ASSUME AppInv, todo'["HEALTH_MANAGER"] = todo["HEALTH_MANAGER"],
         health' = health, announced' = announced
  PROVE  AnnounceInv'
  BY DEF AppInv, AnnounceInv

\* What task c takes, and what it leaves.
LEMMA ReceiveFacts ==
  ASSUME AppInv, NEW c \in Consumers, NEW reaction \in Seq(Plain), Receive(c, reaction)
  PROVE  /\ c \in Tasks /\ queue[c] \in Seq(Event) /\ queue[c] # <<>>
         /\ Received(c) \in Event /\ Received(c).topic \in Subscribed[c]
         /\ queue'[c] = Tail(queue[c])
         /\ todo[c] = <<>> /\ todo'[c] = reaction
         /\ \A d \in Consumers \ {c} : queue'[d] = queue[d]
         /\ \A p \in Tasks \ {c} : todo'[p] = todo[p]
  <1>1. /\ c \in Tasks /\ queue[c] \in Seq(Event) /\ queue[c] # <<>>
        /\ todo[c] = <<>>
    BY DEF Tasks, AppInv, TypeOK, Receive
  <1>2. Received(c) = queue[c][1] /\ Received(c) \in Event /\ 1 \in DOMAIN queue[c]
    BY <1>1 DEF Received
  <1>3. queue'[c] = Tail(queue[c]) /\ \A d \in Consumers \ {c} : queue'[d] = queue[d]
    BY DEF AppInv, TypeOK, Receive
  <1>4. todo'[c] = reaction /\ \A p \in Tasks \ {c} : todo'[p] = todo[p]
    BY <1>1 DEF AppInv, TypeOK, Receive
  <1>5. Received(c).topic \in Subscribed[c]
    BY <1>2 DEF AppInv, QueueInv
  <1> QED
    BY <1>1, <1>2, <1>3, <1>4, <1>5

\* Task c takes an event and has its reaction to publish: one answer to a request,
\* none to anything else.
LEMMA ReceiveKeeps ==
  ASSUME AppInv, NEW c \in Consumers, NEW reaction \in Seq(Plain), Receive(c, reaction),
         c \in DOMAIN Request =>
           Count(reaction, Answer[c]) = IF Received(c).topic = Request[c] THEN 1 ELSE 0,
         local' \in Locals, s_config' \in ConfigType, health' \in Health,
         WantedInv', AnnounceInv'
  PROVE  AppInv'
  <1>1. /\ c \in Tasks /\ queue[c] \in Seq(Event) /\ queue[c] # <<>>
        /\ queue'[c] = Tail(queue[c]) /\ todo[c] = <<>> /\ todo'[c] = reaction
        /\ \A d \in Consumers \ {c} : queue'[d] = queue[d]
        /\ \A p \in Tasks \ {c} : todo'[p] = todo[p]
    BY ReceiveFacts
  <1>2. /\ reaction \in Seq(Event) /\ Tail(queue[c]) \in Seq(Event)
        /\ Len(Tail(queue[c])) = Len(queue[c]) - 1 /\ Len(queue[c]) \in Nat
        /\ DOMAIN queue[c] = 1 .. Len(queue[c])
        /\ DOMAIN Tail(queue[c]) = 1 .. Len(queue[c]) - 1
        /\ \A k \in 1 .. Len(queue[c]) - 1 : Tail(queue[c])[k] = queue[c][k + 1]
    BY <1>1, PlainFacts, TailFacts
  <1>3. UNCHANGED <<s_dropCount, line, checking, rounds, history>>
    BY DEF Receive
  <1>4. TypeOK'
    <2>1. queue' \in [Consumers -> Seq(Event)]
      BY <1>1, <1>2 DEF AppInv, TypeOK, Receive
    <2>2. todo' \in [Tasks -> Seq(Event)]
      BY <1>1, <1>2 DEF AppInv, TypeOK, Receive
    <2>3. \A d \in Consumers : Len(queue'[d]) <= QueueLength[d]
      <3> TAKE d \in Consumers
      <3>1. Len(queue[d]) <= QueueLength[d] /\ QueueLength[d] \in Nat
        BY AppAssumption DEF AppInv, TypeOK
      <3>2. CASE d = c
        <4>1. Len(queue'[d]) = Len(queue[d]) - 1 /\ Len(queue[d]) \in Nat
          BY <1>1, <1>2, <3>2
        <4> QED
          BY <3>1, <4>1
      <3>3. CASE d # c
        BY <1>1, <3>1, <3>3
      <3> QED
        BY <3>2, <3>3
    <2> QED
      BY <1>3, <2>1, <2>2, <2>3 DEF AppInv, TypeOK, history
  <1>5. QueueInv'
    <2> SUFFICES ASSUME NEW d \in Consumers, NEW k \in DOMAIN queue'[d]
                 PROVE  queue'[d][k].topic \in Subscribed[d]
      BY DEF QueueInv
    <2>1. CASE d # c
      BY <1>1, <2>1 DEF AppInv, QueueInv
    <2>2. CASE d = c
      <3>1. k \in 1 .. Len(queue[c]) - 1
        BY <1>1, <1>2, <2>2
      <3>2. k + 1 \in DOMAIN queue[c] /\ queue'[c][k] = queue[c][k + 1]
        BY <1>1, <1>2, <3>1
      <3> QED
        BY <2>2, <3>2 DEF AppInv, QueueInv
    <2> QED
      BY <2>1, <2>2
  <1>6. AnswersCounted'
    <2> SUFFICES ASSUME NEW d \in DOMAIN Request
                 PROVE  asked'[d] = answered'[d] + Count(todo'[d], Answer[d])
                                      + Count(queue'[d], Request[d])
      BY DEF AnswersCounted
    <2>1. d \in Consumers /\ d \in Tasks
      BY RequestFacts
    <2>2. asked[d] = answered[d] + Count(todo[d], Answer[d]) + Count(queue[d], Request[d])
      BY DEF AppInv, AnswersCounted
    <2>3. asked' = asked /\ answered' = answered
      BY <1>3 DEF history
    <2>4. CASE d # c
      BY <1>1, <2>1, <2>2, <2>3, <2>4
    <2>5. CASE d = c
      <3>1. Count(todo[c], Answer[c]) = 0
        BY <1>1, CountType DEF AppInv, TypeOK
      <3>2. Count(queue[c], Request[c]) =
              Count(queue'[c], Request[c]) + IF Received(c).topic = Request[c] THEN 1 ELSE 0
        BY <1>1, CountTail DEF Received
      <3>3. Count(queue'[c], Request[c]) \in Nat /\ answered[c] \in Nat
        BY <1>1, <1>2, CountType DEF AppInv, TypeOK
      <3>4. Count(reaction, Answer[c]) = IF Received(c).topic = Request[c] THEN 1 ELSE 0
        BY <2>5
      <3> QED
        BY <1>1, <2>2, <2>3, <2>5, <3>1, <3>2, <3>3, <3>4
    <2> QED
      BY <2>4, <2>5
  <1>7. UpdateInv'
    <2>1. ASSUME NEW k \in DOMAIN queue'["CONFIG_MANAGER"]
          PROVE  GoodUpdate(queue'["CONFIG_MANAGER"][k])
      <3>1. CASE c # "CONFIG_MANAGER"
        BY <1>1, <2>1, <3>1, RequestFacts DEF AppInv, UpdateInv
      <3>2. CASE c = "CONFIG_MANAGER"
        <4>1. k \in 1 .. Len(queue[c]) - 1
          BY <1>1, <1>2, <2>1, <3>2
        <4>2. k + 1 \in DOMAIN queue[c] /\ queue'[c][k] = queue[c][k + 1]
          BY <1>1, <1>2, <4>1
        <4> QED
          BY <3>2, <4>2 DEF AppInv, UpdateInv
      <3> QED
        BY <3>1, <3>2
    <2>2. todo' = [todo EXCEPT ![c] = reaction] /\ line' = line
      BY DEF Receive
    <2> QED
      BY <1>1, <2>1, <2>2, PlainKeepsUpdates
  <1> QED
    BY <1>4, <1>5, <1>6, <1>7 DEF AppInv

\* What Storage does with an event keeps the invariant.
LEMMA StorageKeeps == AppInv /\ Storage_Store => AppInv'
  <1> SUFFICES ASSUME AppInv, Storage_Store PROVE AppInv'
    OBVIOUS
  <1> DEFINE count == (local.storedCount + 1) % 5
             reaction == If(count = 0, <<Evt("STORAGE_LOG", 0, 0)>>)
  <1>1. /\ Receive("STORAGE", reaction)
        /\ local' = [local EXCEPT !.storedCount = count]
        /\ s_config' = s_config /\ health' = health
    BY DEF Storage_Store
  <1>2. reaction \in Seq(Plain)
    BY PlainEvents, PlainFacts DEF If
  <1>3. local' \in Locals
    <2>1. local \in Locals /\ local.storedCount \in 0 .. 4
      BY DEF AppInv, TypeOK, Locals
    <2>2. count \in 0 .. 4
      BY <2>1
    <2> HIDE DEF count
    <2> QED
      BY <1>1, <2>1, <2>2 DEF Locals
  <1> HIDE DEF reaction, count
  <1>4. "STORAGE" \in Consumers /\ "STORAGE" \notin DOMAIN Request
    BY RequestFacts DEF Consumers
  <1>5. /\ queue'["CONFIG_MANAGER"] = queue["CONFIG_MANAGER"]
        /\ todo'["HEALTH_MANAGER"] = todo["HEALTH_MANAGER"]
    BY <1>1, <1>2, <1>4, ReceiveFacts DEF Consumers, Tasks
  <1>6. wanted' = wanted /\ announced' = announced
    BY <1>1 DEF Receive, history
  <1>7. WantedInv' /\ AnnounceInv'
    BY <1>1, <1>5, <1>6, WantedKept, AnnounceKept
  <1>8. s_config' \in ConfigType /\ health' \in Health
    BY <1>1 DEF AppInv, TypeOK
  <1> QED
    BY <1>1, <1>2, <1>3, <1>4, <1>7, <1>8, ReceiveKeeps

\* So does what Logger does.
LEMMA LoggerKeeps == AppInv /\ Logger_Log => AppInv'
  <1> SUFFICES ASSUME AppInv, Logger_Log PROVE AppInv'
    OBVIOUS
  <1>1. /\ Receive("LOGGER", <<>>)
        /\ s_config' = s_config /\ local' = local /\ health' = health
    BY DEF Logger_Log
  <1>2. <<>> \in Seq(Plain)
    BY PlainFacts
  <1>3. "LOGGER" \in Consumers /\ "LOGGER" \notin DOMAIN Request
    BY RequestFacts DEF Consumers
  <1>4. /\ queue'["CONFIG_MANAGER"] = queue["CONFIG_MANAGER"]
        /\ todo'["HEALTH_MANAGER"] = todo["HEALTH_MANAGER"]
    BY <1>1, <1>2, <1>3, ReceiveFacts DEF Consumers, Tasks
  <1>5. wanted' = wanted /\ announced' = announced
    BY <1>1 DEF Receive, history
  <1>6. WantedInv' /\ AnnounceInv'
    BY <1>1, <1>4, <1>5, WantedKept, AnnounceKept
  <1>7. local' \in Locals /\ s_config' \in ConfigType /\ health' \in Health
    BY <1>1 DEF AppInv, TypeOK
  <1> QED
    BY <1>1, <1>2, <1>3, <1>6, <1>7, ReceiveKeeps

\* So does what Cloud does: a command that it takes becomes an answer.
LEMMA CloudKeeps == AppInv /\ Cloud_Upload => AppInv'
  <1> SUFFICES ASSUME AppInv, Cloud_Upload PROVE AppInv'
    OBVIOUS
  <1> DEFINE e == Received("CLOUD")
             reaction == Cloud_Reaction(e)
  <1>1. /\ Receive("CLOUD", reaction) /\ queue["CLOUD"] # <<>>
        /\ s_config' = s_config /\ local' = local /\ health' = health
    BY DEF Cloud_Upload
  <1>2. "CLOUD" \in Consumers /\ "CLOUD" \in DOMAIN Request
    BY RequestFacts
  <1>3. e \in Event
    BY <1>1, <1>2 DEF Received, AppInv, TypeOK
  <1> HIDE DEF e
  <1> DEFINE answer == Evt("ACTUATOR_STATUS", e.code, 1)
  <1>4. answer \in Plain /\ answer \in Event /\ answer.topic = "ACTUATOR_STATUS"
    <2>1. e.code \in 0 .. 255
      BY <1>3 DEF Event
    <2>2. answer \in Plain /\ answer.topic = "ACTUATOR_STATUS"
      BY <2>1, PlainEvents DEF Evt
    <2> QED
      BY <2>2 DEF Plain
  <1>5. reaction = IF e.topic = "ACTUATOR_COMMAND" THEN <<answer>> ELSE <<>>
    BY DEF Cloud_Reaction, If
  <1> HIDE DEF answer, reaction
  <1>6. reaction \in Seq(Plain)
    BY <1>4, <1>5, PlainFacts
  <1>7. Count(reaction, "ACTUATOR_STATUS") = IF e.topic = "ACTUATOR_COMMAND" THEN 1 ELSE 0
    <2>1. Count(<<answer>>, "ACTUATOR_STATUS") = 1
      BY <1>4, CountOne
    <2>2. <<>> \in Seq(Event)
      OBVIOUS
    <2>3. Count(<<>>, "ACTUATOR_STATUS") = 0
      BY <2>2, CountType
    <2> QED
      BY <1>5, <2>1, <2>3
  <1>8. /\ queue'["CONFIG_MANAGER"] = queue["CONFIG_MANAGER"]
        /\ todo'["HEALTH_MANAGER"] = todo["HEALTH_MANAGER"]
    BY <1>1, <1>2, <1>6, ReceiveFacts DEF Consumers, Tasks
  <1>9. wanted' = wanted /\ announced' = announced
    BY <1>1 DEF Receive, history
  <1>10. WantedInv' /\ AnnounceInv'
    BY <1>1, <1>8, <1>9, WantedKept, AnnounceKept
  <1>11. local' \in Locals /\ s_config' \in ConfigType /\ health' \in Health
    BY <1>1 DEF AppInv, TypeOK
  <1>12. Count(reaction, Answer["CLOUD"]) =
           IF Received("CLOUD").topic = Request["CLOUD"] THEN 1 ELSE 0
    BY <1>7, RequestFacts DEF e
  <1> QED
    BY <1>1, <1>2, <1>6, <1>10, <1>11, <1>12, ReceiveKeeps

\* So does what HealthManager does: a signal is suppressed, and then the state is as
\* before, or accepted, and then the new state is announced next.
LEMMA HealthKeeps == AppInv /\ Health_Handle => AppInv'
  <1> SUFFICES ASSUME AppInv, Health_Handle PROVE AppInv'
    OBVIOUS
  <1> DEFINE e == Received("HEALTH_MANAGER")
             state == stateForSeverity(classifyFault(e))
             status == Evt("DEVICE_STATUS", StateCode[state], e.code)
  <1>1. "HEALTH_MANAGER" \in Consumers /\ "HEALTH_MANAGER" \notin DOMAIN Request
          /\ "HEALTH_MANAGER" \in Tasks
    BY RequestFacts DEF Consumers, Tasks
  <1>2. /\ queue["HEALTH_MANAGER"] # <<>>
        /\ s_config' = s_config /\ local' = local
        /\ \/ Suppressed(e) /\ health' = health /\ Receive("HEALTH_MANAGER", <<>>)
           \/ /\ health' = [state |-> state, topic |-> e.topic, code |-> e.code]
              /\ Receive("HEALTH_MANAGER", <<status>>)
    BY DEF Health_Handle
  <1>3. e \in Event
    BY <1>1, <1>2 DEF Received, AppInv, TypeOK
  <1>4. state \in DeviceStates /\ StateCode[state] \in 0 .. 255
    BY RuleTypes
  <1> HIDE DEF e
  <1>5. /\ status \in Plain /\ status.topic = "DEVICE_STATUS"
        /\ status.code = StateCode[state]
    <2>1. e.code \in Nat
      BY <1>3 DEF Event
    <2> HIDE DEF state
    <2>2. status \in Plain
      BY <1>4, <2>1, PlainEvents
    <2> QED
      BY <2>2 DEF Evt
  <1>6. local' \in Locals /\ s_config' \in ConfigType
    BY <1>2 DEF AppInv, TypeOK
  <1>7. ASSUME NEW reaction \in Seq(Plain), Receive("HEALTH_MANAGER", reaction)
        PROVE  /\ WantedInv' /\ announced' = announced
               /\ todo["HEALTH_MANAGER"] = <<>> /\ todo'["HEALTH_MANAGER"] = reaction
    <2>1. /\ queue'["CONFIG_MANAGER"] = queue["CONFIG_MANAGER"]
          /\ todo["HEALTH_MANAGER"] = <<>> /\ todo'["HEALTH_MANAGER"] = reaction
      BY <1>1, <1>7, ReceiveFacts DEF Consumers
    <2>2. wanted' = wanted /\ announced' = announced
      BY <1>7 DEF Receive, history
    <2> QED
      BY <1>2, <2>1, <2>2, WantedKept
  <1>8. CASE health' = health /\ Receive("HEALTH_MANAGER", <<>>)
    <2>1. <<>> \in Seq(Plain)
      BY PlainFacts
    <2>2. WantedInv' /\ AnnounceInv'
      BY <1>7, <1>8, <2>1, AnnounceKept
    <2>3. health' \in Health
      BY <1>8 DEF AppInv, TypeOK
    <2> QED
      BY <1>1, <1>6, <1>8, <2>1, <2>2, <2>3, ReceiveKeeps
  <1>9. CASE /\ health' = [state |-> state, topic |-> e.topic, code |-> e.code]
             /\ Receive("HEALTH_MANAGER", <<status>>)
    <2>1. <<status>> \in Seq(Plain)
      BY <1>5, PlainFacts
    <2>2. /\ health' \in Health
          /\ health'.state = state /\ health'.topic = e.topic /\ health'.code = e.code
      <3> HIDE DEF state
      <3> QED
        BY <1>3, <1>4, <1>9 DEF Health, Event
    <2>3. classifyFault(health') = classifyFault(e)
      BY <2>2 DEF classifyFault
    <2> HIDE DEF status
    <2>4. Len(<<status>>) = 1 /\ <<status>>[1] = status
      OBVIOUS
    <2>5. AnnounceInv'
      BY <1>5, <1>7, <1>9, <2>1, <2>2, <2>3, <2>4 DEF AnnounceInv
    <2>6. WantedInv'
      BY <1>7, <1>9, <2>1
    <2> QED
      BY <1>1, <1>6, <1>9, <2>1, <2>2, <2>5, <2>6, ReceiveKeeps
  <1> QED
    BY <1>2, <1>8, <1>9

\* The update that ConfigManager takes is applied: what then waits for a setting, or
\* the setting itself, is as wanted.
LEMMA ApplyKeepsWanted ==
  ASSUME AppInv, queue["CONFIG_MANAGER"] # <<>>,
         queue'["CONFIG_MANAGER"] = Tail(queue["CONFIG_MANAGER"]), wanted' = wanted,
         s_config' = SetField(s_config, KeyName(Received("CONFIG_MANAGER").code),
                              Received("CONFIG_MANAGER").value)
  PROVE  WantedInv'
  <1> DEFINE q == queue["CONFIG_MANAGER"]
             r == queue'["CONFIG_MANAGER"]
             e == Received("CONFIG_MANAGER")
             L == Len(q)
  <1>1. q \in Seq(Event) /\ s_config \in ConfigType
    BY RequestFacts DEF AppInv, TypeOK
  <1>2. /\ e = q[1] /\ L \in Nat \ {0} /\ DOMAIN q = 1 .. L /\ DOMAIN r = 1 .. L - 1
        /\ \A k \in 1 .. L - 1 : r[k] = q[k + 1]
    BY <1>1, TailFacts DEF Received
  <1>3. GoodUpdate(e)
    BY <1>2 DEF AppInv, UpdateInv
  <1>4. \A n \in DOMAIN CONFIG_KEY :
          TextSettings(s_config')[n] =
            IF CONFIG_KEY[n] = e.code THEN e.value ELSE TextSettings(s_config)[n]
    BY <1>1, <1>3, SetFieldFacts DEF GoodUpdate
  <1> HIDE DEF q, r, e, L
  <1> SUFFICES ASSUME NEW n \in DOMAIN CONFIG_KEY
               PROVE  \/ Updates(r, n) = {} /\ TextSettings(s_config')[n] = wanted[n]
                      \/ \E k \in Updates(r, n) : /\ r[k].value = wanted[n]
                                                  /\ \A j \in Updates(r, n) : j <= k
    BY DEF WantedInv, r
  <1>5. \/ Updates(q, n) = {} /\ TextSettings(s_config)[n] = wanted[n]
        \/ \E k \in Updates(q, n) : q[k].value = wanted[n] /\ \A j \in Updates(q, n) : j <= k
    BY DEF AppInv, WantedInv, q
  <1>6. \A k \in Updates(r, n) : k \in 1 .. L - 1 /\ k + 1 \in Updates(q, n)
    BY <1>2 DEF Updates
  <1>7. CASE Updates(q, n) = {} /\ TextSettings(s_config)[n] = wanted[n]
    <2>1. Updates(r, n) = {}
      BY <1>6, <1>7
    <2>2. CONFIG_KEY[n] # e.code
      BY <1>2, <1>7 DEF Updates
    <2> QED
      BY <1>4, <1>7, <2>1, <2>2
  <1>8. ASSUME NEW k \in Updates(q, n), q[k].value = wanted[n],
               \A j \in Updates(q, n) : j <= k
        PROVE  \/ Updates(r, n) = {} /\ TextSettings(s_config')[n] = wanted[n]
               \/ \E i \in Updates(r, n) : /\ r[i].value = wanted[n]
                                           /\ \A j \in Updates(r, n) : j <= i
    <2>1. k \in 1 .. L /\ q[k].code = CONFIG_KEY[n]
      BY <1>2 DEF Updates
    <2>2. CASE k = 1
      <3>1. Updates(r, n) = {}
        <4> SUFFICES ASSUME NEW j \in Updates(r, n) PROVE FALSE
          OBVIOUS
        <4>1. j \in 1 .. L - 1 /\ j + 1 <= k
          BY <1>6, <1>8
        <4> QED
          BY <1>2, <2>2, <4>1
      <3>2. TextSettings(s_config')[n] = wanted[n]
        BY <1>2, <1>4, <1>8, <2>1, <2>2
      <3> QED
        BY <3>1, <3>2
    <2>3. CASE k # 1
      <3>1. k - 1 \in 1 .. L - 1 /\ (k - 1) + 1 = k
        BY <1>2, <2>1, <2>3
      <3>2. r[k - 1] = q[k]
        BY <1>2, <3>1
      <3>3. k - 1 \in Updates(r, n) /\ r[k - 1].value = wanted[n]
        BY <1>2, <1>8, <2>1, <3>1, <3>2 DEF Updates
      <3>4. \A j \in Updates(r, n) : j <= k - 1
        BY <1>2, <1>6, <1>8, <2>1
      <3> QED
        BY <3>3, <3>4
    <2> QED
      BY <2>2, <2>3
  <1> QED
    BY <1>5, <1>7, <1>8

\* So does what ConfigManager does: the update that it takes becomes the setting, and
\* an answer, whether or not the save succeeds.
LEMMA ConfigKeeps == AppInv /\ Config_Apply => AppInv'
  <1> SUFFICES ASSUME AppInv, Config_Apply PROVE AppInv'
    OBVIOUS
  <1> DEFINE e == Received("CONFIG_MANAGER")
             u == Unpacked(e)
             d == SetField(s_config, KeyName(e.code), e.value)
  <1>1. /\ "CONFIG_MANAGER" \in Consumers /\ "CONFIG_MANAGER" \in DOMAIN Request
        /\ queue["CONFIG_MANAGER"] # <<>>
    BY RequestFacts DEF Config_Apply
  <1>2. e \in Event /\ e = queue["CONFIG_MANAGER"][1] /\ 1 \in DOMAIN queue["CONFIG_MANAGER"]
    BY <1>1, TailFacts DEF Received, AppInv, TypeOK
  <1>3. GoodUpdate(e) /\ e.topic = "CONFIG_UPDATE"
    <2>1. GoodUpdate(e) /\ e.topic \in Subscribed["CONFIG_MANAGER"]
      BY <1>1, <1>2 DEF AppInv, UpdateInv, QueueInv
    <2> QED
      BY <2>1 DEF Subscribed
  <1>4. /\ u.key = KeyName(e.code) /\ Argument(u) = e.value
        /\ Argument(u) \in ValidRange(u.key) /\ e.code \in 1 .. 4
    BY <1>3 DEF GoodUpdate, Unpacked
  <1>5. PICK saved \in BOOLEAN : /\ s_config' = AfterSetter(u, saved)
                                 /\ Receive("CONFIG_MANAGER", Config_Status(saved, s_config'))
    BY <1>4 DEF Config_Apply
  <1>6. s_config' = d
    BY <1>4, <1>5 DEF AfterSetter
  <1> HIDE DEF e
  <1>7. d \in ConfigType
    BY <1>3, SetFieldFacts DEF GoodUpdate, AppInv, TypeOK
  <1> HIDE DEF d, u
  <1> DEFINE status == Evt("DEVICE_STATUS", IF saved THEN 1 ELSE 2, d.tempThreshold)
  <1>8. status \in Plain /\ status \in Event /\ status.topic = "DEVICE_STATUS"
    <2>1. d.tempThreshold \in Nat
      BY <1>7 DEF ConfigType
    <2>2. (IF saved THEN 1 ELSE 2) \in 0 .. 255
      OBVIOUS
    <2>3. status \in Plain
      BY <2>1, <2>2, PlainEvents
    <2> QED
      BY <2>3 DEF Plain, Evt
  <1>9. Receive("CONFIG_MANAGER", <<status>>)
    BY <1>5, <1>6 DEF Config_Status
  <1>10. local' = local /\ health' = health
    BY DEF Config_Apply
  <1> HIDE DEF status
  <1>11. <<status>> \in Seq(Plain)
    BY <1>8, PlainFacts
  <1>12. /\ queue'["CONFIG_MANAGER"] = Tail(queue["CONFIG_MANAGER"])
         /\ todo'["HEALTH_MANAGER"] = todo["HEALTH_MANAGER"]
    BY <1>1, <1>9, <1>11, ReceiveFacts DEF Tasks, Consumers
  <1>13. wanted' = wanted /\ announced' = announced
    BY <1>9 DEF Receive, history
  <1>14. WantedInv'
    BY <1>1, <1>6, <1>12, <1>13, ApplyKeepsWanted DEF d, e
  <1>15. AnnounceInv'
    BY <1>10, <1>12, <1>13, AnnounceKept
  <1>16. Count(<<status>>, Answer["CONFIG_MANAGER"]) =
           IF Received("CONFIG_MANAGER").topic = Request["CONFIG_MANAGER"] THEN 1 ELSE 0
    <2>1. Count(<<status>>, "DEVICE_STATUS") = 1
      BY <1>8, CountOne
    <2> QED
      BY <1>3, <2>1, RequestFacts DEF e
  <1>17. local' \in Locals /\ s_config' \in ConfigType /\ health' \in Health
    BY <1>6, <1>7, <1>10 DEF AppInv, TypeOK
  <1> QED
    BY <1>1, <1>9, <1>11, <1>14, <1>15, <1>16, <1>17, ReceiveKeeps

-----------------------------------------------------------------------------
(***************************************************************************)
(* The publications.                                                       *)
(***************************************************************************)

\* What a publication of e does to the queues and to the task's list.
LEMMA PublishFacts ==
  ASSUME AppInv, NEW p \in Tasks, Publish(p)
  PROVE  LET e == Head(todo[p]) IN
         /\ e \in Event /\ e = todo[p][1] /\ todo[p] # <<>> /\ todo[p] \in Seq(Event)
         /\ 1 \in DOMAIN todo[p]
         /\ todo'[p] = Tail(todo[p]) /\ todo' \in [Tasks -> Seq(Event)]
         /\ \A r \in Tasks \ {p} : todo'[r] = todo[r]
         /\ \A c \in Consumers :
              /\ queue[c] \in Seq(Event)
              /\ queue'[c] = IF c \in Subscribers[e.topic] /\ HasRoom(c)
                             THEN Append(queue[c], e) ELSE queue[c]
  <1>1. todo[p] # <<>> /\ todo[p] \in Seq(Event)
    BY DEF Publish, AppInv, TypeOK
  <1>2. /\ Head(todo[p]) \in Event /\ Head(todo[p]) = todo[p][1] /\ 1 \in DOMAIN todo[p]
        /\ Tail(todo[p]) \in Seq(Event)
    BY <1>1, TailFacts
  <1>3. todo' = [todo EXCEPT ![p] = Tail(@)]
    BY DEF Publish
  <1>4. /\ todo'[p] = Tail(todo[p]) /\ todo' \in [Tasks -> Seq(Event)]
        /\ \A r \in Tasks \ {p} : todo'[r] = todo[r]
    BY <1>2, <1>3 DEF AppInv, TypeOK
  <1>5. \A c \in Consumers :
              /\ queue[c] \in Seq(Event)
              /\ queue'[c] = IF c \in Subscribers[Head(todo[p]).topic] /\ HasRoom(c)
                             THEN Append(queue[c], Head(todo[p])) ELSE queue[c]
    BY DEF Publish, FanOut, AppInv, TypeOK
  <1> QED
    BY <1>1, <1>2, <1>4, <1>5

\* A publication keeps the types.
LEMMA PublishKeepsType ==
  ASSUME AppInv, NEW p \in Tasks, Publish(p)
  PROVE  TypeOK'
  <1> DEFINE e == Head(todo[p])
  <1>1. /\ e \in Event /\ e = todo[p][1] /\ 1 \in DOMAIN todo[p]
        /\ todo' \in [Tasks -> Seq(Event)]
        /\ \A c \in Consumers :
             /\ queue[c] \in Seq(Event)
             /\ queue'[c] = IF c \in Subscribers[e.topic] /\ HasRoom(c)
                            THEN Append(queue[c], e) ELSE queue[c]
    BY PublishFacts
  <1>2. FanOut(e) /\ RecordPublication(p, e)
          /\ UNCHANGED <<s_config, local, line, checking, health, rounds>>
    BY DEF Publish
  <1> HIDE DEF e
  <1>3. ASSUME NEW c \in Consumers
        PROVE  queue'[c] \in Seq(Event) /\ Len(queue'[c]) <= QueueLength[c]
    <2>1. /\ queue[c] \in Seq(Event) /\ Len(queue[c]) <= QueueLength[c]
          /\ QueueLength[c] \in Nat
      BY AppAssumption DEF AppInv, TypeOK
    <2>2. CASE c \in Subscribers[e.topic] /\ HasRoom(c)
      <3>1. queue'[c] = Append(queue[c], e) /\ Len(queue[c]) < QueueLength[c]
        BY <1>1, <2>2 DEF HasRoom
      <3>2. /\ Append(queue[c], e) \in Seq(Event)
            /\ Len(Append(queue[c], e)) = Len(queue[c]) + 1 /\ Len(queue[c]) \in Nat
        BY <1>1, <2>1
      <3> QED
        BY <2>1, <3>1, <3>2
    <2>3. CASE ~(c \in Subscribers[e.topic] /\ HasRoom(c))
      BY <1>1, <2>1, <2>3
    <2> QED
      BY <2>2, <2>3
  <1>4. queue' \in [Consumers -> Seq(Event)]
    BY <1>2, <1>3 DEF FanOut
  <1>5. s_dropCount' \in Nat
    <2>1. e.topic \in Topics
      BY <1>1 DEF Event
    <2>2. Cardinality({c \in Subscribers[e.topic] : ~HasRoom(c)}) \in Nat
      BY <2>1, LostType
    <2> QED
      BY <1>2, <2>2 DEF FanOut, AppInv, TypeOK
  <1>6. asked' \in [Consumers -> Nat] /\ answered' \in [Consumers -> Nat]
    <2>1. \A c \in Consumers : asked[c] \in Nat /\ answered[c] \in Nat
      BY DEF AppInv, TypeOK
    <2>2. \A c \in Consumers : asked[c] + 1 \in Nat /\ answered[c] + 1 \in Nat
      BY <2>1
    <2> QED
      BY <1>2, <2>1, <2>2 DEF RecordPublication
  <1>7. wanted' \in [DOMAIN CONFIG_KEY -> Nat]
    <2>1. ASSUME e.topic = "CONFIG_UPDATE"
          PROVE  line.arg \in DOMAIN CONFIG_KEY /\ line.number \in Nat
      <3>1. line.arg \in DOMAIN CONFIG_KEY /\ e.value = line.number
        BY <1>1, <2>1 DEF AppInv, UpdateInv
      <3>2. e.value \in Nat
        BY <1>1 DEF Event
      <3> QED
        BY <3>1, <3>2
    <2>2. CASE e.topic = "CONFIG_UPDATE" /\ HasRoom("CONFIG_MANAGER")
      <3>1. wanted' = [wanted EXCEPT ![line.arg] = line.number]
        BY <1>2, <2>2 DEF RecordPublication
      <3> QED
        BY <2>1, <2>2, <3>1 DEF AppInv, TypeOK
    <2>3. CASE ~(e.topic = "CONFIG_UPDATE" /\ HasRoom("CONFIG_MANAGER"))
      BY <1>2, <2>3 DEF RecordPublication, AppInv, TypeOK
    <2> QED
      BY <2>2, <2>3
  <1>8. announced' \in 0 .. 255
    BY <1>1, <1>2 DEF RecordPublication, Event, AppInv, TypeOK
  <1> QED
    BY <1>1, <1>2, <1>3, <1>4, <1>5, <1>6, <1>7, <1>8 DEF AppInv, TypeOK

\* It reaches only queues whose tasks have subscribed to its topic.
LEMMA PublishKeepsQueues ==
  ASSUME AppInv, NEW p \in Tasks, Publish(p)
  PROVE  QueueInv'
  <1> DEFINE e == Head(todo[p])
  <1>1. /\ e \in Event
        /\ \A c \in Consumers :
             /\ queue[c] \in Seq(Event)
             /\ queue'[c] = IF c \in Subscribers[e.topic] /\ HasRoom(c)
                            THEN Append(queue[c], e) ELSE queue[c]
    BY PublishFacts
  <1> HIDE DEF e
  <1> SUFFICES ASSUME NEW c \in Consumers, NEW k \in DOMAIN queue'[c]
               PROVE  queue'[c][k].topic \in Subscribed[c]
    BY DEF QueueInv
  <1>2. CASE c \in Subscribers[e.topic] /\ HasRoom(c)
    <2>1. e.topic \in Subscribed[c]
      BY <1>1, <1>2 DEF Subscribers, Event
    <2>2. queue'[c] = Append(queue[c], e) /\ queue[c] \in Seq(Event)
      BY <1>1, <1>2
    <2>3. \/ k \in DOMAIN queue[c] /\ queue'[c][k] = queue[c][k]
          \/ queue'[c][k] = e
      BY <1>1, <2>2
    <2> QED
      BY <2>1, <2>3 DEF AppInv, QueueInv
  <1>3. CASE ~(c \in Subscribers[e.topic] /\ HasRoom(c))
    BY <1>1, <1>3 DEF AppInv, QueueInv
  <1> QED
    BY <1>2, <1>3

\* A request that finds room is counted as asked and is in the queue; an answer that
\* leaves the list is counted as given.
LEMMA PublishKeepsAnswers ==
  ASSUME AppInv, NEW p \in Tasks, Publish(p)
  PROVE  AnswersCounted'
  <1> DEFINE e == Head(todo[p])
  <1>1. /\ e \in Event /\ todo[p] # <<>> /\ todo[p] \in Seq(Event)
        /\ todo'[p] = Tail(todo[p]) /\ \A r \in Tasks \ {p} : todo'[r] = todo[r]
        /\ \A c \in Consumers :
             /\ queue[c] \in Seq(Event)
             /\ queue'[c] = IF c \in Subscribers[e.topic] /\ HasRoom(c)
                            THEN Append(queue[c], e) ELSE queue[c]
    BY PublishFacts
  <1>2. RecordPublication(p, e)
    BY DEF Publish
  <1> SUFFICES ASSUME NEW c \in DOMAIN Request
               PROVE  asked'[c] = answered'[c] + Count(todo'[c], Answer[c])
                                    + Count(queue'[c], Request[c])
    BY DEF AnswersCounted
  <1> DEFINE given == IF c = p /\ e.topic = Answer[c] THEN 1 ELSE 0
             taken == IF e.topic = Request[c] /\ HasRoom(c) THEN 1 ELSE 0
  <1>3. Count(todo[c], Answer[c]) = Count(todo'[c], Answer[c]) + given
    <2>1. CASE c = p
      BY <1>1, <2>1, CountTail
    <2>2. CASE c # p
      <3>1. todo'[c] = todo[c] /\ todo[c] \in Seq(Event)
        BY <1>1, <2>2, RequestFacts DEF AppInv, TypeOK
      <3>2. Count(todo[c], Answer[c]) \in Nat
        BY <3>1, CountType
      <3> QED
        BY <2>2, <3>1, <3>2
    <2> QED
      BY <2>1, <2>2
  <1> HIDE DEF e
  <1>4. c \in Consumers /\ c \in Subscribers[Request[c]] /\ c \in DOMAIN Answer
    BY RequestFacts
  <1>5. Count(queue'[c], Request[c]) = Count(queue[c], Request[c]) + taken
    <2>1. queue[c] \in Seq(Event) /\ Count(queue[c], Request[c]) \in Nat
      BY <1>1, <1>4, CountType
    <2>2. CASE c \in Subscribers[e.topic] /\ HasRoom(c)
      <3>1. queue'[c] = Append(queue[c], e)
        BY <1>1, <1>4, <2>2
      <3>2. Count(queue'[c], Request[c]) =
              Count(queue[c], Request[c]) + IF e.topic = Request[c] THEN 1 ELSE 0
        BY <1>1, <2>1, <3>1, CountAppend
      <3> QED
        BY <2>2, <3>2
    <2>3. CASE ~(c \in Subscribers[e.topic] /\ HasRoom(c))
      <3>1. queue'[c] = queue[c] /\ ~(e.topic = Request[c] /\ HasRoom(c))
        BY <1>1, <1>4, <2>3
      <3> QED
        BY <2>1, <3>1
    <2> QED
      BY <2>2, <2>3
  <1>6. asked'[c] = asked[c] + taken /\ answered'[c] = answered[c] + given
    <2>1. asked[c] \in Nat /\ answered[c] \in Nat
      BY <1>4 DEF AppInv, TypeOK
    <2>2. asked'[c] = IF IsRequest(c, e) /\ HasRoom(c) THEN asked[c] + 1 ELSE asked[c]
      BY <1>2, <1>4 DEF RecordPublication
    <2>3. answered'[c] = IF c = p /\ IsAnswer(c, e) THEN answered[c] + 1 ELSE answered[c]
      BY <1>2, <1>4 DEF RecordPublication
    <2>4. IsRequest(c, e) <=> e.topic = Request[c]
      BY DEF IsRequest
    <2>5. IsAnswer(c, e) <=> e.topic = Answer[c]
      BY <1>4 DEF IsAnswer
    <2> QED
      BY <2>1, <2>2, <2>3, <2>4, <2>5
  <1>7. /\ given \in Nat /\ taken \in Nat
    OBVIOUS
  <1>8. asked[c] = answered[c] + Count(todo[c], Answer[c]) + Count(queue[c], Request[c])
    BY DEF AppInv, AnswersCounted
  <1>9. /\ Count(todo'[c], Answer[c]) \in Nat /\ Count(queue[c], Request[c]) \in Nat
        /\ answered[c] \in Nat
    <2>1. c \in Tasks /\ todo' \in [Tasks -> Seq(Event)]
      BY PublishFacts, RequestFacts
    <2>2. todo'[c] \in Seq(Event) /\ queue[c] \in Seq(Event)
      BY <1>1, <1>4, <2>1
    <2> QED
      BY <1>4, <2>2, CountType DEF AppInv, TypeOK
  <1> HIDE DEF given, taken
  <1> QED
    BY <1>3, <1>5, <1>6, <1>7, <1>8, <1>9

\* An update that finds room is the last one waiting for its setting, and what is
\* now wanted.
LEMMA PublishKeepsUpdates ==
  ASSUME AppInv, NEW p \in Tasks, Publish(p)
  PROVE  UpdateInv' /\ WantedInv'
  <1> DEFINE e == Head(todo[p])
             q == queue["CONFIG_MANAGER"]
             r == queue'["CONFIG_MANAGER"]
             L == Len(q)
  <1>1. /\ e \in Event /\ e = todo[p][1] /\ 1 \in DOMAIN todo[p]
        /\ todo[p] # <<>> /\ todo[p] \in Seq(Event)
        /\ todo'[p] = Tail(todo[p]) /\ \A t \in Tasks \ {p} : todo'[t] = todo[t]
        /\ q \in Seq(Event)
        /\ r = IF "CONFIG_MANAGER" \in Subscribers[e.topic] /\ HasRoom("CONFIG_MANAGER")
               THEN Append(q, e) ELSE q
    BY PublishFacts, RequestFacts
  <1>2. RecordPublication(p, e) /\ line' = line /\ s_config' = s_config
    BY DEF Publish
  <1> HIDE DEF e, q, r
  <1>3. "CONFIG_MANAGER" \in Subscribers[e.topic] <=> e.topic = "CONFIG_UPDATE"
    BY <1>1, RequestFacts DEF Event
  <1>4. ASSUME NEW t \in Tasks, NEW k \in DOMAIN todo'[t],
               todo'[t][k].topic = "CONFIG_UPDATE"
        PROVE  /\ t = "COMMAND" /\ GoodUpdate(todo'[t][k])
               /\ line.arg \in DOMAIN CONFIG_KEY
               /\ todo'[t][k].code = CONFIG_KEY[line.arg] /\ todo'[t][k].value = line.number
    <2>1. \E j \in DOMAIN todo[t] : todo'[t][k] = todo[t][j]
      <3>1. CASE t = p
        <4>1. /\ Len(todo[p]) \in Nat /\ DOMAIN todo[p] = 1 .. Len(todo[p])
              /\ DOMAIN Tail(todo[p]) = 1 .. Len(todo[p]) - 1
              /\ \A j \in 1 .. Len(todo[p]) - 1 : Tail(todo[p])[j] = todo[p][j + 1]
          BY <1>1, TailFacts
        <4>2. todo'[t] = Tail(todo[p])
          BY <1>1, <3>1
        <4>3. k \in 1 .. Len(todo[p]) - 1 /\ todo'[t][k] = todo[p][k + 1]
          BY <4>1, <4>2
        <4>4. k + 1 \in DOMAIN todo[p]
          BY <4>1, <4>3
        <4> QED
          BY <3>1, <4>3, <4>4
      <3>2. CASE t # p
        BY <1>1, <3>2
      <3> QED
        BY <3>1, <3>2
    <2> QED
      BY <1>4, <2>1 DEF AppInv, UpdateInv
  <1>5. CASE e.topic = "CONFIG_UPDATE" /\ HasRoom("CONFIG_MANAGER")
    <2>1. /\ GoodUpdate(e) /\ line.arg \in DOMAIN CONFIG_KEY
          /\ e.code = CONFIG_KEY[line.arg] /\ e.value = line.number
      BY <1>1, <1>5 DEF AppInv, UpdateInv
    <2>2. r = Append(q, e)
      BY <1>1, <1>3, <1>5
    <2>3. /\ L \in Nat /\ DOMAIN q = 1 .. L /\ DOMAIN r = 1 .. L + 1
          /\ r[L + 1] = e /\ \A k \in 1 .. L : r[k] = q[k]
      BY <1>1, <2>2
    <2> HIDE DEF L
    <2>4. \A k \in DOMAIN r : GoodUpdate(r[k])
      <3> TAKE k \in DOMAIN r
      <3>1. \/ k = L + 1
            \/ k \in DOMAIN q /\ r[k] = q[k]
        BY <2>3
      <3>2. k \in DOMAIN q => GoodUpdate(q[k])
        BY DEF AppInv, UpdateInv, q
      <3> QED
        BY <2>1, <2>3, <3>1, <3>2
    <2>5. UpdateInv'
      BY <1>2, <1>4, <2>4 DEF UpdateInv, r
    <2>6. wanted' = [wanted EXCEPT ![line.arg] = line.number]
            /\ wanted \in [DOMAIN CONFIG_KEY -> Nat]
      BY <1>2, <1>5 DEF RecordPublication, AppInv, TypeOK
    <2>7. ASSUME NEW n \in DOMAIN CONFIG_KEY
          PROVE  \/ Updates(r, n) = {} /\ TextSettings(s_config')[n] = wanted'[n]
                 \/ \E k \in Updates(r, n) : /\ r[k].value = wanted'[n]
                                             /\ \A j \in Updates(r, n) : j <= k
      <3>1. CASE n = line.arg
        <4>1. L + 1 \in Updates(r, n) /\ r[L + 1].value = wanted'[n]
          BY <2>1, <2>3, <2>6, <3>1 DEF Updates
        <4>2. \A j \in Updates(r, n) : j <= L + 1
          BY <2>3 DEF Updates
        <4> QED
          BY <4>1, <4>2
      <3>2. CASE n # line.arg
        <4>1. wanted'[n] = wanted[n] /\ CONFIG_KEY[n] # e.code
          BY <2>1, <2>6, <3>2, KeyFacts
        <4>2. Updates(r, n) = Updates(q, n) /\ \A k \in Updates(q, n) : r[k] = q[k]
          BY <2>3, <4>1 DEF Updates
        <4>3. \/ Updates(q, n) = {} /\ TextSettings(s_config)[n] = wanted[n]
              \/ \E k \in Updates(q, n) : /\ q[k].value = wanted[n]
                                          /\ \A j \in Updates(q, n) : j <= k
          BY DEF AppInv, WantedInv, q
        <4> QED
          BY <1>2, <4>1, <4>2, <4>3
      <3> QED
        BY <3>1, <3>2
    <2>8. WantedInv'
      BY <2>7 DEF WantedInv, r
    <2> QED
      BY <2>5, <2>8
  <1>6. CASE ~(e.topic = "CONFIG_UPDATE" /\ HasRoom("CONFIG_MANAGER"))
    <2>1. r = q /\ wanted' = wanted
      BY <1>1, <1>2, <1>3, <1>6 DEF RecordPublication
    <2>2. UpdateInv'
      <3>1. \A k \in DOMAIN r : GoodUpdate(r[k])
        BY <2>1 DEF AppInv, UpdateInv, q
      <3> QED
        BY <1>2, <1>4, <3>1 DEF UpdateInv, r
    <2> QED
      BY <1>2, <2>1, <2>2, WantedKept DEF q, r
  <1> QED
    BY <1>5, <1>6

\* A publication of any task keeps the invariant.
LEMMA PublishKeeps == ASSUME AppInv, NEW p \in Tasks, Publish(p) PROVE AppInv'
  <1>1. TypeOK' /\ QueueInv' /\ AnswersCounted' /\ UpdateInv' /\ WantedInv'
    BY PublishKeepsType, PublishKeepsQueues, PublishKeepsAnswers, PublishKeepsUpdates
  <1> DEFINE e == Head(todo[p])
  <1>2. /\ FanOut(e) /\ RecordPublication(p, e) /\ health' = health
    BY DEF Publish
  <1>3. /\ e \in Event /\ e = todo[p][1] /\ todo[p] # <<>> /\ todo[p] \in Seq(Event)
        /\ todo'[p] = Tail(todo[p]) /\ \A r \in Tasks \ {p} : todo'[r] = todo[r]
    BY PublishFacts
  <1> HIDE DEF e
  <1>4. AnnounceInv'
    <2>1. CASE p = "HEALTH_MANAGER"
      <3>1. announced' = e.code
        BY <1>2, <2>1 DEF RecordPublication
      <3>2. Len(todo[p]) = 1 /\ e.code = StateCode[health.state]
        BY <1>3, <2>1 DEF AppInv, AnnounceInv
      <3>3. todo'[p] = <<>>
        <4>1. Tail(todo[p]) \in Seq(Event) /\ Len(Tail(todo[p])) = 0
          BY <1>3, <3>2, TailFacts
        <4>2. Tail(todo[p]) = <<>>
          BY <4>1, TailFacts
        <4> QED
          BY <1>3, <4>2
      <3> QED
        BY <1>2, <2>1, <3>1, <3>2, <3>3 DEF AppInv, AnnounceInv
    <2>2. CASE p # "HEALTH_MANAGER"
      <3>1. announced' = announced
        BY <1>2, <2>2 DEF RecordPublication
      <3>2. todo'["HEALTH_MANAGER"] = todo["HEALTH_MANAGER"]
        BY <1>3, <2>2 DEF Tasks, Consumers
      <3> QED
        BY <1>2, <3>1, <3>2, AnnounceKept
    <2> QED
      BY <2>1, <2>2
  <1> QED
    BY <1>1, <1>4 DEF AppInv

-----------------------------------------------------------------------------
(***************************************************************************)
(* The theorems.                                                           *)
(***************************************************************************)

\* Every step of every task keeps the invariant.
LEMMA StepInv == AppInv /\ [Next]_vars => AppInv'
  <1> SUFFICES ASSUME AppInv, [Next]_vars PROVE AppInv'
    OBVIOUS
  <1>1. CASE BeginsRound
    BY <1>1, SensorKeeps, CommandKeeps, NetworkKeeps, PowerRoundKeeps, DiagnosticsKeeps,
       WatchdogKeeps DEF BeginsRound
  <1>2. ASSUME UNCHANGED vars
        PROVE  AppInv'
    <2>1. /\ UNCHANGED <<queue, todo, s_dropCount, s_config, local, line, checking>>
          /\ UNCHANGED <<health, rounds, asked, answered, wanted, announced>>
      BY <1>2 DEF vars, history
    <2>2. TypeOK'
      BY <2>1 DEF AppInv, TypeOK
    <2>3. QueueInv' /\ AnswersCounted' /\ UpdateInv'
      BY <2>1 DEF AppInv, QueueInv, AnswersCounted, UpdateInv
    <2>4. WantedInv' /\ AnnounceInv'
      BY <2>1, WantedKept, AnnounceKept
    <2> QED
      BY <2>2, <2>3, <2>4 DEF AppInv
  <1>3. ASSUME NEW p \in Tasks, Step(p)
        PROVE  AppInv'
    <2>1. CASE Publish(p)
      BY <2>1, PublishKeeps
    <2>2. CASE Receive_TimesOut(p)
      BY <1>2, <2>2 DEF Receive_TimesOut
    <2>3. CASE \/ Power_Check \/ Storage_Store \/ Cloud_Upload \/ Config_Apply
               \/ Health_Handle \/ Logger_Log
      BY <2>3, PowerCheckKeeps, StorageKeeps, CloudKeeps, ConfigKeeps, HealthKeeps,
         LoggerKeeps
    <2> QED
      BY <1>3, <2>1, <2>2, <2>3 DEF Step
  <1> QED
    BY <1>1, <1>2, <1>3 DEF Next

\* The invariant holds of the application: the queues, the answers, the settings and
\* the announcement stay in step in every interleaving of the tasks.
THEOREM AppInvariant == Spec => []AppInv
  BY InitInv, StepInv, PTL DEF Spec

\* The variables keep their types: in particular no queue grows beyond its length,
\* and the readings, counters and settings stay within their fields.
THEOREM AppTypeCorrect == Spec => []TypeOK
  <1>1. AppInv => TypeOK
    BY DEF AppInv
  <1> QED
    BY <1>1, AppInvariant, PTL

\* Every ACTUATOR_COMMAND that Cloud was given, and every CONFIG_UPDATE that
\* ConfigManager was given, is answered once, whatever the lengths of the queues.
THEOREM RequestsAnswered == Spec => []OneAnswerEach
  <1>1. AppInv => OneAnswerEach
    <2> SUFFICES ASSUME AppInv, NEW c \in DOMAIN Request
                 PROVE  asked[c] = answered[c]
                          + Cardinality({k \in DOMAIN todo[c] : IsAnswer(c, todo[c][k])})
                          + Cardinality({k \in DOMAIN queue[c] : IsRequest(c, queue[c][k])})
      BY DEF OneAnswerEach
    <2>1. {k \in DOMAIN todo[c] : IsAnswer(c, todo[c][k])} = Places(todo[c], Answer[c])
      BY RequestFacts DEF IsAnswer, Places
    <2>2. {k \in DOMAIN queue[c] : IsRequest(c, queue[c][k])} = Places(queue[c], Request[c])
      BY DEF IsRequest, Places
    <2> QED
      BY <2>1, <2>2 DEF AppInv, AnswersCounted, Count
  <1> QED
    BY <1>1, AppInvariant, PTL

\* Once ConfigManager has emptied its queue, each setting is what the last accepted
\* SET line for it said.
THEOREM SettingsFollowCommands == Spec => []SettingsAsCommanded
  <1>1. AppInv => SettingsAsCommanded
    <2> SUFFICES ASSUME AppInv, queue["CONFIG_MANAGER"] = <<>>
                 PROVE  TextSettings(s_config) = wanted
      BY DEF SettingsAsCommanded
    <2>1. \A n \in DOMAIN CONFIG_KEY : Updates(queue["CONFIG_MANAGER"], n) = {}
      BY DEF Updates
    <2>2. \A n \in DOMAIN CONFIG_KEY : TextSettings(s_config)[n] = wanted[n]
      BY <2>1 DEF AppInv, WantedInv
    <2>3. wanted \in [DOMAIN CONFIG_KEY -> Nat]
      BY DEF AppInv, TypeOK
    <2> QED
      BY <2>2, <2>3, KeyFacts DEF TextSettings
  <1> QED
    BY <1>1, AppInvariant, PTL

-----------------------------------------------------------------------------
(***************************************************************************)
(* Alerts.  ConfigManager runs only when SensorManager and PowerMonitor    *)
(* have nothing left to publish, so a limit does not change between the    *)
(* copy of the configuration and the alert made from it.                   *)
(***************************************************************************)

\* A step that changes neither the alerts, nor the readings, nor the limits.
LEMMA AlertsKept ==
  ASSUME AlertsCurrent, s_config' = s_config,
         local'.temperature = local.temperature,
         local'.voltageDecivolts = local.voltageDecivolts,
         todo'["SENSOR_MANAGER"] = todo["SENSOR_MANAGER"],
         todo'["POWER_MONITOR"] = todo["POWER_MONITOR"]
  PROVE  AlertsCurrent'
  BY DEF AlertsCurrent

\* The two tasks are above ConfigManager, which waits for them.
LEMMA ConfigWaits ==
  MayRun("CONFIG_MANAGER") => todo["SENSOR_MANAGER"] = <<>> /\ todo["POWER_MONITOR"] = <<>>
  <1>1. {"SENSOR_MANAGER", "POWER_MONITOR"} \subseteq Above["CONFIG_MANAGER"]
    BY DEF Above, Priority, Tasks, Producers, Consumers
  <1> QED
    BY <1>1 DEF MayRun, Ready, Busy

\* SensorManager raises the alert exactly when its new reading is beyond the limit.
LEMMA SensorAlerts == ASSUME AppInv, AlertsCurrent, Sensor_Round PROVE AlertsCurrent'
  <1> DEFINE Calm == {e \in Event : e.topic # "THRESHOLD_CROSSED"}
             readings == <<Evt("TEMP_UPDATE", 0, 0), Evt("SENSOR_READING", 1, 0),
                           Evt("SENSOR_READING", 2, 0)>>
  <1>1. PICK delta \in TempDeltas, frame \in FrameEvents :
          /\ local' = [local EXCEPT !.temperature = (local.temperature + delta + 51) % 51]
          /\ BeginRound("SENSOR_MANAGER",
               readings
                 \o If((local.temperature + delta + 51) % 51 > s_config.tempThreshold,
                       <<Evt("THRESHOLD_CROSSED", 1, 0)>>)
                 \o frame)
    BY DEF Sensor_Round
  <1> DEFINE temperature == (local.temperature + delta + 51) % 51
             crossed == If(temperature > s_config.tempThreshold,
                           <<Evt("THRESHOLD_CROSSED", 1, 0)>>)
  <1>2. local'.temperature = temperature /\ local'.voltageDecivolts = local.voltageDecivolts
    BY <1>1 DEF AppInv, TypeOK, Locals
  <1>3. /\ todo'["SENSOR_MANAGER"] = readings \o crossed \o frame
        /\ todo'["POWER_MONITOR"] = todo["POWER_MONITOR"]
        /\ s_config' = s_config
    BY <1>1 DEF BeginRound, AppInv, TypeOK, Tasks, Producers
  <1>4. readings \in Seq(Calm) /\ <<>> \in Seq(Calm)
    BY DEF Evt, Event, Topics
  <1>5. frame \in Seq(Calm)
    <2>1. frame = <<>> \/ frame = <<Evt("FRAME_READY", 0, 0)>>
            \/ frame = <<Evt("SYSTEM_FAULT", 0, 1)>>
      BY DEF FrameEvents
    <2>2. Evt("FRAME_READY", 0, 0) \in Calm /\ Evt("SYSTEM_FAULT", 0, 1) \in Calm
      BY DEF Evt, Event, Topics
    <2>3. \A e \in Calm : <<e>> \in Seq(Calm)
      <3> HIDE DEF Calm
      <3> QED
        OBVIOUS
    <2> QED
      BY <1>4, <2>1, <2>2, <2>3, Zenon
  <1>6. ~(temperature > s_config.tempThreshold) => crossed = <<>>
    BY DEF If
  <1> HIDE DEF readings, temperature, crossed
  <1>7. ASSUME ~(temperature > s_config.tempThreshold), NEW k \in DOMAIN todo'["SENSOR_MANAGER"]
        PROVE  todo'["SENSOR_MANAGER"][k].topic # "THRESHOLD_CROSSED"
    <2>1. crossed = <<>>
      BY <1>6, <1>7
    <2>2. todo'["SENSOR_MANAGER"][k] \in Calm
      <3> HIDE DEF Calm
      <3>1. todo'["SENSOR_MANAGER"] \in Seq(Calm)
        BY <1>3, <1>4, <1>5, <2>1
      <3> QED
        BY <1>7, <3>1
    <2> QED
      BY <2>2
  <1> QED
    BY <1>2, <1>3, <1>7 DEF AlertsCurrent

\* PowerMonitor compares when the reading has been published.
LEMMA PowerAlerts ==
  ASSUME AppInv, AlertsCurrent, Power_Round \/ Power_Check
  PROVE  AlertsCurrent'
  <1>0. todo \in [Tasks -> Seq(Event)] /\ "POWER_MONITOR" \in Tasks /\ "SENSOR_MANAGER" \in Tasks
    BY DEF AppInv, TypeOK, Tasks, Producers
  <1>1. CASE Power_Round
    <2>1. PICK delta \in VoltDeltas :
            /\ local' = [local EXCEPT !.voltageDecivolts = NextVoltage(@, delta)]
            /\ BeginRound("POWER_MONITOR", <<Evt("SENSOR_READING", 3, 0)>>)
      BY <1>1 DEF Power_Round
    <2>2. local'.temperature = local.temperature
      BY <2>1 DEF AppInv, TypeOK, Locals
    <2>3. /\ todo'["POWER_MONITOR"] = <<Evt("SENSOR_READING", 3, 0)>>
          /\ todo'["SENSOR_MANAGER"] = todo["SENSOR_MANAGER"]
          /\ s_config' = s_config
      BY <1>0, <2>1 DEF BeginRound
    <2>4. \A k \in DOMAIN todo'["POWER_MONITOR"] :
            todo'["POWER_MONITOR"][k].topic = "SENSOR_READING"
      BY <2>3 DEF Evt
    <2> QED
      BY <2>2, <2>3, <2>4 DEF AlertsCurrent
  <1>2. CASE Power_Check
    <2> DEFINE low == IF local.voltageDecivolts < s_config.lowVoltageDecivolts THEN 1 ELSE 0
    <2>1. /\ todo'["POWER_MONITOR"] = <<Evt("POWER_EVENT", low, 0)>>
          /\ todo'["SENSOR_MANAGER"] = todo["SENSOR_MANAGER"]
          /\ s_config' = s_config /\ local' = local
      BY <1>0, <1>2 DEF Power_Check
    <2>2. \A k \in DOMAIN todo'["POWER_MONITOR"] : todo'["POWER_MONITOR"][k].code = low
      BY <2>1 DEF Evt
    <2> QED
      BY <2>1, <2>2 DEF AlertsCurrent
  <1> QED
    BY <1>1, <1>2

\* The rounds of the other producers leave readings, limits and alerts alone.
LEMMA OtherRoundAlerts ==
  ASSUME AppInv, AlertsCurrent,
         Command_Round \/ Network_Round \/ Diagnostics_Round \/ Watchdog_Report
  PROVE  AlertsCurrent'
  <1>1. ASSUME NEW p \in {"COMMAND", "NETWORK", "DIAGNOSTICS", "WATCHDOG"}, NEW events,
               BeginRound(p, events)
        PROVE  /\ todo'["SENSOR_MANAGER"] = todo["SENSOR_MANAGER"]
               /\ todo'["POWER_MONITOR"] = todo["POWER_MONITOR"]
               /\ s_config' = s_config
    BY <1>1 DEF BeginRound, AppInv, TypeOK, Tasks, Producers
  <1>2. local \in Locals
    BY DEF AppInv, TypeOK
  <1>3. CASE Command_Round
    <2>1. local' = [local EXCEPT !.commandIndex = (@ + 1) % 256]
            /\ \E events : BeginRound("COMMAND", events)
      BY <1>3 DEF Command_Round
    <2> QED
      BY <1>1, <1>2, <2>1, AlertsKept DEF Locals
  <1>4. CASE Network_Round
    <2>1. local' = [local EXCEPT !.online = ~@] /\ \E events : BeginRound("NETWORK", events)
      BY <1>4 DEF Network_Round
    <2> QED
      BY <1>1, <1>2, <2>1, AlertsKept DEF Locals
  <1>5. CASE Diagnostics_Round
    BY <1>1, <1>5, AlertsKept DEF Diagnostics_Round
  <1>6. CASE Watchdog_Report
    BY <1>1, <1>6, AlertsKept DEF Watchdog_Report
  <1> QED
    BY <1>3, <1>4, <1>5, <1>6

\* Subscribers publish no alerts; ConfigManager, which sets limits, finds none pending.
LEMMA SubscriberAlerts ==
  ASSUME AppInv, AlertsCurrent,
         \/ Storage_Store \/ Cloud_Upload \/ Config_Apply \/ Health_Handle \/ Logger_Log
  PROVE  AlertsCurrent'
  <1>1. ASSUME NEW c \in Consumers, NEW reaction, Receive(c, reaction)
        PROVE  /\ todo'["SENSOR_MANAGER"] = todo["SENSOR_MANAGER"]
               /\ todo'["POWER_MONITOR"] = todo["POWER_MONITOR"]
               /\ MayRun(c)
    <2>1. c # "SENSOR_MANAGER" /\ c # "POWER_MONITOR"
      BY DEF Consumers
    <2> QED
      BY <1>1, <2>1 DEF Receive, AppInv, TypeOK, Tasks, Producers
  <1>2. {"STORAGE", "CLOUD", "CONFIG_MANAGER", "HEALTH_MANAGER", "LOGGER"} \subseteq Consumers
    BY DEF Consumers
  <1>3. CASE Storage_Store
    <2>1. s_config' = s_config /\ local'.temperature = local.temperature
            /\ local'.voltageDecivolts = local.voltageDecivolts
      BY <1>3 DEF Storage_Store, AppInv, TypeOK, Locals
    <2> QED
      BY <1>1, <1>2, <1>3, <2>1, AlertsKept DEF Storage_Store
  <1>4. CASE Cloud_Upload
    BY <1>1, <1>2, <1>4, AlertsKept DEF Cloud_Upload
  <1>5. CASE Health_Handle
    <2>1. s_config' = s_config /\ local' = local
            /\ \E reaction : Receive("HEALTH_MANAGER", reaction)
      BY <1>5 DEF Health_Handle
    <2> QED
      BY <1>1, <1>2, <2>1, AlertsKept
  <1>6. CASE Logger_Log
    BY <1>1, <1>2, <1>6, AlertsKept DEF Logger_Log
  <1>7. CASE Config_Apply
    <2>1. \E reaction : Receive("CONFIG_MANAGER", reaction)
      BY <1>7 DEF Config_Apply
    <2>2. todo'["SENSOR_MANAGER"] = <<>> /\ todo'["POWER_MONITOR"] = <<>>
      BY <1>1, <1>2, <2>1, ConfigWaits
    <2> QED
      BY <2>2 DEF AlertsCurrent
  <1> QED
    BY <1>3, <1>4, <1>5, <1>6, <1>7

\* A publication only shortens what a task has yet to publish.
LEMMA PublishAlerts ==
  ASSUME AppInv, AlertsCurrent, NEW p \in Tasks, Publish(p)
  PROVE  AlertsCurrent'
  <1>1. s_config' = s_config /\ local' = local
    BY DEF Publish
  <1>2. ASSUME NEW r \in Tasks, NEW k \in DOMAIN todo'[r]
        PROVE  \E j \in DOMAIN todo[r] : todo'[r][k] = todo[r][j]
    <2>1. CASE r = p
      <3>1. todo'[p] = Tail(todo[p]) /\ todo[p] \in Seq(Event) /\ todo[p] # <<>>
        BY PublishFacts
      <3>2. k \in 1 .. Len(todo[p]) - 1 /\ k + 1 \in DOMAIN todo[p]
              /\ todo'[p][k] = todo[p][k + 1]
        BY <1>2, <2>1, <3>1, TailFacts
      <3> QED
        BY <2>1, <3>2
    <2>2. CASE r # p
      BY <1>2, <2>2, PublishFacts
    <2> QED
      BY <2>1, <2>2
  <1>3. "SENSOR_MANAGER" \in Tasks /\ "POWER_MONITOR" \in Tasks
    BY DEF Tasks, Producers
  <1> QED
    BY <1>1, <1>2, <1>3 DEF AlertsCurrent

\* No alert is out of date when it is published, although SensorManager and
\* PowerMonitor compare with a copy of the configuration: for any readings, any
\* queues and any SET lines that wait for ConfigManager.
THEOREM AlertsStayCurrent == Spec => []AlertsCurrent
  <1>1. Init => AlertsCurrent
    <2>1. "SENSOR_MANAGER" \in Tasks /\ "POWER_MONITOR" \in Tasks /\ DOMAIN <<>> = {}
      BY DEF Tasks, Producers
    <2> QED
      BY <2>1 DEF Init, AlertsCurrent
  <1>2. AppInv /\ AlertsCurrent /\ [Next]_vars => AlertsCurrent'
    <2> SUFFICES ASSUME AppInv, AlertsCurrent, [Next]_vars PROVE AlertsCurrent'
      OBVIOUS
    <2>1. CASE BeginsRound
      BY <2>1, SensorAlerts, PowerAlerts, OtherRoundAlerts DEF BeginsRound
    <2>2. ASSUME UNCHANGED vars PROVE AlertsCurrent'
      BY <2>2 DEF vars, AlertsCurrent
    <2>3. ASSUME NEW p \in Tasks, Step(p) PROVE AlertsCurrent'
      BY <2>2, <2>3, PublishAlerts, PowerAlerts, SubscriberAlerts DEF Step, Receive_TimesOut
    <2> QED
      BY <2>1, <2>2, <2>3 DEF Next
  <1> QED
    BY <1>1, <1>2, AppInvariant, PTL DEF Spec

\* The safety part of FaultAnnounced: when HealthManager takes a SYSTEM_FAULT, state
\* FAULT has been announced already or its announcement is what the task publishes
\* next.
FaultTaken ==
  [][(Health_Handle /\ Received("HEALTH_MANAGER").topic = "SYSTEM_FAULT")
     => \/ announced' = StateCode["FAULT"] /\ todo'["HEALTH_MANAGER"] = <<>>
        \/ /\ Len(todo'["HEALTH_MANAGER"]) = 1
           /\ todo'["HEALTH_MANAGER"][1].topic = "DEVICE_STATUS"
           /\ todo'["HEALTH_MANAGER"][1].code = StateCode["FAULT"]]_vars

\* The debounce of the fault manager never hides a fault that was not announced.
THEOREM FaultNotHidden == Spec => FaultTaken
  <1> DEFINE e == Received("HEALTH_MANAGER")
             Announces == \/ /\ announced' = StateCode["FAULT"]
                             /\ todo'["HEALTH_MANAGER"] = <<>>
                          \/ /\ Len(todo'["HEALTH_MANAGER"]) = 1
                             /\ todo'["HEALTH_MANAGER"][1].topic = "DEVICE_STATUS"
                             /\ todo'["HEALTH_MANAGER"][1].code = StateCode["FAULT"]
  <1>1. ASSUME AppInv, Health_Handle, e.topic = "SYSTEM_FAULT"
        PROVE  Announces
    <2>1. AnnounceInv'
      BY <1>1, HealthKeeps DEF AppInv
    <2>2. health'.topic = "SYSTEM_FAULT"
      <3>1. \/ Suppressed(e) /\ health' = health
            \/ health' = [state |-> stateForSeverity(classifyFault(e)), topic |-> e.topic,
                          code |-> e.code]
        BY <1>1 DEF Health_Handle
      <3> QED
        BY <1>1, <3>1 DEF Suppressed
    <2>3. health'.state = stateForSeverity(classifyFault(health'))
      BY <2>1, <2>2 DEF AnnounceInv
    <2>4. classifyFault(health') = "CRITICAL"
      BY <2>2 DEF classifyFault
    <2>5. health'.state = "FAULT"
      BY <2>3, <2>4 DEF stateForSeverity
    <2> QED
      BY <2>1, <2>5 DEF AnnounceInv
  <1>2. AppInv => [Health_Handle /\ e.topic = "SYSTEM_FAULT" => Announces]_vars
    BY <1>1
  <1> QED
    BY <1>2, AppInvariant, PTL DEF FaultTaken

=================================================================================

--------------------------- MODULE RuntimeConfigProofs ---------------------------
(***************************************************************************)
(* Proofs about RuntimeConfig: for every set of updates, initial files and *)
(* faults, the settings stay in range, a boot restores a record that was   *)
(* written whole, and the result of a save can be relied on.               *)
(***************************************************************************)
EXTENDS RuntimeConfig, TLAPS

-----------------------------------------------------------------------------
(***************************************************************************)
(* The record and its operations.                                          *)
(***************************************************************************)

\* A sealed configuration within its ranges: what the program keeps.
GoodConfig == {c \in ConfigType : InRange(c) /\ Sealed(c)}

\* What the setters accept fits in the fields.
LEMMA RangeTypes ==
  /\ TempThresholdRange \subseteq 0 .. 255
  /\ LowVoltageRange \subseteq 0 .. 255
  /\ DiagnosticPeriodRange \subseteq Nat
  /\ FramePeriodRange \subseteq Nat
  BY DEF TempThresholdRange, LowVoltageRange, DiagnosticPeriodRange, FramePeriodRange

\* Whether a record is in range depends on its settings alone.
LEMMA SettingsDecideRange ==
  ASSUME NEW c, NEW d, Settings(c) = Settings(d)
  PROVE  InRange(c) => InRange(d)
  <1>1. /\ c.tempThreshold = d.tempThreshold
        /\ c.lowVoltageDecivolts = d.lowVoltageDecivolts
        /\ c.diagnosticPeriodMs = d.diagnosticPeriodMs
        /\ c.framePeriodMs = d.framePeriodMs
    BY DEF Settings
  <1> QED
    BY <1>1 DEF InRange

\* Seal changes nothing but the CRC, and sealing twice is sealing once.
LEMMA SealFacts ==
  ASSUME NEW c \in ConfigType
  PROVE  /\ Seal(c) \in ConfigType
         /\ Sealed(Seal(c))
         /\ Settings(Seal(c)) = Settings(c)
         /\ InRange(c) => InRange(Seal(c))
         /\ Seal(c).bootCount = c.bootCount
         /\ Sealed(c) => Seal(c) = c
  <1>1. Crc32(c) \in Nat \X Nat \X Nat \X Nat \X Nat
    BY DEF Crc32, ConfigType
  <1>2. Seal(c) \in ConfigType
    BY <1>1 DEF Seal, ConfigType
  <1>3. Crc32(Seal(c)) = Crc32(c)
    BY DEF Seal, Crc32, ConfigType
  <1>4. Sealed(Seal(c))
    BY <1>3 DEF Seal, Sealed, ConfigType
  <1>5. Settings(Seal(c)) = Settings(c) /\ Seal(c).bootCount = c.bootCount
    BY DEF Seal, Settings, ConfigType
  <1>6. InRange(c) => InRange(Seal(c))
    BY <1>5, SettingsDecideRange
  <1>7. Sealed(c) => Seal(c) = c
    BY DEF Seal, Sealed, ConfigType
  <1> QED
    BY <1>2, <1>4, <1>5, <1>6, <1>7

\* The factory defaults are a sealed record within the ranges; they count no boot.
LEMMA DefaultsGood == configLoadDefaults \in GoodConfig /\ configLoadDefaults.bootCount = 0
  <1> DEFINE d == [tempThreshold |-> 35, lowVoltageDecivolts |-> 33,
                   diagnosticPeriodMs |-> 5000, framePeriodMs |-> 2800, bootCount |-> 0,
                   crc32 |-> NoCrc]
  <1>1. d \in ConfigType /\ InRange(d)
    BY DEF ConfigType, InRange, TempThresholdRange, LowVoltageRange,
           DiagnosticPeriodRange, FramePeriodRange
  <1>2. configLoadDefaults = Seal(d)
    BY DEF configLoadDefaults, Config
  <1>3. d.bootCount = 0
    OBVIOUS
  <1> QED
    BY <1>1, <1>2, <1>3, SealFacts DEF GoodConfig

\* The migration of a sealed record of the old format loses nothing.
LEMMA MigrationKeeps ==
  ASSUME NEW c \in ConfigType, Sealed(c)
  PROVE  configMigrateV1(c) = c
  <1> DEFINE d == [tempThreshold |-> c.tempThreshold,
                   lowVoltageDecivolts |-> c.lowVoltageDecivolts,
                   diagnosticPeriodMs |-> c.diagnosticPeriodMs,
                   framePeriodMs |-> c.framePeriodMs, bootCount |-> c.bootCount,
                   crc32 |-> NoCrc]
  <1>1. configMigrateV1(c) = Seal(d)
    BY DEF configMigrateV1, Config
  <1>2. Seal(d) = [d EXCEPT !.crc32 = c.crc32]
    BY DEF Seal, Sealed, Crc32
  <1>3. [d EXCEPT !.crc32 = c.crc32] = c
    BY DEF ConfigType
  <1> QED
    BY <1>1, <1>2, <1>3

\* Counting a boot keeps the record sealed and changes only the counter.
LEMMA CountBootFacts ==
  ASSUME NEW c \in GoodConfig
  PROVE  /\ CountBoot(c) \in GoodConfig
         /\ Settings(CountBoot(c)) = Settings(c)
         /\ CountBoot(c).bootCount = c.bootCount + 1
  <1> DEFINE d == [c EXCEPT !.bootCount = @ + 1]
  <1>1. d \in ConfigType
    BY DEF GoodConfig, ConfigType
  <1>2. Settings(d) = Settings(c) /\ d.bootCount = c.bootCount + 1
    BY DEF GoodConfig, ConfigType, Settings
  <1>3. InRange(d)
    BY <1>2, SettingsDecideRange DEF GoodConfig
  <1>4. CountBoot(c) = Seal(d)
    BY DEF CountBoot
  <1> HIDE DEF d
  <1> QED
    BY <1>1, <1>2, <1>3, <1>4, SealFacts DEF GoodConfig

\* An accepted setter keeps the record sealed and within its ranges, stores the
\* value it was given and leaves the boot counter alone.
LEMMA SetFieldFacts ==
  ASSUME NEW c \in GoodConfig, NEW key \in Keys, NEW v \in ValidRange(key)
  PROVE  /\ SetField(c, key, v) \in GoodConfig
         /\ Setting(SetField(c, key, v), key) = v
         /\ SetField(c, key, v).bootCount = c.bootCount
  <1>1. CASE key = "TEMP_THRESHOLD"
    <2> DEFINE d == [c EXCEPT !.tempThreshold = v]
    <2>1. v \in TempThresholdRange
      BY <1>1 DEF ValidRange
    <2>2. d \in ConfigType
      BY <2>1, RangeTypes DEF GoodConfig, ConfigType
    <2>3. InRange(d) /\ d.tempThreshold = v /\ d.bootCount = c.bootCount
      BY <2>1 DEF GoodConfig, ConfigType, InRange
    <2>4. FieldOf[key] = "tempThreshold"
      BY <1>1 DEF FieldOf
    <2>5. SetField(c, key, v) = Seal(d) /\ Setting(Seal(d), key) = Seal(d).tempThreshold
      BY <2>4 DEF SetField, Setting
    <2>6. Seal(d).tempThreshold = d.tempThreshold
      BY <2>2 DEF Seal, ConfigType
    <2> HIDE DEF d
    <2> QED
      BY <2>2, <2>3, <2>5, <2>6, SealFacts DEF GoodConfig
  <1>2. CASE key = "LOW_VOLTAGE_DV"
    <2> DEFINE d == [c EXCEPT !.lowVoltageDecivolts = v]
    <2>1. v \in LowVoltageRange
      BY <1>2 DEF ValidRange
    <2>2. d \in ConfigType
      BY <2>1, RangeTypes DEF GoodConfig, ConfigType
    <2>3. InRange(d) /\ d.lowVoltageDecivolts = v /\ d.bootCount = c.bootCount
      BY <2>1 DEF GoodConfig, ConfigType, InRange
    <2>4. FieldOf[key] = "lowVoltageDecivolts"
      BY <1>2 DEF FieldOf
    <2>5. SetField(c, key, v) = Seal(d) /\ Setting(Seal(d), key) = Seal(d).lowVoltageDecivolts
      BY <2>4 DEF SetField, Setting
    <2>6. Seal(d).lowVoltageDecivolts = d.lowVoltageDecivolts
      BY <2>2 DEF Seal, ConfigType
    <2> HIDE DEF d
    <2> QED
      BY <2>2, <2>3, <2>5, <2>6, SealFacts DEF GoodConfig
  <1>3. CASE key = "DIAG_PERIOD_MS"
    <2> DEFINE d == [c EXCEPT !.diagnosticPeriodMs = v]
    <2>1. v \in DiagnosticPeriodRange
      BY <1>3 DEF ValidRange
    <2>2. d \in ConfigType
      BY <2>1, RangeTypes DEF GoodConfig, ConfigType
    <2>3. InRange(d) /\ d.diagnosticPeriodMs = v /\ d.bootCount = c.bootCount
      BY <2>1 DEF GoodConfig, ConfigType, InRange
    <2>4. FieldOf[key] = "diagnosticPeriodMs"
      BY <1>3 DEF FieldOf
    <2>5. SetField(c, key, v) = Seal(d) /\ Setting(Seal(d), key) = Seal(d).diagnosticPeriodMs
      BY <2>4 DEF SetField, Setting
    <2>6. Seal(d).diagnosticPeriodMs = d.diagnosticPeriodMs
      BY <2>2 DEF Seal, ConfigType
    <2> HIDE DEF d
    <2> QED
      BY <2>2, <2>3, <2>5, <2>6, SealFacts DEF GoodConfig
  <1>4. CASE key = "FRAME_PERIOD_MS"
    <2> DEFINE d == [c EXCEPT !.framePeriodMs = v]
    <2>1. v \in FramePeriodRange
      BY <1>4 DEF ValidRange
    <2>2. d \in ConfigType
      BY <2>1, RangeTypes DEF GoodConfig, ConfigType
    <2>3. InRange(d) /\ d.framePeriodMs = v /\ d.bootCount = c.bootCount
      BY <2>1 DEF GoodConfig, ConfigType, InRange
    <2>4. FieldOf[key] = "framePeriodMs"
      BY <1>4 DEF FieldOf
    <2>5. SetField(c, key, v) = Seal(d) /\ Setting(Seal(d), key) = Seal(d).framePeriodMs
      BY <2>4 DEF SetField, Setting
    <2>6. Seal(d).framePeriodMs = d.framePeriodMs
      BY <2>2 DEF Seal, ConfigType
    <2> HIDE DEF d
    <2> QED
      BY <2>2, <2>3, <2>5, <2>6, SealFacts DEF GoodConfig
  <1>5. CASE key = "UNKNOWN"
    BY <1>5 DEF ValidRange
  <1> QED
    BY <1>1, <1>2, <1>3, <1>4, <1>5 DEF Keys

\* A record cut off anywhere, zeros after the cut, is still of the type.
LEMMA PrefixType ==
  ASSUME NEW c \in ConfigType, NEW n \in CutPoints
  PROVE  TornFile(c, n) \in FileType /\ TornFile(c, n).magic = "CFG2" /\ TornFile(c, n).len = n
  <1>1. Prefix(c, n) \in ConfigType
    BY DEF Prefix, ConfigType, CutPoints
  <1> QED
    BY <1>1 DEF TornFile, File, FileType

-----------------------------------------------------------------------------
(***************************************************************************)
(* What a boot finds in the file.  A file of the old format, or a whole    *)
(* one of the new, holds the record last written unless its CRC betrays a  *)
(* change; what a failed or interrupted write leaves is cut short and      *)
(* belongs to neither format.                                              *)
(***************************************************************************)
FileInv ==
  \/ file.magic = "CFG1" /\ file.len = V1Size /\ file.config = lastSaved
  \/ file.magic = "CFG2" /\ file.len = V2Size /\ (file.config = lastSaved \/ ~Sealed(file.config))
  \/ file.magic = "CFG2" /\ file.len \in CutPoints

\* A file of the old format is migrated, a whole one of the new is taken as it is.
LEMMA LoadedWhole ==
  ASSUME NEW f \in FileType, Sealed(f.config),
         <<f.magic, f.len>> \in {<<"CFG1", V1Size>>, <<"CFG2", V2Size>>}
  PROVE  Loaded(f) = f.config
  <1>1. f.config \in ConfigType
    BY DEF FileType
  <1>2. configMigrateV1(f.config) = f.config
    BY <1>1, MigrationKeeps
  <1> QED
    BY <1>2 DEF Loaded, V1IsValid, configIsValid, V1Size, V2Size

\* A file that is cut short, or whose CRC does not match, is replaced by the defaults.
LEMMA LoadedSpoilt ==
  ASSUME NEW f \in FileType, f.magic = "CFG2", f.len \in CutPoints \/ ~Sealed(f.config)
  PROVE  Loaded(f) = configLoadDefaults
  BY DEF Loaded, V1IsValid, configIsValid, CutPoints, V1Size, V2Size

\* Whatever is in the file, a boot takes the record last written or the defaults,
\* and so a sealed record within the ranges.
LEMMA LoadedFacts ==
  ASSUME file \in FileType, lastSaved \in GoodConfig, FileInv
  PROVE  Loaded(file) \in {lastSaved, configLoadDefaults} /\ Loaded(file) \in GoodConfig
  <1>1. Loaded(file) \in {lastSaved, configLoadDefaults}
    <2>1. CASE file.magic = "CFG2" /\ (file.len \in CutPoints \/ ~Sealed(file.config))
      BY <2>1, LoadedSpoilt
    <2>2. CASE /\ <<file.magic, file.len>> \in {<<"CFG1", V1Size>>, <<"CFG2", V2Size>>}
               /\ file.config = lastSaved
      BY <2>2, LoadedWhole DEF GoodConfig
    <2> QED
      BY <2>1, <2>2 DEF FileInv
  <1> QED
    BY <1>1, DefaultsGood

-----------------------------------------------------------------------------
(***************************************************************************)
(* The inductive invariant.                                                *)
(***************************************************************************)

\* What Config_Save is writing is what is in memory.
SnapshotInv == pc \in {"open", "write"} => snapshot = s_config

\* Only a fault other than "open" parts the file from the record last written;
\* between fopen and fclose there is none.
IntactInv == failed \subseteq {"open"} /\ pc # "write" => Loaded(file) = lastSaved

\* As long as nothing fails, what is in memory between two changes is saved, and
\* its counter is that of the boots.
CounterInv ==
  failed = {} =>
    /\ pc = "off" => lastSaved.bootCount = boots
    /\ pc # "off" => s_config.bootCount = boots
    /\ pc \in {"idle", "status"} => s_config = lastSaved

\* The first half of SaveResultHonest, from the return of Config_Save on.
ResultInv ==
  pc \in {"idle", "status"} /\ result /\ failed \cap {"flush", "rot"} = {} =>
    Loaded(file) = s_config

InForce(u) == Setting(s_config, u.key) = Argument(u)

\* The update that is being applied is in force before it is announced, and what
\* was announced stays in force until the next update.
AppliedInv ==
  /\ pc \in {"save", "open", "write"} /\ update # NoUpdate => InForce(update)
  /\ pc \in {"save", "open", "write"} /\ update = NoUpdate => ~status.applied
  /\ pc = "off" => ~status.applied
  /\ pc = "status" /\ result => InForce(update)
  /\ pc = "idle" /\ status.applied => InForce(status.update)

ConfigInv ==
  /\ TypeOK
  /\ SettingsInRange
  /\ lastSaved \in GoodConfig
  /\ FileInv
  /\ SnapshotInv
  /\ IntactInv
  /\ CounterInv
  /\ ResultInv
  /\ AppliedInv

\* The invariant holds when the device is first switched on.
LEMMA InitInv == Init => ConfigInv
  <1> SUFFICES ASSUME Init PROVE ConfigInv
    OBVIOUS
  <1> USE DEF Init
  <1>1. EmptyFile \in FileType /\ EmptyFile.magic = "CFG2" /\ EmptyFile.len = 0
        /\ EmptyFile.config = configLoadDefaults
    BY DefaultsGood DEF EmptyFile, File, FileType, CutPoints, GoodConfig
  <1>2. file \in FileType /\ lastSaved \in GoodConfig /\ boots \in 0 .. MaxBoots
    <2>1. CASE file = EmptyFile
      BY <1>1, <2>1, DefaultsGood, ConfigAssumption
    <2>2. CASE file # EmptyFile
      <3>1. /\ file \in FileType /\ Sealed(file.config) /\ InRange(file.config)
            /\ file.config.bootCount <= MaxBoots
        BY <2>2, ConfigAssumption
      <3>2. file.config \in ConfigType /\ file.config.bootCount \in Nat
        BY <3>1 DEF FileType, ConfigType
      <3> QED
        BY <3>1, <3>2, ConfigAssumption DEF GoodConfig
    <2> QED
      BY <2>1, <2>2
  <1>3. FileInv /\ Loaded(file) = lastSaved
    <2>1. CASE file = EmptyFile
      BY <1>1, <2>1, LoadedSpoilt DEF FileInv, CutPoints
    <2>2. CASE file # EmptyFile
      BY <1>2, <2>2, ConfigAssumption, LoadedWhole DEF FileInv
    <2> QED
      BY <2>1, <2>2
  <1>4. TypeOK
    BY <1>2, DefaultsGood DEF TypeOK, GoodConfig, NoStatus, NoUpdate, Update, Keys
  <1>5. ~status.applied
    BY DEF NoStatus
  <1> QED
    BY <1>2, <1>3, <1>4, <1>5 DEF ConfigInv, SettingsInRange, SnapshotInv, IntactInv,
       CounterInv, ResultInv, AppliedInv

\* Every step of the program, the storage or the power supply keeps the type.
LEMMA StepType == ConfigInv /\ [Next]_vars => TypeOK'
  <1> SUFFICES ASSUME ConfigInv, [Next]_vars
               PROVE  TypeOK'
    OBVIOUS
  <1> USE DEF ConfigInv, TypeOK
  <1>0. /\ configLoadDefaults \in ConfigType
        /\ NoUpdate \in Update
        /\ NoStatus \in [update : Update, applied : BOOLEAN]
        /\ EmptyFile \in FileType
    BY DefaultsGood DEF GoodConfig, NoStatus, NoUpdate, Update, Keys, EmptyFile, File, FileType,
       CutPoints
  <1>1. CASE Config_Init
    <2>1. s_config' \in ConfigType
      BY <1>1, LoadedFacts, CountBootFacts DEF Config_Init, GoodConfig
    <2> QED
      BY <1>0, <1>1, <2>1, ConfigAssumption DEF Config_Init
  <1>2. CASE Config_Save
    BY <1>2, SealFacts DEF Config_Save
  <1>3. CASE WriteConfig_Open
    BY <1>0, <1>3 DEF WriteConfig_Open
  <1>4. CASE WriteConfig_OpenFails
    BY <1>4 DEF WriteConfig_OpenFails, Return
  <1>5. CASE WriteConfig_Close
    <2>1. file' \in FileType
      BY <1>5 DEF WriteConfig_Close, File, FileType
    <2> QED
      BY <1>5, <2>1 DEF WriteConfig_Close, Return
  <1>6. CASE WriteConfig_Short
    <2>1. file' \in FileType
      BY <1>6, PrefixType DEF WriteConfig_Short
    <2> QED
      BY <1>6, <2>1 DEF WriteConfig_Short, Return
  <1>7. CASE WriteConfig_FlushFails
    <2>1. file' \in FileType
      BY <1>7, PrefixType DEF WriteConfig_FlushFails
    <2> QED
      BY <1>7, <2>1 DEF WriteConfig_FlushFails, Return
  <1>8. ASSUME NEW u \in Updates, Config_Set(u) \/ Config_Reject(u)
        PROVE  TypeOK'
    <2>1. u \in Update
      BY ConfigAssumption
    <2>2. CASE Config_Reject(u)
      BY <2>1, <2>2 DEF Config_Reject
    <2>3. CASE Config_Set(u)
      <3>1. s_config \in GoodConfig
        BY <2>3 DEF Config_Set, SettingsInRange, GoodConfig
      <3>2. s_config' \in ConfigType
        BY <2>1, <2>3, <3>1, SetFieldFacts DEF Config_Set, Update, GoodConfig
      <3> QED
        BY <2>1, <2>3, <3>2 DEF Config_Set
    <2> QED
      BY <1>8, <2>2, <2>3
  <1>9. CASE PublishStatus
    BY <1>9 DEF PublishStatus
  <1>10. CASE PowerLoss
    BY <1>0, <1>10 DEF PowerLoss
  <1>11. CASE BitRot
    <2>1. file' \in FileType
      BY <1>11 DEF BitRot, FileType, ConfigType
    <2> QED
      BY <1>11, <2>1 DEF BitRot
  <1>12. CASE UNCHANGED vars
    BY <1>12 DEF vars
  <1> QED
    BY <1>1, <1>2, <1>3, <1>4, <1>5, <1>6, <1>7, <1>8, <1>9, <1>10, <1>11, <1>12 DEF Next, Done

\* A write that stops short leaves a file that a boot takes for neither format.
LEMMA TornStep ==
  ASSUME snapshot \in ConfigType, \E n \in CutPoints : file' = TornFile(snapshot, n)
  PROVE  FileInv' /\ Loaded(file') = configLoadDefaults
  <1>1. file' \in FileType /\ file'.magic = "CFG2" /\ file'.len \in CutPoints
    BY PrefixType
  <1> QED
    BY <1>1, LoadedSpoilt DEF FileInv

\* Every step keeps the invariant.
LEMMA StepInv == ConfigInv /\ [Next]_vars => ConfigInv'
  <1> SUFFICES ASSUME ConfigInv, [Next]_vars
               PROVE  ConfigInv'
    OBVIOUS
  <1> USE DEF ConfigInv
  <1>0. TypeOK'
    BY StepType
  <1>00. pc # "off" => s_config \in GoodConfig
    BY DEF SettingsInRange, GoodConfig, TypeOK
  <1>1. CASE Config_Init
    <2> USE <1>1 DEF Config_Init
    <2>1. Loaded(file) \in GoodConfig
      BY LoadedFacts DEF TypeOK
    <2>2. s_config' \in GoodConfig /\ s_config'.bootCount = Loaded(file).bootCount + 1
      BY <2>1, CountBootFacts
    <2>3. SettingsInRange'
      BY <2>2 DEF SettingsInRange, GoodConfig
    <2>4. CounterInv'
      BY <2>2 DEF CounterInv, IntactInv
    <2>5. IntactInv' /\ FileInv' /\ SnapshotInv' /\ ResultInv'
      BY DEF IntactInv, FileInv, SnapshotInv, ResultInv
    <2>6. AppliedInv'
      BY DEF AppliedInv
    <2> QED
      BY <1>0, <2>3, <2>4, <2>5, <2>6
  <1>2. CASE Config_Save
    <2> USE <1>2 DEF Config_Save
    <2>1. s_config' = s_config
      BY <1>00, SealFacts DEF GoodConfig
    <2>2. snapshot' = s_config
      BY <2>1
    <2>3. SettingsInRange' /\ CounterInv' /\ IntactInv' /\ FileInv' /\ SnapshotInv' /\ ResultInv'
      BY <2>1, <2>2 DEF SettingsInRange, CounterInv, IntactInv, FileInv, SnapshotInv, ResultInv
    <2>4. AppliedInv'
      BY <2>1 DEF AppliedInv, InForce
    <2> QED
      BY <1>0, <2>3, <2>4
  <1>3. CASE WriteConfig_Open
    <2> USE <1>3 DEF WriteConfig_Open
    <2>1. FileInv'
      BY DEF FileInv, EmptyFile, File, CutPoints
    <2>2. SettingsInRange' /\ CounterInv' /\ IntactInv' /\ SnapshotInv' /\ ResultInv'
      BY DEF SettingsInRange, CounterInv, IntactInv, SnapshotInv, ResultInv
    <2>3. AppliedInv'
      BY DEF AppliedInv, InForce
    <2> QED
      BY <1>0, <2>1, <2>2, <2>3
  <1>4. CASE WriteConfig_OpenFails
    <2> USE <1>4 DEF WriteConfig_OpenFails, Return
    <2>1. SettingsInRange' /\ CounterInv' /\ IntactInv' /\ FileInv' /\ SnapshotInv' /\ ResultInv'
      BY DEF SettingsInRange, CounterInv, IntactInv, FileInv, SnapshotInv, ResultInv
    <2>2. AppliedInv'
      BY DEF AppliedInv, InForce
    <2> QED
      BY <1>0, <2>1, <2>2
  <1>5. CASE WriteConfig_Close
    <2> USE <1>5 DEF WriteConfig_Close, Return
    <2>1. snapshot = s_config /\ s_config \in GoodConfig /\ s_config' = s_config
      BY <1>00 DEF SnapshotInv
    <2>2. /\ file'.magic = "CFG2" /\ file'.len = V2Size /\ file'.config = s_config
          /\ lastSaved' = s_config
      BY <2>1 DEF File
    <2>3. Loaded(file') = s_config
      BY <1>0, <2>1, <2>2, LoadedWhole DEF TypeOK, GoodConfig
    <2>4. SettingsInRange' /\ IntactInv' /\ FileInv' /\ SnapshotInv' /\ ResultInv'
      BY <2>1, <2>2, <2>3 DEF SettingsInRange, IntactInv, FileInv, SnapshotInv, ResultInv
    <2>5. CounterInv'
      BY <2>1, <2>2 DEF CounterInv
    <2>6. AppliedInv'
      BY DEF AppliedInv, InForce
    <2> QED
      BY <1>0, <2>1, <2>2, <2>4, <2>5, <2>6
  <1>6. CASE WriteConfig_Short
    <2> USE <1>6 DEF WriteConfig_Short, Return
    <2>1. FileInv'
      BY TornStep DEF TypeOK
    <2>2. SettingsInRange' /\ CounterInv' /\ IntactInv' /\ SnapshotInv' /\ ResultInv'
      BY DEF SettingsInRange, CounterInv, IntactInv, SnapshotInv, ResultInv
    <2>3. AppliedInv'
      BY DEF AppliedInv, InForce
    <2> QED
      BY <1>0, <2>1, <2>2, <2>3
  <1>7. CASE WriteConfig_FlushFails
    <2> USE <1>7 DEF WriteConfig_FlushFails, Return
    <2>1. FileInv'
      BY TornStep DEF TypeOK
    <2>2. SettingsInRange' /\ CounterInv' /\ IntactInv' /\ SnapshotInv' /\ ResultInv'
      BY DEF SettingsInRange, CounterInv, IntactInv, SnapshotInv, ResultInv
    <2>3. AppliedInv'
      BY DEF AppliedInv, InForce
    <2> QED
      BY <1>0, <2>1, <2>2, <2>3
  <1>8. ASSUME NEW u \in Updates, Config_Set(u)
        PROVE  ConfigInv'
    <2> USE <1>8 DEF Config_Set
    <2>1. u \in Update /\ u.key \in Keys /\ Argument(u) \in ValidRange(u.key)
      BY ConfigAssumption DEF Update
    <2>2. /\ s_config' \in GoodConfig
          /\ Setting(s_config', u.key) = Argument(u)
          /\ s_config'.bootCount = s_config.bootCount
      BY <1>00, <2>1, SetFieldFacts
    <2>3. u # NoUpdate
      BY <2>1 DEF NoUpdate, ValidRange
    <2>4. SettingsInRange'
      BY <2>2 DEF SettingsInRange, GoodConfig
    <2>5. CounterInv' /\ IntactInv' /\ FileInv' /\ SnapshotInv' /\ ResultInv'
      BY <2>2 DEF CounterInv, IntactInv, FileInv, SnapshotInv, ResultInv
    <2>6. AppliedInv'
      BY <2>2, <2>3 DEF AppliedInv, InForce
    <2> QED
      BY <1>0, <2>4, <2>5, <2>6
  <1>9. ASSUME NEW u \in Updates, Config_Reject(u)
        PROVE  ConfigInv'
    <2> USE <1>9 DEF Config_Reject
    <2>1. SettingsInRange' /\ CounterInv' /\ IntactInv' /\ FileInv' /\ SnapshotInv' /\ ResultInv'
      BY DEF SettingsInRange, CounterInv, IntactInv, FileInv, SnapshotInv, ResultInv
    <2>2. AppliedInv'
      BY DEF AppliedInv
    <2> QED
      BY <1>0, <2>1, <2>2
  <1>10. CASE PublishStatus
    <2> USE <1>10 DEF PublishStatus
    <2>1. SettingsInRange' /\ CounterInv' /\ IntactInv' /\ FileInv' /\ SnapshotInv' /\ ResultInv'
      BY DEF SettingsInRange, CounterInv, IntactInv, FileInv, SnapshotInv, ResultInv
    <2>2. AppliedInv'
      BY DEF AppliedInv, InForce
    <2> QED
      BY <1>0, <2>1, <2>2
  <1>11. CASE PowerLoss
    <2> USE <1>11 DEF PowerLoss
    <2>1. CounterInv'
      BY DEF CounterInv
    <2>2. SettingsInRange' /\ IntactInv' /\ FileInv' /\ SnapshotInv' /\ ResultInv'
      BY DEF SettingsInRange, IntactInv, FileInv, SnapshotInv, ResultInv
    <2>3. AppliedInv'
      BY DEF AppliedInv, NoStatus
    <2> QED
      BY <1>0, <2>1, <2>2, <2>3
  <1>12. CASE BitRot
    <2> USE <1>12 DEF BitRot
    <2>1. ~Sealed(file'.config)
      <3>1. file.config \in ConfigType
        BY DEF TypeOK, FileType
      <3>2. CASE file' = [file EXCEPT !.config.tempThreshold = (@ + 128) % 256]
        BY <3>1, <3>2 DEF TypeOK, FileType, ConfigType, Sealed, Crc32
      <3>3. CASE file' = [file EXCEPT !.config.bootCount = @ + 1]
        BY <3>1, <3>3 DEF TypeOK, FileType, ConfigType, Sealed, Crc32
      <3> QED
        BY <3>2, <3>3
    <2>2. file'.magic = "CFG2" /\ file'.len = V2Size
      BY DEF TypeOK, FileType, FileInv, V1Size, V2Size, CutPoints
    <2>3. FileInv'
      BY <2>1, <2>2 DEF FileInv
    <2>4. SettingsInRange' /\ CounterInv' /\ IntactInv' /\ SnapshotInv' /\ ResultInv'
      BY DEF SettingsInRange, CounterInv, IntactInv, SnapshotInv, ResultInv
    <2>5. AppliedInv'
      BY DEF AppliedInv, InForce
    <2> QED
      BY <1>0, <2>3, <2>4, <2>5
  <1>13. CASE UNCHANGED vars
    BY <1>0, <1>13 DEF vars, SettingsInRange, CounterInv, IntactInv, FileInv, SnapshotInv, ResultInv,
       AppliedInv, InForce
  <1> QED
    BY <1>0, <1>1, <1>2, <1>3, <1>4, <1>5, <1>6, <1>7, <1>8, <1>9, <1>10, <1>11, <1>12, <1>13
       DEF Next, Done

\* In every reachable state the invariant holds.
LEMMA InvHolds == Spec => []ConfigInv
  BY InitInv, StepInv, PTL DEF Spec

-----------------------------------------------------------------------------
(***************************************************************************)
(* The theorems.                                                           *)
(***************************************************************************)

\* The record, the file and the state of Config_Save keep their types.
THEOREM ConfigTypeCorrect == Spec => []TypeOK
  <1>1. ConfigInv => TypeOK
    BY DEF ConfigInv
  <1> QED
    BY <1>1, InvHolds, PTL

\* Whatever updates are asked for and whatever the file went through, Config_Init
\* and the setters keep s_config sealed and within the ranges.
THEOREM SettingsStayInRange == Spec => []SettingsInRange
  <1>1. ConfigInv => SettingsInRange
    BY DEF ConfigInv
  <1> QED
    BY <1>1, InvHolds, PTL

\* After any power losses, failed writes and corrupted bytes, Config_Init finds the
\* record last written whole, or takes the defaults: never a mixture.
THEOREM BootFindsWholeRecord == Spec => []RestoredWhole
  <1>1. ConfigInv => RestoredWhole
    BY LoadedFacts DEF ConfigInv, TypeOK, RestoredWhole
  <1> QED
    BY <1>1, InvHolds, PTL

\* When Config_Save returned pdPASS the next boot finds what is in memory, unless
\* the flush in fclose failed or the storage lost a byte; and an update announced as
\* applied is in force.
THEOREM SaveResultsHonest == Spec => []SaveResultHonest
  <1>1. ConfigInv => SaveResultHonest
    BY DEF ConfigInv, ResultInv, AppliedInv, InForce, SaveResultHonest
  <1> QED
    BY <1>1, InvHolds, PTL

\* bootCount counts the boots through migrations, updates and power cycles, as long
\* as every save succeeds.
THEOREM BootsCounted == Spec => []BootCounter
  <1>1. ConfigInv => BootCounter
    BY DEF ConfigInv, CounterInv, BootCounter
  <1> QED
    BY <1>1, InvHolds, PTL

\* Config_Init restores the settings last written, from either format, however often
\* the file could not be opened.
THEOREM BootRestoresSettings == Spec => SettingsSurvive
  <1>1. ConfigInv /\ [Next]_vars => [failed \subseteq {"open"} => RestoresSettings]_vars
    <2> SUFFICES ASSUME ConfigInv, failed \subseteq {"open"}, Config_Init
                 PROVE  Settings(s_config') = Settings(lastSaved)
      BY DEF RestoresSettings
    <2>1. Loaded(file) = lastSaved /\ lastSaved \in GoodConfig
      BY DEF ConfigInv, IntactInv, Config_Init
    <2> QED
      BY <2>1, CountBootFacts DEF Config_Init
  <1> QED
    BY <1>1, InvHolds, PTL DEF Spec, SettingsSurvive
=============================================================================

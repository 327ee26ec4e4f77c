----------------------------- MODULE RuntimeConfig -----------------------------
(***************************************************************************)
(* The persistent configuration: runtime_config.c over the file backend of *)
(* storage_backend_posix.c, with its one writer after start-up, the        *)
(* ConfigManager task of app_tasks.c.  The device may lose power, and the  *)
(* storage may fail, at the points that the constant Faults allows.        *)
(*                                                                         *)
(* The other tasks read s_config under s_configLock (Config_GetSnapshot):  *)
(* what they can see is the value of s_config between two steps.           *)
(***************************************************************************)
EXTENDS DeviceConfig

CONSTANTS
  Updates,          \* payloads of CONFIG_UPDATE
  InitialFiles,     \* device_config.nvm when the device is first switched on
  Faults,           \* what may go wrong, see FaultKinds
  MaxBoots          \* bound: number of boots

(***************************************************************************)
(* "crash": power is lost in the middle of a configuration change (it may  *)
(* always be lost when none is in progress).  "open": fopen fails.         *)
(* "short": fwrite reports fewer bytes.  "flush": the 28 bytes sit in the  *)
(* stdio buffer and writing them out in fclose fails.  "rot": a byte of    *)
(* the stored record changes.                                              *)
(***************************************************************************)
FaultKinds == {"crash", "open", "short", "flush", "rot"}

(***************************************************************************)
(* The file: its magic, how many bytes it has, and the fields they hold.   *)
(* An absent file and an empty one are read alike.                         *)
(***************************************************************************)
V1Size == 24        \* sizeof(DeviceConfigV1_t)
V2Size == 28        \* sizeof(DeviceConfig_t)

File(magic, len, c) == [magic |-> magic, len |-> len, config |-> c]
EmptyFile == File("CFG2", 0, configLoadDefaults)

\* The record as far as its first n bytes hold it, zeros after them; a cut falls
\* between two fields.
CutPoints == {0, 10, 16, 20, 24}
Prefix(c, n) ==
  [tempThreshold |-> IF n >= 10 THEN c.tempThreshold ELSE 0,
   lowVoltageDecivolts |-> IF n >= 10 THEN c.lowVoltageDecivolts ELSE 0,
   diagnosticPeriodMs |-> IF n >= 16 THEN c.diagnosticPeriodMs ELSE 0,
   framePeriodMs |-> IF n >= 20 THEN c.framePeriodMs ELSE 0,
   bootCount |-> IF n >= 24 THEN c.bootCount ELSE 0,
   crc32 |-> NoCrc]
TornFile(c, n) == File("CFG2", n, Prefix(c, n))

FileType == [magic : {"CFG1", "CFG2"}, len : CutPoints \cup {V2Size}, config : ConfigType]

\* A device that is first switched on has no file, or one that this program or
\* the one of the old format left there.
ASSUME ConfigAssumption ==
  /\ Updates \subseteq Update
  /\ Faults \subseteq FaultKinds
  /\ MaxBoots \in Nat
  /\ \A f \in InitialFiles :
       \/ f = EmptyFile
       \/ /\ f \in FileType
          /\ <<f.magic, f.len>> \in {<<"CFG1", V1Size>>, <<"CFG2", V2Size>>}
          /\ Sealed(f.config) /\ InRange(f.config)
          /\ f.config.bootCount <= MaxBoots

VARIABLES
  file,             \* device_config.nvm
  s_config,         \* s_config
  snapshot,         \* the copy that Config_Save writes
  pc,               \* where the program is
  update,           \* the update that ConfigManager is applying
  result,           \* what the last Config_Save or setter returned
  status,           \* history: the last DEVICE_STATUS of ConfigManager
  boots,            \* history: the boots of the device so far
  lastSaved,        \* history: the record last written whole
  failed            \* history: the faults that have happened

vars == <<file, s_config, snapshot, pc, update, result, status, boots, lastSaved, failed>>

NoStatus == [update |-> NoUpdate, applied |-> FALSE]

Init ==
  /\ file \in InitialFiles
  /\ s_config = configLoadDefaults
  /\ snapshot = configLoadDefaults
  /\ pc = "off"
  /\ update = NoUpdate
  /\ result = FALSE
  /\ status = NoStatus
  /\ boots = file.config.bootCount
  /\ lastSaved = file.config
  /\ failed = {}

-----------------------------------------------------------------------------
(***************************************************************************)
(* Start-up.                                                               *)
(***************************************************************************)

\* Variant: the CRC is not compared.
configIsValid_NoCrc(f) == f.magic = "CFG2"

configIsValid(f) == f.magic = "CFG2" /\ Sealed(f.config)

\* The checksum of the old format has the place of the CRC.
V1IsValid(f) == f.magic = "CFG1" /\ Sealed(f.config)

configMigrateV1(c) ==
  Config(c.tempThreshold, c.lowVoltageDecivolts, c.diagnosticPeriodMs, c.framePeriodMs,
         c.bootCount)

\* What Config_Init makes of the file.
Loaded(f) ==
  CASE f.len = V2Size /\ configIsValid(f) -> f.config
    [] f.len = V1Size /\ V1IsValid(f) -> configMigrateV1(f.config)
    [] OTHER -> configLoadDefaults

\* Variant: the boot counter runs the wrong way.
CountBoot_Down(c) == Seal([c EXCEPT !.bootCount = @ - 1])

\* Variant: the boot is not counted.
CountBoot_Missing(c) == Seal(c)

\* Variant: of the record that was found only the boot count is taken over.
CountBoot_NotCopied(c) == Seal([configLoadDefaults EXCEPT !.bootCount = c.bootCount + 1])

CountBoot(c) == Seal([c EXCEPT !.bootCount = @ + 1])

\* Config_Init up to its call of Config_Save.
Config_Init ==
  /\ pc = "off"
  /\ boots < MaxBoots
  /\ s_config' = CountBoot(Loaded(file))
  /\ update' = NoUpdate
  /\ pc' = "save"
  /\ boots' = boots + 1
  /\ UNCHANGED <<file, snapshot, result, status, lastSaved, failed>>

(***************************************************************************)
(* Config_Save and StorageBackend_WriteConfig.  Config_Init runs it before *)
(* the scheduler starts, ConfigManager from the setters: never both.       *)
(***************************************************************************)

Config_Save ==
  /\ pc = "save"
  /\ s_config' = Seal(s_config)
  /\ snapshot' = Seal(s_config)
  /\ pc' = "open"
  /\ UNCHANGED <<file, update, result, status, boots, lastSaved, failed>>

\* Config_Save returns r to Config_Init or to a setter, which returns it.
Return(r) ==
  /\ result' = r
  /\ pc' = IF update = NoUpdate THEN "idle" ELSE "status"
  /\ UNCHANGED <<s_config, snapshot, update, status, boots>>

\* fopen(..., "wb") truncates the file.
WriteConfig_Open ==
  /\ pc = "open"
  /\ file' = EmptyFile
  /\ pc' = "write"
  /\ UNCHANGED <<s_config, snapshot, update, result, status, boots, lastSaved, failed>>

WriteConfig_OpenFails ==
  /\ "open" \in Faults
  /\ pc = "open"
  /\ Return(FALSE)
  /\ failed' = failed \cup {"open"}
  /\ UNCHANGED <<file, lastSaved>>

\* fwrite fills the stdio buffer and fclose writes it out.
WriteConfig_Close ==
  /\ pc = "write"
  /\ file' = File("CFG2", V2Size, snapshot)
  /\ lastSaved' = snapshot
  /\ Return(TRUE)
  /\ UNCHANGED failed

\* Variant: the count that fwrite returns is not compared with size.
WriteConfig_Short_Passes ==
  /\ "short" \in Faults
  /\ pc = "write"
  /\ \E n \in CutPoints : file' = TornFile(snapshot, n)
  /\ Return(TRUE)
  /\ failed' = failed \cup {"short"}
  /\ UNCHANGED lastSaved

\* fwrite returns less than size.
WriteConfig_Short ==
  /\ "short" \in Faults
  /\ pc = "write"
  /\ \E n \in CutPoints : file' = TornFile(snapshot, n)
  /\ Return(FALSE)
  /\ failed' = failed \cup {"short"}
  /\ UNCHANGED lastSaved

\* The result of fclose is not looked at.
WriteConfig_FlushFails ==
  /\ "flush" \in Faults
  /\ pc = "write"
  /\ \E n \in CutPoints : file' = TornFile(snapshot, n)
  /\ Return(TRUE)
  /\ failed' = failed \cup {"flush"}
  /\ UNCHANGED lastSaved

-----------------------------------------------------------------------------
(***************************************************************************)
(* ConfigManager: one CONFIG_UPDATE from its receipt to the DEVICE_STATUS. *)
(***************************************************************************)

Config_Set(u) ==
  /\ pc = "idle"
  /\ Argument(u) \in ValidRange(u.key)
  /\ s_config' = SetField(s_config, u.key, Argument(u))
  /\ update' = u
  /\ pc' = "save"
  /\ UNCHANGED <<file, snapshot, result, status, boots, lastSaved, failed>>

Config_Reject(u) ==
  /\ pc = "idle"
  /\ Argument(u) \notin ValidRange(u.key)
  /\ result' = FALSE
  /\ update' = u
  /\ pc' = "status"
  /\ UNCHANGED <<file, s_config, snapshot, status, boots, lastSaved, failed>>

\* DEVICE_STATUS carries 1 for pdPASS and 2 for pdFAIL.
PublishStatus ==
  /\ pc = "status"
  /\ status' = [update |-> update, applied |-> result]
  /\ pc' = "idle"
  /\ UNCHANGED <<file, s_config, snapshot, update, result, boots, lastSaved, failed>>

(***************************************************************************)
(* The environment.                                                        *)
(***************************************************************************)

PowerLoss ==
  /\ pc = "idle" \/ (pc # "off" /\ "crash" \in Faults)
  /\ pc' = "off"
  /\ s_config' = configLoadDefaults
  /\ snapshot' = configLoadDefaults
  /\ update' = NoUpdate
  /\ result' = FALSE
  /\ status' = NoStatus
  /\ failed' = IF pc = "idle" THEN failed ELSE failed \cup {"crash"}
  /\ UNCHANGED <<file, boots, lastSaved>>

BitRot ==
  /\ "rot" \in Faults
  /\ file.len = V2Size
  /\ Sealed(file.config)                  \* bound: one change at a time
  /\ \/ file' = [file EXCEPT !.config.tempThreshold = (@ + 128) % 256]
     \/ file' = [file EXCEPT !.config.bootCount = @ + 1]
  /\ failed' = failed \cup {"rot"}
  /\ UNCHANGED <<s_config, snapshot, pc, update, result, status, boots, lastSaved>>

\* The bound MaxBoots is reached.
Done == pc = "off" /\ boots = MaxBoots /\ UNCHANGED vars

Next ==
  \/ Config_Init
  \/ Config_Save
  \/ WriteConfig_Open
  \/ WriteConfig_OpenFails
  \/ WriteConfig_Close
  \/ WriteConfig_Short
  \/ WriteConfig_FlushFails
  \/ \E u \in Updates : Config_Set(u) \/ Config_Reject(u)
  \/ PublishStatus
  \/ PowerLoss
  \/ BitRot
  \/ Done

Spec == Init /\ [][Next]_vars

-----------------------------------------------------------------------------
(***************************************************************************)
(* Properties.                                                             *)
(***************************************************************************)

TypeOK ==
  /\ file \in FileType
  /\ s_config \in ConfigType /\ snapshot \in ConfigType
  /\ pc \in {"off", "save", "open", "write", "idle", "status"}
  /\ update \in Update
  /\ result \in BOOLEAN
  /\ status \in [update : Update, applied : BOOLEAN]
  /\ boots \in 0 .. MaxBoots
  /\ lastSaved \in ConfigType
  /\ failed \subseteq Faults

\* Whatever tears or corrupts the file, the next boot finds in it the record
\* that was last written whole, or falls back to the defaults: never a mixture and
\* never an older record ("CRC32 validation", config_schema.md).
RestoredWhole == Loaded(file) \in {lastSaved, configLoadDefaults}

\* In every state that another task can take a snapshot of, each setting is in
\* the range its setter accepts and the record is sealed, whatever the update
\* asked for and whatever an earlier boot, a power loss or a fault left in the file.
SettingsInRange == pc # "off" => InRange(s_config) /\ Sealed(s_config)

\* If Config_Save reported success then the file holds what is in memory, and the
\* next boot finds it, whatever open and write failures and power losses came
\* before.  (fclose is not checked: a failed flush is reported as success.)  And an
\* update that ConfigManager reported as applied is in force with the value that was
\* asked for, if that fits in the type of the setter's parameter.
SaveResultHonest ==
  pc = "idle" =>
    /\ result /\ failed \cap {"flush", "rot"} = {} => Loaded(file) = s_config
    /\ status.applied /\ status.update.value = Argument(status.update) =>
         Setting(s_config, status.update.key) = status.update.value

\* bootCount is a "persistent boot counter" (config_schema.md): as long as every
\* save succeeds it counts the boots, through migration and configuration changes.
BootCounter == pc # "off" /\ failed = {} => s_config.bootCount = boots

RestoresSettings == Config_Init => Settings(s_config') = Settings(lastSaved)

\* A boot restores the settings that were last written, those of the old format
\* included, even if some saves could not open the file.
SettingsSurvive == [][failed \subseteq {"open"} => RestoresSettings]_vars

\* "without wiping user settings" (faqs.txt): the same when power may be lost in
\* the middle of a save.
SettingsSurvivePowerLoss == [][failed \subseteq {"crash"} => RestoresSettings]_vars
=============================================================================

------------------------------ MODULE DeviceConfig ------------------------------
(***************************************************************************)
(* The configuration record of runtime_config.h, what its setters accept   *)
(* and do, and the conversion that ConfigManager makes before it calls     *)
(* them.  RuntimeConfig adds the file, AppTasks the tasks.                 *)
(***************************************************************************)
EXTENDS Naturals

Keys == {"TEMP_THRESHOLD", "DIAG_PERIOD_MS", "LOW_VOLTAGE_DV", "FRAME_PERIOD_MS", "UNKNOWN"}
Update == [key : Keys, value : Nat]
NoUpdate == [key |-> "UNKNOWN", value |-> 0]

(***************************************************************************)
(* DeviceConfig_t.  The CRC is taken to detect every change: it is the     *)
(* tuple of the fields it covers.  magic, version and size are constant in *)
(* memory; in the file they tell the formats apart.                        *)
(***************************************************************************)
Crc32(c) == <<c.tempThreshold, c.lowVoltageDecivolts, c.diagnosticPeriodMs,
              c.framePeriodMs, c.bootCount>>
NoCrc == <<>>

ConfigType ==
  [tempThreshold : 0 .. 255, lowVoltageDecivolts : 0 .. 255, diagnosticPeriodMs : Nat,
   framePeriodMs : Nat, bootCount : Nat, crc32 : {NoCrc} \cup Nat \X Nat \X Nat \X Nat \X Nat]

Seal(c) == [c EXCEPT !.crc32 = Crc32(c)]
Sealed(c) == c.crc32 = Crc32(c)

Settings(c) == [temp |-> c.tempThreshold, low |-> c.lowVoltageDecivolts,
                diag |-> c.diagnosticPeriodMs, frame |-> c.framePeriodMs]

Config(temp, low, diag, frame, boot) ==
  Seal([tempThreshold |-> temp, lowVoltageDecivolts |-> low, diagnosticPeriodMs |-> diag,
        framePeriodMs |-> frame, bootCount |-> boot, crc32 |-> NoCrc])

configLoadDefaults == Config(35, 33, 5000, 2800, 0)

\* The switch converts the value to the type of the setter's parameter.
Argument(u) ==
  IF u.key \in {"TEMP_THRESHOLD", "LOW_VOLTAGE_DV"} THEN u.value % 256 ELSE u.value

\* What the setters accept.
TempThresholdRange == 5 .. 80
LowVoltageRange == 20 .. 50
DiagnosticPeriodRange == 1000 .. 60000
FramePeriodRange == 500 .. 30000

\* Each setting is in the range its setter accepts.
InRange(c) ==
  /\ c.tempThreshold \in TempThresholdRange
  /\ c.lowVoltageDecivolts \in LowVoltageRange
  /\ c.diagnosticPeriodMs \in DiagnosticPeriodRange
  /\ c.framePeriodMs \in FramePeriodRange

\* Variant: the lower bound of the temperature threshold is not checked.
ValidRange_NoLowerBound(key) ==
  CASE key = "TEMP_THRESHOLD" -> 0 .. 80
    [] key = "LOW_VOLTAGE_DV" -> LowVoltageRange
    [] key = "DIAG_PERIOD_MS" -> DiagnosticPeriodRange
    [] key = "FRAME_PERIOD_MS" -> FramePeriodRange
    [] OTHER -> {}

\* The setter that a key selects; an unknown key reaches none.
ValidRange(key) ==
  CASE key = "TEMP_THRESHOLD" -> TempThresholdRange
    [] key = "LOW_VOLTAGE_DV" -> LowVoltageRange
    [] key = "DIAG_PERIOD_MS" -> DiagnosticPeriodRange
    [] key = "FRAME_PERIOD_MS" -> FramePeriodRange
    [] OTHER -> {}

FieldOf == [TEMP_THRESHOLD |-> "tempThreshold", LOW_VOLTAGE_DV |-> "lowVoltageDecivolts",
            DIAG_PERIOD_MS |-> "diagnosticPeriodMs", FRAME_PERIOD_MS |-> "framePeriodMs"]

\* The assignment of the setter, with the CRC, in one critical section.
SetField(c, key, v) == Seal([c EXCEPT ![FieldOf[key]] = v])

Setting(c, key) == c[FieldOf[key]]
=================================================================================

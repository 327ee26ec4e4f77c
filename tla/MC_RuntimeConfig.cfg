SPECIFICATION Spec
CONSTANTS
  Updates <- MCUpdates
  InitialFiles <- SomeFiles
  Faults = {"crash", "open", "short", "flush", "rot"}
  MaxBoots = 3
INVARIANTS TypeOK RestoredWhole SettingsInRange SaveResultHonest BootCounter
PROPERTIES SettingsSurvive

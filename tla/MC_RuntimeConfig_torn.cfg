SPECIFICATION Spec
CONSTANTS
  Updates <- MCUpdates
  InitialFiles <- SomeFiles
  Faults = {"crash"}
  MaxBoots = 3
PROPERTIES SettingsSurvivePowerLoss

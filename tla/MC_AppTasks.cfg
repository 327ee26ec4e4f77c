SPECIFICATION Spec
CONSTANTS
  Starts <- MCStarts
  TempDeltas <- MCTempDeltas
  VoltDeltas <- MCVoltDeltas
  QueueLength <- MCQueueLength
  MaxRounds = 2
INVARIANTS TypeOK SettingsAsCommanded OneAnswerEach AlertsCurrent
PROPERTIES FaultAnnounced ReactionsDieOut

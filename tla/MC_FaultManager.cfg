SPECIFICATION Spec
CONSTANTS
  Signals <- MCSignals
  FAULT_HISTORY_DEPTH = 2
  FAULT_DEBOUNCE_TICKS = 2
  MaxSignals = 4
  MaxTicks = 4
INVARIANTS TypeOK RingHoldsLatest SuppressedOnlyIfRecent StateTracksLatest
PROPERTIES StateAnnounced

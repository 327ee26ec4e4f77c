SPECIFICATION Spec
CONSTANTS
  network = network  diagnostics = diagnostics
  TaskIds = {network, diagnostics}
  WATCHDOG_TIMEOUT = 3
  WATCHDOG_CHECK_PERIOD = 1
  WATCHDOG_QUEUE_DEPTH = 2
  Delays <- MCDelays
  Spacing = 1
  Latency = 1
  MaxTicks = 7
INVARIANTS TypeOK NoFalseAlarm StallReported

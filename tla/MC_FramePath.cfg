SPECIFICATION FrameSpec
CONSTANTS
  Sensor = sensor  power = power  NoTask = NoTask
  frameReady = frameReady  reading = reading  fault = fault
  storage = storage  cloud = cloud
  sensorId = sensorId  powerId = powerId  healthId = healthId  none = none
  Topics = {frameReady, reading, fault}
  Queues = {storage, cloud}
  Tasks = {sensor, power}
  Sources = {sensorId, powerId, healthId}
  Payloads <- MCPayloads
  NoPayload = none
  ZeroSource = sensorId
  CallSites <- MCCallSites
  FrameSite <- MCFrameSite
  FaultSite <- MCFaultSite
  Subscriptions <- MCSubscriptions
  QueueLength <- MCQueueLength
  MAX_SUBSCRIBERS_PER_TOPIC = 3
  StatsTopic = reading
  MaxEvents = 1
  MaxFrames = 3
  PAYLOAD_POOL_BLOCKS = 2
  RefCountModulus = 4
INVARIANTS FrameIntact
PROPERTIES ImplementsContract FaultMeansExhausted BlockReturns

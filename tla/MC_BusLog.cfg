SPECIFICATION LogSpec
CONSTANTS
  p1 = p1  p2 = p2  wd = wd  t1 = t1  t2 = t2  q1 = q1  q2 = q2  q3 = q3
  s1 = s1  s2 = s2  none = none  NoTask = NoTask
  Topics = {t1, t2}
  Queues = {q1, q2, q3}
  Tasks = {p1, p2, wd}
  Sources = {s1, s2}
  Payloads = {none}
  NoPayload = none
  ZeroSource = s1
  CallSites <- OwnSources
  Subscriptions <- MCSubscriptions
  QueueLength <- MCQueueLength
  MAX_SUBSCRIBERS_PER_TOPIC = 2
  StatsTopic = t1
  MaxEvents = 3
INVARIANTS TypeOK LockOwner StatsBalance SnapshotConsistent DropCountExact
  DeliveredExact SentCountExact
  StampedInOrder EventIdIdentifies
PROPERTIES PublishCompletes ImplementsTopicLog

SPECIFICATION Spec
CONSTANTS
  s1 = s1
  s2 = s2
  w1 = w1
  w2 = w2
  NoOne = NoOne
  Crashed = Crashed
  Item = {1, 2, 3}
  Subscriber = {s1}
  SubscriberOf <- OneSubscriber
  HighPriority = {}
  Direct = {2}
  AsyncAtStart = {{}, {s1}}
  Worker = {w1, w2}
  MaxRetry = 1
  QueryLimit = 2
  MaxCopies = 1
  SentCap = 3
  Faults <- AckFaults
SYMMETRY WorkerSymmetry
INVARIANTS OneTransmitter NoStrandedEntry SendsBounded
PROPERTIES SyncInOrder SyncRetryWaits ImplementsDelivery

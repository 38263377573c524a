SPECIFICATION Spec
CONSTANTS
  s1 = s1
  s2 = s2
  w1 = w1
  w2 = w2
  NoOne = NoOne
  Crashed = Crashed
  Item = {1}
  Subscriber = {s1}
  SubscriberOf <- OneSubscriber
  HighPriority = {1}
  Direct = {}
  AsyncAtStart = {{}}
  Worker = {w1, w2}
  MaxRetry = 0
  QueryLimit = 1
  MaxCopies = 1
  SentCap = 1
  Faults <- AllFaults
SYMMETRY WorkerSymmetry
INVARIANTS TypeOK SuccessWasSent

SPECIFICATION FairPublishingSpec
CONSTANTS
  s1 = s1
  NoOne = NoOne
  Crashed = Crashed
  Item = {1, 2}
  Subscriber = {s1}
  SubscriberOf <- OneSubscriber
  HighPriority = {}
  Direct = {}
  AsyncAtStart = {{}}
  Worker = {w1, w2}
  MaxRetry = 1
  QueryLimit = 2
  MaxCopies = 1
  SentCap = 2
  Faults = {"publish"}
  Entry = {1, 2}
  Editor = {e1, e2}
  Requests = {"publish", "kill"}
  Matches <- AllMatch
  KillToMatching = FALSE
  EnqueueWorker = {w3}
  PostCap = 2
  EnqueueFaults = {}
INVARIANTS FollowUpsReachReaders
PROPERTIES OlderOnlyByRetry ImplementsDelivery EventuallyDone

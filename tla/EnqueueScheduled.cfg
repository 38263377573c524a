SPECIFICATION FairSpec
CONSTANTS
  s1 = s1
  s2 = s2
  w1 = w1
  w2 = w2
  e1 = e1
  e2 = e2
  NoOne = NoOne
  Crashed = Crashed
  Entry = {1, 2}
  Subscriber = {s1}
  Worker = {w1}
  Editor = {e1, e2}
  Requests <- ScheduleRequests
  Matches <- AllMatch
  KillToMatching = FALSE
  PostCap = 2
  Faults <- LooseFaults
INVARIANTS TypeOK NothingEarly
PROPERTIES EventuallyEnqueued

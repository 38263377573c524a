SPECIFICATION Spec
CONSTANTS
  Article = {1, 2}
  Refs <- MCRefs
  Initial <- MCInitial
  LastVersion <- MCLast
  Audience = {1}
  Worker = {w1}
  Command = command
  BatchSize = 1
  MaxFaults = 1
INVARIANT NoOrphans
PROPERTIES LinksExpire LegalKeepsAll ArchivedComplete EventuallyRemoved
CHECK_DEADLOCK FALSE

SPECIFICATION FairSpec
CONSTANTS
  None = None
  Users = {u1}
  Workers = {w1, w2}
  MaxCycles = 2
  MaxArrivals = 1
  MaxMishaps = 2
CHECK_DEADLOCK FALSE
INVARIANTS
  OneMessagePerBacklog
  SentMeansSent
PROPERTIES
  NoUrgeOnceHandled
  SentMessagesAreResolved

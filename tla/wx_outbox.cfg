SPECIFICATION FairSpec
CONSTANTS
  None = None
  Deliveries = {d1}
  Workers = {w1, w2, w3}
  MaxMishaps = 4
CHECK_DEADLOCK FALSE
INVARIANTS
  AtMostOnce
  RowTellsTheTruth
PROPERTIES
  VerdictsAreFinal
  EveryMessageSettles
  KeepsPromise

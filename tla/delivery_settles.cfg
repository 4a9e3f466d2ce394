SPECIFICATION FairSpec
CONSTANTS
  None = None
  Orders = {o1}
  Kinds = {"email", "invite", "result", "application"}
  Workers = {w1, w2}
  MaxRetries = 2
  MaxMishaps = 2
INVARIANTS
  OnePromotionAtATime
PROPERTIES
  SuccessIsFinal
  FailedWaitsForUser
  DeliverySettles

SPECIFICATION FairSpec
CONSTANTS
  None = None
  Orders = {o1}
  BenefitOrders = {}
  Attempts = {a1, a2}
  VirtualAttempts = {a1}
  Callbacks = {c1, c2}
  SchoolAdmins = {}
  Beneficiaries = {}
  FailureReports = TRUE
CHECK_DEADLOCK FALSE
PROPERTIES
  VirtualPaymentHonoured

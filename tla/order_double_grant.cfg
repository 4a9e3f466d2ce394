SPECIFICATION Spec
CONSTANTS
  None = None
  Orders = {o1}
  BenefitOrders = {}
  Attempts = {a1}
  VirtualAttempts = {a1}
  Callbacks = {c1}
  SchoolAdmins = {}
  Beneficiaries = {}
  FailureReports = FALSE
CHECK_DEADLOCK FALSE
INVARIANTS
  BenefitGrantedOnce

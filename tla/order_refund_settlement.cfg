SPECIFICATION Spec
CONSTANTS
  None = None
  Orders = {o1}
  BenefitOrders = {o1}
  Attempts = {a1}
  VirtualAttempts = {a1}
  Callbacks = {c1}
  SchoolAdmins = {s1, s2}
  Beneficiaries = {b1, b2}
  FailureReports = FALSE
SYMMETRY MCSymmetry
INVARIANTS
  RefundFreezesSettlement
  PayoutsNeverRepeat
PROPERTIES
  RefundDecidedOnce

SPECIFICATION Spec
CONSTANTS
  None = None
  Orders = {o1}
  BenefitOrders = {}
  Attempts = {a1, a2}
  VirtualAttempts = {}
  Callbacks = {c1, c2}
  SchoolAdmins = {s1}
  Beneficiaries = {b1}
  FailureReports = TRUE
SYMMETRY MCSymmetry
INVARIANTS
  BenefitGrantedOnce
  RefundedOrderNeverPaidAgain
  PaidOrderHasItsPayment

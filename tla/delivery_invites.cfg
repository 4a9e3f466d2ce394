SPECIFICATION Spec
CONSTANTS
  None = None
  Orders = {o1, o2}
  Kinds = {"invite"}
  Workers = {w1, w2}
  MaxRetries = 1
  MaxMishaps = 2
SYMMETRY MCSymmetry
INVARIANTS
  SuccessMeansAccepted

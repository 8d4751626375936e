SPECIFICATION Spec
CONSTANTS
  Half = 8
  Size = 4
  Users = {u1, u2, u3, u4}
  NoUser = NoUser
SYMMETRY UserSymmetry
INVARIANTS
  Labelled
  Ownership
  BeyondIsGe
CHECK_DEADLOCK FALSE

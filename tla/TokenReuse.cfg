\* Two requests at once; the documented single use of a reset token is checked and does not hold.
SPECIFICATION Spec
CONSTANTS
  Users = {u1}
  Requests = {p1, p2}
  Tokens = {1, 2, 3}
  None = None
  Registered = Registered
SYMMETRY Symmetry
INVARIANT SingleUse
CHECK_DEADLOCK FALSE

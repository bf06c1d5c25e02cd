\* Two sign-ins at once; the documented policy is checked and does not hold.
SPECIFICATION Spec
CONSTANTS
  Users = {u1}
  Requests = {p1, p2}
  Sessions = {1, 2}
  Tokens = {1, 2}
  Passwords = {w1}
  None = None
SYMMETRY Symmetry
INVARIANT SingleActiveSession
CHECK_DEADLOCK FALSE

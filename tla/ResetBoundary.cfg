\* A login in flight while its user resets the password; the documented boundary is checked.
SPECIFICATION Spec
CONSTANTS
  Users = {u1}
  Requests = {p1, p2}
  Sessions = {1, 2}
  Tokens = {1, 2}
  Passwords = {w1, w2}
  None = None
SYMMETRY Symmetry
INVARIANT SessionsUseCurrentPassword
CHECK_DEADLOCK FALSE

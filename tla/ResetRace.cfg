\* Two resets of a user without a password; the documented reconciliation is checked and does not hold.
SPECIFICATION Spec
CONSTANTS
  Users = {u1}
  Requests = {p1, p2}
  Tokens = {1, 2, 3}
  None = None
  Registered = Registered
SYMMETRY Symmetry
INVARIANT RaceIsReconciled
CHECK_DEADLOCK FALSE

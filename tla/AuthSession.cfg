SPECIFICATION Spec
CONSTANTS
  Users = {u1}
  Requests = {p1, p2}
  Sessions = {1, 2, 3}
  Tokens = {1, 2, 3}
  Passwords = {w1}
  None = None
SYMMETRY Symmetry
INVARIANTS TypeOK SessionsHaveOwners RedeemedOnce LoginEndsWhatItSaw ActiveBoundedByConcurrency ResetEndsWhatItSaw OneLateRotation
PROPERTIES RevocationIsFinal ImplementsLedger
CHECK_DEADLOCK FALSE

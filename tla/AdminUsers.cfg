SPECIFICATION Spec
CONSTANTS
  Users = {u1, u2, u3}
  Requests = {p1, p2}
  Configured = u1
  Asked = {"user", "admin", "deleted"}
  MaxCrashes = 2
INVARIANTS TypeOK OthersCountedOnce
PROPERTIES AdminRemains ChangesAreAuthorised ApiComesUp

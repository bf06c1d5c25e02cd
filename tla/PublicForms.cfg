SPECIFICATION Spec
CONSTANTS
  MaxAttempts = 3
  Addresses = {a1, a2}
  Usable = {a1}
  Limit = 2
  Window = 3
  Second = 2
  None = None
INVARIANTS TypeOK SpentOnceAndHonest WindowBound
PROPERTIES SubmittableAgain

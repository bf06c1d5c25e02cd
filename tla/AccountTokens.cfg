SPECIFICATION Spec
CONSTANTS
  Users = {u1}
  Requests = {p1, p2}
  Tokens = {1, 2, 3}
  None = None
  Registered = Registered
SYMMETRY Symmetry
INVARIANTS
  TypeOK
  CommitEndsWhatItSaw
  LiveBoundedByConcurrency
  NoUseAfterUse
  DeadlockNeedsTwoTokens
CHECK_DEADLOCK FALSE

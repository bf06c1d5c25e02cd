SPECIFICATION Spec
CONSTANTS
  Tabs = {t1, t2}
  Callers = {t1}
  Calls = {c1, c2}
  Users = {u1}
  Sessions = {1, 2}
  Tokens = {1, 2}
  None = None
  MaxLost = 1
  MaxEvents = 1
INVARIANTS TypeOK NeverStranded
PROPERTIES WrongOnlyIfCrossed
CHECK_DEADLOCK FALSE
SYMMETRY CallsAlike

SPECIFICATION ScreenSpec
CONSTANTS
  ProductIds = {1}
  CategoryIds = {1}
  UserIds = {1, 2, 3}
  Self = 2
  PageSize = 2
  MaxOpenings = 3
  MaxLoads = 3
  MaxSent = 2
  MaxChanges = 2
  MaxMounts = 4
INVARIANTS ScreensCatchUp DeletesTakeTurns FormsSaveTheirOwn
CHECK_DEADLOCK FALSE

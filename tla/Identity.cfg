SPECIFICATION Spec
CONSTANTS
  s1 = s1
  s2 = s2
  e1 = e1
  e2 = e2
  Users = {1, 2}
  Emails = {e1, e2}
  Subs = {s1, s2}
  Requests = {p1, p2}
  Claims <- FiveClaims
  None = None
  MaxLost = 1
INVARIANTS SignsInTheHolder LinksProven LinkedIsVerified RefusedOnlyIfOverlapped
PROPERTIES AddressBecomesUsable

SPECIFICATION Spec
CONSTANTS
  c1 = c1
  c2 = c2
  r1 = r1
  r2 = r2
  r3 = r3
  None = None
  Customers = {c1, c2}
  Requests = {r1, r2, r3}
  MaxCases = 1
  Quoters = {r1, r2}
  MaxFlight = 2
SYMMETRY Symmetry
INVARIANTS
  RightCustomer
  RepeatedAnswersExplained
  
CHECK_DEADLOCK FALSE

SPECIFICATION Spec
CONSTANTS
  h1 = h1
  h2 = h2
  c1 = c1
  c2 = c2
  d1 = d1
  d2 = d2
  NoCustomer = NoCustomer
  Handlers = {h1, h2}
  Customers = {c1, c2}
  Devices = {}
  Deaf = {}
  ClaimLimit = 5
  Faults = {}
  Links = FALSE
  MaxChanges = 4
  MaxCrashes = 0
SYMMETRY CardSymmetry
INVARIANTS
  WakeIsKept

SPECIFICATION Spec
CONSTANTS
  h1 = h1
  h2 = h2
  c1 = c1
  c2 = c2
  d1 = d1
  d2 = d2
  NoCustomer = NoCustomer
  Handlers = {h1, h2}
  Customers = {c1, c2}
  Devices = {}
  Deaf = {}
  ClaimLimit = 2
  Faults = {"database", "google", "crash"}
  Links = TRUE
  MaxChanges = 4
  MaxCrashes = 1
SYMMETRY CardSymmetry
INVARIANTS
  Inv
  BacklogBounded
PROPERTIES
  JobsNotSkipped

SPECIFICATION FairSpec
CONSTANTS
  h1 = h1
  h2 = h2
  c1 = c1
  c2 = c2
  d1 = d1
  d2 = d2
  NoCustomer = NoCustomer
  Handlers = {h1, h2}
  Customers = {c1, c2}
  Devices = {d1, d2}
  Deaf = {d2}
  ClaimLimit = 2
  Faults = {"database", "crash"}
  Links = FALSE
  MaxChanges = 2
  MaxCrashes = 1
PROPERTIES
  QueuedIsShown

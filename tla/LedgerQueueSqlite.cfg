SPECIFICATION FairSpec
CONSTANTS
  h1 = h1
  h2 = h2
  h3 = h3
  c1 = c1
  c2 = c2
  r1 = r1
  r2 = r2
  NoHandler = NoHandler
  NoCustomer = NoCustomer
  NoRequest = NoRequest
  Handlers = {h1, h2, h3}
  Customers = {c1}
  ReceiptIds = {r1}
  Requests <- QueueRequests
  InitialSettings <- FullBack
  MaxOpenConns = 1
  ForUpdate = FALSE
  ColMax = 1
PROPERTIES
  Answered

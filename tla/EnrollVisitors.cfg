SPECIFICATION Spec
CONSTANTS
  h1 = h1
  h2 = h2
  k1 = k1
  k2 = k2
  k3 = k3
  ann = ann
  till = till
  joe = joe
  p1 = p1
  p2 = p2
  NoCard = NoCard
  NoPhone = NoPhone
  NoRequest = NoRequest
  Handlers = {h1, h2}
  Cards = {k1, k2, k3}
  Visitors = {ann, till, joe}
  Tills = {till}
  Phones = {p1, p2}
  Number <- EveryNumber
  Typed <- TypedByAll
SYMMETRY CardSymmetry
INVARIANTS
  Inv
  OneCard

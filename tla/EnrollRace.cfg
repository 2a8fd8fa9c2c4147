SPECIFICATION Spec
CONSTANTS
  h1 = h1
  h2 = h2
  k1 = k1
  k2 = k2
  k3 = k3
  ann = ann
  till = till
  joe = joe
  p1 = p1
  p2 = p2
  NoCard = NoCard
  NoPhone = NoPhone
  NoRequest = NoRequest
  Handlers = {h1, h2}
  Cards = {k1, k2}
  Visitors = {ann, till}
  Tills = {till}
  Phones = {p1, p2}
  Number <- EveryNumber
  Typed <- TypedByTwo
SYMMETRY CardSymmetry
INVARIANTS
  RepeatGetsCard

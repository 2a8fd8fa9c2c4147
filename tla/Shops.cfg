SPECIFICATION Spec
CONSTANTS
  h1 = h1
  h2 = h2
  mall = mall
  plaza = plaza
  ann = ann
  eve = eve
  r1 = r1
  r2 = r2
  new = new
  NoShop = NoShop
  NoStaff = NoStaff
  NoReceipt = NoReceipt
  NoText = NoText
  NoRequest = NoRequest
  Handlers = {h1, h2}
  Shops = {mall, plaza}
  Flagship = mall
  Staff = {ann, eve}
  Founders = {eve}
  Admins = {eve}
  Receipts = {r1}
  Texts = {NoText, new}
  Requests <- ShopRequests
  FirstHour = 20
  LastHour = 21
SYMMETRY HandlerSymmetry
INVARIANTS
  Inv
  RecordedOnce
  ShiftIsADay
PROPERTIES
  StaysListed
  GoneForGood

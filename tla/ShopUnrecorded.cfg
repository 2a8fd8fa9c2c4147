SPECIFICATION Spec
CONSTANTS
  h1 = h1
  h2 = h2
  mall = mall
  plaza = plaza
  ann = ann
  eve = eve
  r1 = r1
  r2 = r2
  new = new
  NoShop = NoShop
  NoStaff = NoStaff
  NoReceipt = NoReceipt
  NoText = NoText
  NoRequest = NoRequest
  Handlers = {h1, h2}
  Shops = {mall, plaza}
  Flagship = mall
  Staff = {ann, eve}
  Founders = {ann, eve}
  Admins = {eve}
  Receipts = {r1, r2}
  Texts = {NoText, new}
  Requests <- MoveRequests
  FirstHour = 20
  LastHour = 20
INVARIANTS
  Recorded

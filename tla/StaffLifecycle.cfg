SPECIFICATION Spec
CONSTANTS
  h1 = h1
  h2 = h2
  boss = boss
  ann = ann
  eve = eve
  j1 = j1
  j2 = j2
  j3 = j3
  plain = plain
  edited = edited
  NoStaff = NoStaff
  NoSession = NoSession
  NoRequest = NoRequest
  Handlers = {h1, h2}
  Staff = {boss, ann}
  Founders = {boss}
  Sessions = {j1, j2, j3}
  Profiles = {plain, edited}
  Requests <- AllRequests
  RevokeMayFail = TRUE
SYMMETRY HandlerSymmetry
INVARIANTS
  TypeOK
  LateIsRefused
PROPERTIES
  DeletedForGood

SPECIFICATION FairSpec
CONSTANTS
  h1 = h1
  h2 = h2
  NoHandler = NoHandler
  NoSave = NoSave
  NoKey = NoKey
  Handlers = {h1, h2}
  Saves <- ThreeSaves
  InitialMaps <- StartMaps
  MaxOpenConns = 1
  Amounts <- SomeAmounts
  Balances <- SomeBalances
  Asked <- SomeAsked
INVARIANTS
  Inv
  OffersAreSharp
  QuotesAddUp
  SplitsLose
  RedeemsEarnNothing
PROPERTIES
  SavedAtOnce
  SavesEnd

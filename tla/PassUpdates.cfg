SPECIFICATION FairSpec
CONSTANTS
  d1 = d1
  d2 = d2
  c1 = c1
  c2 = c2
  NoTime = NoTime
  NoPass = NoPass
  Devices = {d1}
  Cards = {c1, c2}
  PerSecond = 2
  Deadline = 1
  MaxTime = 5
  MaxPoints <- FirstTwice
  MaxRules = 1
INVARIANTS
  Inv
  OwedIsSeen
PROPERTIES
  PassesConverge

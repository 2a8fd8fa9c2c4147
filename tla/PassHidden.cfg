SPECIFICATION Spec
CONSTANTS
  d1 = d1
  d2 = d2
  c1 = c1
  c2 = c2
  NoTime = NoTime
  NoPass = NoPass
  Devices = {d1}
  Cards = {c1}
  PerSecond = 2
  Deadline = 0
  MaxTime = 6
  MaxPoints <- Twice
  MaxRules = 0
INVARIANTS
  NotModifiedIsTrue

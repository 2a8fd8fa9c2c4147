SPECIFICATION Spec
CONSTANTS
  d1 = d1
  d2 = d2
  c1 = c1
  c2 = c2
  NoTime = NoTime
  NoPass = NoPass
  Devices = {d1}
  Cards = {c1, c2}
  PerSecond = 2
  Deadline = 2
  MaxTime = 8
  MaxPoints <- Twice
  MaxRules = 0
SYMMETRY Symmetry
INVARIANTS
  ChangesAreListed

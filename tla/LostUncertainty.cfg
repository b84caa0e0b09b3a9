SPECIFICATION Spec
CONSTANTS
  Nodes = {a, b}
  Policies = {0, 1}
  MaxMoves = 1
  MaxCallFaults = 1
  MaxRestarts = 1
  MaxGeneration = 4
  ChNodes = {x, y}
  ChCounts <- SplitInTwo
  ChNone = ChNone
  ChMaxNotify = 5
  ChMaxFaults = 1
  Addresses = {p, q}
  LdNone = LdNone
  MaxStarts = 4
  MaxGiveUps = 1
INVARIANT
  ObservedIsTrue
CHECK_DEADLOCK FALSE

\* A bus that passes by and leaves, over an index without faults.
CONSTANTS
  f1 = f1
  f2 = f2
  f3 = f3
  f4 = f4
  b1 = b1
  b2 = b2
  Fixes = {f1, f2, f3, f4}
  BusOf <- MCBusOf
  TakenAt <- MCTakenAt
  Distance <- MCDistance
  Radius = 5
  Fresh = 2
  Limit = 2
  MaxClock = 3
  Batch = 2
  MaxFaults = 0
  Faults = {}
SPECIFICATION NearbySpec
PROPERTY ListsOnlyTheNear
CHECK_DEADLOCK FALSE

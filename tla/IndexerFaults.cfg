\* Four fixes of two buses, two a read, two faults of any kind, and a search.
CONSTANTS
  f1 = f1
  f2 = f2
  f3 = f3
  f4 = f4
  b1 = b1
  b2 = b2
  Fixes = {f1, f2, f3, f4}
  Batch = 2
  MaxFaults = 2
  Faults = {"timeout", "crash", "es", "group", "wipe"}
  BusOf <- MCBusOf
  TakenAt <- MCTakenAt
  Distance <- MCDistance
  Radius = 5
  Fresh = 1
  Limit = 2
  MaxClock = 2
SPECIFICATION NearbySpec
INVARIANTS TypeOK AckedIsIndexed
PROPERTIES IndexedUnlessLost NearbyIsLatest
CHECK_DEADLOCK FALSE

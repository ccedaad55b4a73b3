\* Two helpers and two buses, two trips and a fix, two requests at a time.
CONSTANTS
  Helpers = {h1, h2}
  Buses = {b1, b2}
  Requests = {r1, r2}
  MaxTrips = 2
  MaxFixes = 1
  Nobody = Nobody
  Faults = {"redis", "crash", "loss"}
SPECIFICATION Spec
SYMMETRY Symmetry
INVARIANTS TypeOK FiledRight StaleHasCause
PROPERTY BindsForward
CHECK_DEADLOCK FALSE

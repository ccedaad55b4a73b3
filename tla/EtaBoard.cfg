\* A bus that may turn back, slow passes, and every call the engine makes failing.
CONSTANTS
  Stops <- MCStops
  LastSeq = 3
  Where <- MCWhere
  Mile <- MCMile
  Offset <- MCOffset
  Unscheduled = Unscheduled
  Town <- MCTown
  Paces = {1}
  Window = 1
  Ttl = 2
  Horizon = 3
  SpeedHorizonStops = 1
  FixLimit = 2
  MaxFixes = 2
  MaxLate = 1
  AgeCap = 5
  Faults = {"search", "load", "save", "crash"}
SPECIFICATION FairSpec
INVARIANTS TypeOK OffersOnlyAhead
PROPERTY BoardFollowsTrip

\* Syncs of two devices, or a batch and its retry, at once; the ticket ends midway.
CONSTANTS
  Tickets = {k1}
  Devices = {d1, d2}
  Requests = {r1, r2}
  c1 = c1
  c2 = c2
  Codes = {c1, c2}
  Rides = 3
  Unlimited = Unlimited
  LastSlice = 0
  MaxClock = 1
  SweepBatch = 1
  TicketOf <- MCTicketOf
  CountOf <- MCPairs
  RidesOf <- MCRidesOf
  ValidTo <- MCValidTo
SPECIFICATION Spec
SYMMETRY PairsSymmetry
INVARIANTS NoOvercharge LedgerExact OneCleanSighting AlertedOnce

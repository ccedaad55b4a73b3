\* One sync at a time, with lost answers, repeated batches and the sweep.
CONSTANTS
  Tickets = {k1}
  Devices = {d1, d2}
  Requests = {r1}
  c1 = c1
  c2 = c2
  Codes = {c1, c2}
  Rides = 2
  Unlimited = Unlimited
  LastSlice = 9
  MaxClock = 2
  SweepBatch = 1
  TicketOf <- MCTicketOf
  CountOf <- MCCountOf
  RidesOf <- MCRidesOf
  ValidTo <- MCValidTo
SPECIFICATION FairSpec
INVARIANT TypeOK
PROPERTY DuplicateIsClosed

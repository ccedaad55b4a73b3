\* Two requests at each desk, and three seat reports; of the live map, three
\* devices, two connections, slow queries and every fault.  Stops and devices
\* are never in use together: with the same values one symmetry serves both.
CONSTANTS
  Alerts = {a1}
  Admins = {d1, d2}
  Phones = {p1, p2}
  MaxReports = 3
  Stops = {x1, x2, x3}
  Routes = {r1}
  Editors = {e1, e2}
  MaxLength = 2
  Ids = {i1, i2}
  Names = {n1, n2}
  Clerks = {c1, c2}
  Visits = {v1, v2}
  Links = {l1, l2}
  Cooldown = 1
  Life = 2
  MailFaults = {"redis", "crash"}
  Clients = {x1, x2, x3}
  Trips = {t1}
  b1 = b1
  Buses = {b1}
  BusOf <- MCBusOf
  Pool = 2
  RosterTtl = 2
  QueryTime = 1
  PosTtl = 2
  MaxClock = 4
  Faults = {"redis", "database", "restart"}
SPECIFICATION ConsoleSpec
SYMMETRY Symmetry
INVARIANTS ConsoleTypeOK IncidentKept SeatsFollowReports RouteWhole LinksAreSingleUse MailsAreSpaced RosterBounded PinIsFresh
PROPERTY RegisterIsAsEdited

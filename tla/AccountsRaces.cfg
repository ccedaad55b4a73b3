\* Two handlers and another request on one account, with faults.
CONSTANTS
  Users = {u1}
  Ops = {a1, a2}
  Requests = {r1}
  Faults = {"redis", "crash"}
SPECIFICATION FairSpec
INVARIANTS TypeOK StaleHasCause PendingTogether
PROPERTIES LiftedOnPurpose SuspensionPrevails

\* Two isolates, one of them asking again, over a chain of rotations.
CONSTANTS
  Requests = {r1, r2, r3}
  MaxTokens = 3
  Faults = {"redis", "crash", "loss", "slow"}
SPECIFICATION Spec
SYMMETRY Symmetry
INVARIANTS TypeOK NotSignedOut ExchangedIsRevoked
PROPERTY OneChain
CHECK_DEADLOCK FALSE

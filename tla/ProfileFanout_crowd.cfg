CONSTANTS
  Requests = {r1, r2, r3}
  Users = {u1}
  Faults = {"provider", "internal", "cache", "expiry", "disconnect"}
  None = None
SPECIFICATION Spec
SYMMETRY Symmetry
INVARIANTS TypeOK Flights WholeProfile

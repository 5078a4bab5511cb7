CONSTANTS
  Requests = {r1, r2}
  Users = {u1}
  Faults = {"provider"}
  None = None
SPECIFICATION Spec
INVARIANT CancelUnblocks

CONSTANTS
  Requests = {r1, r2}
  Users = {u1}
  Faults = {"disconnect"}
  None = None
SPECIFICATION Spec
INVARIANT OwnCancel

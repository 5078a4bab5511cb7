CONSTANTS
  Requests = {r1, r2}
  Users = {u1}
  Faults = {}
  None = None
SPECIFICATION Spec
PROPERTY WarmNeverCalls

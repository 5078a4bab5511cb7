CONSTANTS
  Browsers = {b1, b2}
  Requests = {r1, r2}
  Providers = {github, other}
  Registered = {github, other}
  Ids = {i1, i2, i3}
  Codes = {c1}
  MaxFlows = 2
  Faults = {}
  None = None
  Keep = Keep
SPECIFICATION Spec
SYMMETRY Symmetry
INVARIANTS FlowBinding OwnLogin

CONSTANTS
  Browsers = {b1}
  Requests = {r1}
  Providers = {github}
  Registered = {github}
  Ids = {i1, i2}
  Codes = {c1}
  MaxFlows = 1
  Faults = {}
  None = None
  Keep = Keep
SPECIFICATION Spec
PROPERTY ReplayAnswer

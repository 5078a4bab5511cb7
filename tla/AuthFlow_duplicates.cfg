CONSTANTS
  Browsers = {b1}
  Requests = {r1, r2}
  Providers = {github}
  Registered = {github}
  Ids = {i1, i2, i3}
  Codes = {c1, c2}
  MaxFlows = 1
  Faults = {}
  None = None
  Keep = Keep
SPECIFICATION FairSpec
PROPERTY DuplicatesOneWins

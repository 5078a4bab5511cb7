CONSTANTS
  Browsers = {b1, b2}
  Requests = {r1, r2}
  Providers = {github, unknown}
  Registered = {github}
  Ids = {i1, i2, i3}
  Codes = {c1, c2}
  MaxFlows = 1
  Faults = {"rand", "cache", "provider", "network", "expiry", "restart"}
  None = None
  Keep = Keep
SPECIFICATION Spec
SYMMETRY Symmetry
INVARIANTS TypeOK NoReplayAfterConsume OneSessionPerCode LogoutFinal ConsumesBounded SessionsPaidFor
PROPERTIES SessionLifeSpec StateLifeSpec ReplayRefused

CONSTANTS
  Requests = {r1, r2}
  Users = {u1, u2}
  Faults = {"provider", "internal", "disconnect"}
  None = None
SPECIFICATION FairSpec
INVARIANT OwnUser
PROPERTIES Answered ProfileServiceSpec

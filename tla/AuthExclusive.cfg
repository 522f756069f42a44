SPECIFICATION DropsSpec
CONSTANTS
  Procs = {p1, p2}
  Tokens = {a, b}
  NoToken = NoToken
  Devices = {}
  NoDevice = NoDevice
  Configs <- OldDevice
  Calls = {"login", "kickOut", "logout"}
  MayFail = {"saveBody", "prune"}
  MayCrash = TRUE
SYMMETRY TaskTokenSymmetry
INVARIANTS LiveIsMapped CleanRollback
PROPERTIES RevokedForever ImplementsAccount
CHECK_DEADLOCK FALSE

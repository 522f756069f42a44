SPECIFICATION Spec
CONSTANTS
  Procs = {p1, p2}
  Tokens = {a}
  NoToken = NoToken
  Devices = {}
  NoDevice = NoDevice
  Configs <- Unlimited
  Calls = {"login", "logout", "renew"}
  MayFail = {}
  MayCrash = FALSE
SYMMETRY TaskTokenSymmetry
PROPERTIES RevokedForever
CHECK_DEADLOCK FALSE

SPECIFICATION Spec
CONSTANTS
  Procs = {p1}
  Tokens = {a, b}
  NoToken = NoToken
  Devices = {}
  NoDevice = NoDevice
  Configs <- NewDevice
  Calls = {"login", "kickOutByToken"}
  MayFail = {}
  MayCrash = FALSE
SYMMETRY TaskTokenSymmetry
PROPERTIES RefusedOnlyWhenLoggedIn
CHECK_DEADLOCK FALSE

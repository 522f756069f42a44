SPECIFICATION Spec
CONSTANTS
  Procs = {p1}
  Tokens = {a, b, c}
  NoToken = NoToken
  Devices = {pc, app}
  NoDevice = NoDevice
  Configs <- Policies
  Calls = {"login", "logout", "kickOutByToken", "replacedByToken", "logoutByLoginId", "kickOut"}
  MayFail = {"probe"}
  MayCrash = FALSE
SYMMETRY DeviceTokenSymmetry
INVARIANTS QuietAgreement LoginLimits
PROPERTIES AccountCallComplete LoginReturnsLive
CHECK_DEADLOCK FALSE

SPECIFICATION Spec
CONSTANTS
  Procs = {p1, p2}
  Tokens = {a, b}
  NoToken = NoToken
  Devices = {}
  NoDevice = NoDevice
  Configs <- Exclusives
  Calls = {"login", "renew", "kickOutByToken"}
  MayFail = {"rollback", "mark", "countTerminals"}
  MayCrash = FALSE
PROPERTIES KickedOutForever

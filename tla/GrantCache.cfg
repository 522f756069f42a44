SPECIFICATION Spec
CONSTANTS
  Procs = {p1, p2, p3}
  Accounts = {a}
  Grants = {g}
  Gates = {g1, g2, g3, g4}
  NoTask = NoTask
  NoGate = NoGate
  NoKey = NoKey
  NoGrant = NoGrant
  MaxPerShard = 1
  Modes <- BothModes
  MayFail = TRUE
  MaxCalls = 3
SYMMETRY GrantSymmetry
INVARIANTS CacheCurrent ReadRecent ReadYourWrites Bounded OneLoad
CHECK_DEADLOCK FALSE

SPECIFICATION LoginsSpec
CONSTANTS
  Tasks = {t1, t2}
  Nil = Nil
  MayFail = TRUE
  MaxCalls = 3
  LoginTokens = {1, 2}
  KeepTokenSession = FALSE
INVARIANTS NothingLeft BanKeepsOut
SYMMETRY TaskSymmetry
CHECK_DEADLOCK FALSE

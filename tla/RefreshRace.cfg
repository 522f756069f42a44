SPECIFICATION Spec
CONSTANTS
  Procs = {p1, p2}
  Access = {a1, a2, a3, a4}
  Refresh = {r1, r2}
  NoAccess = NoAccess
  NoRefresh = NoRefresh
  LoginTypes = {"default"}
  DefaultType = "default"
  MayAbort = TRUE
  MaxCalls = 4
SYMMETRY RefreshSymmetry
INVARIANTS SupersededDead OneAccessPerLogin RefreshSynchronised RevokedStaysRevoked NoLateGrant
CHECK_DEADLOCK FALSE

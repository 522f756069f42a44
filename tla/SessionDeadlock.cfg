SPECIFICATION DsFairSpec
CONSTANTS
  Tasks = {t1, t2}
  Nil = Nil
  Logins = {u}
  Sessions = {s1}
  Carried = {c1}
  Storages = {"memory"}
  MayFail = FALSE
  MaxCalls = 3
PROPERTIES SessionCallsReturn
CHECK_DEADLOCK FALSE


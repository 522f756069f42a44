SPECIFICATION StSpec
CONSTANTS
  Tasks = {t1, t2, t3}
  Nil = Nil
  Secrets = {s1, s2, s3, s4, s5}
  MayFail = FALSE
  SecretsExpire = FALSE
  MaxCalls = 5
INVARIANTS GraceAccepted
CHECK_DEADLOCK FALSE

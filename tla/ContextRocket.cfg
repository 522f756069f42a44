SPECIFICATION RcSpec
CONSTANTS
  Tasks = {t1, t2}
  Nil = Nil
  MayFail = FALSE
  MaxCalls = 3
  Visitors = {alice, bob}
  Places <- SitePlaces
  Paths <- SitePaths
  Rules <- SiteRules
  Workers = {w1}
  Layers <- RocketLayer
INVARIANTS ActsAsItself
CHECK_DEADLOCK FALSE

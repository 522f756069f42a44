SPECIFICATION ServicesSpec
CONSTANTS
  Focused = {"sameToken", "sso", "oauth2", "sessions", "tempTokens", "nonces",
             "presence", "backends", "permissions", "events", "keys",
             "contexts"}
  Tasks = {t1, t2}
  Nil = Nil
  MayFail = TRUE
  MaxCalls = 4
  Secrets = {1, 2, 3, 4}
  SecretsExpire = TRUE
  Users = {u}
  Services = {a, b}
  Allowed = {a, b}
  Tickets = {1, 2}
  Attempts = 2
  Redeemers = {"server", "local"}
  Clients = {c, d}
  Public = {c}
  RequirePkce = FALSE
  Codes = {code1}
  Ids = {1, 2, 3}
  Logins = {u}
  Sessions = {1, 2}
  Carried = {1, 2}
  Storages = {"memory", "stored"}
  TempIds = {1, 2}
  Values = {v}
  Retries = 2
  Signed = {r}
  LoginNonces = {n}
  Second = 2
  Window = 1
  Timeout = 1
  Skews <- SignersSkew
  MaxTime = 4
  LoginTypes = {"default", "admin"}
  LoginIds = {u}
  ConnTokens = {x}
  EntriesExpire = TRUE
  Stores = {"memory", "database"}
  ScalarKeys = {key}
  ListKeys = {list}
  TimedLists = {list}
  Contents = {e1, e2}
  EntryTtl = 1
  LastSecond = 4
  Words = {word, other}
  Starred = {starred}
  MaxSegments = 2
  Modes = {"sequential", "concurrent", "detached"}
  Listeners = {l}
  Events = {1, 2}
  MaxListed = 2
  Timed = TRUE
  Long = {"nonces", "sessions", "contexts"}
  LongCalls = 3
  Layouts = {"three", "four"}
  AccountTypes <- KeyTypes
  AccountIds <- KeyIds
  Opaque = {"x", "y"}
  Visitors = {alice, bob}
  Places <- SitePlaces
  Paths <- SitePaths
  Rules <- SiteRules
  Workers = {w1}
  Layers <- ScopedLayers
INVARIANTS SecretNotSplit HeldIsAccepted TicketOnce LogoutTellsAll SloEndsTickets
INVARIANTS OnePairPerGrant GateIsExact ActsAsItself IndexAgrees DeletedStaysDeleted
INVARIANTS IndexNamesLive ClaimedOnce OnlineIsListed BackendsAgree GrantsWhatIsOwned
INVARIANTS EveryListenerHears HangingIsCut KeysApart
SYMMETRY TaskSymmetry
CHECK_DEADLOCK FALSE

\* The constants of Checks.cfg, for the claim about the daily comparison.
CONSTANTS
  \* Preview
  Runs = {1, 2}
  Asked <- MCAsked
  Pulls = {1}
  CanaryPull = 9
  Slugs <- MCSlugs
  Left <- MCLeft
  MaxStacks = 4
  MaxTurns = 2
  Polls = 2
  Attempts = 3
  \* ResidentSidecar
  Containers = {"container"}
  Composes = {"compose"}
  Entries <- MCEntries
  Remediate = TRUE
  GuardInterval = 2
  FailureThreshold = 2
  RecoveryThreshold = 2
  BreakdownRenotify = 2
  GuardRenotify = 2
  Ceiling = 1
  \* AlertBridge
  Requests = {1, 2}
  Settings <- MCSettings
  Alerts <- MCAlerts
  MaxBoots = 2
  \* AlertRules
  Jobs = {1, 2}
  Kinds = {"apply", "prune", "ensure", "canary"}
  Catalog <- MCCatalog
  Legacy <- MCLegacy
  MaxRules = 5
  MaxMerges = 1
  \* SelfRefreshAudit
  Facets <- MCFacets
  NotInProduction = {"app/c"}
  MaxRestartCount = 1
  Window = 1
  Losses <- MCLosses
  MaxTrouble = 2
  \* ConfigDrift
  Artifacts = {"conf"}
  Dependencies = {"shared"}
  Transient = {"pyc"}
  First <- MCFirst
  MaxTrees = 3
  \* Watchdog
  Routes = {"web"}
  Heartbeat = "heartbeat"
  Preflight = "preflight"
  MinWrite = 1
  MaxAge = 2
  CronEvery = 2
  Renotify = 3
  Faults = {"post", "put", "delivery", "config"}
SPECIFICATION Spec
INVARIANT FileSetsDoNotDiverge
CHECK_DEADLOCK FALSE

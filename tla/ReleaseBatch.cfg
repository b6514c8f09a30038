CONSTANTS
  MaxCommit = 3
  Side = {9}
  Tags = {1, 2, 3}
  Pulls = {1}
  AppServices = {"app"}
  Pinned = {"db", "logs", "new"}
  ProdOnly = {"logs"}
  NotYetInProd = {"new"}
  NoPreview = {}
  Policies <- MCPolicies
  Jobs = {1}
  Commands = {}
  Reconciles <- MCBatchReconciles
  Asked <- MCAsked
  Touched <- MCTouched
  AppMoves = 1
  Attempts = 2
SPECIFICATION Spec
INVARIANTS FixedEnvPinsATag

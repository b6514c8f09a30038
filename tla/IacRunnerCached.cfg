SPECIFICATION Spec
CONSTANTS
  redis = redis
  vault = vault
  boot = boot
  paddedVault = paddedVault
  staging = staging
  production = production
  v1 = v1
  v2 = v2
  v0 = v0
  Services = {redis, vault, boot}
  Untasked = {boot}
  Versions = {v1, v2}
  Absent = v0
  All = All
  MaxCommit = 2
  Tree <- MCTree
  Envs = {staging, production}
  Staging = staging
  Names <- MCNames
  Strip <- MCStrip
  Requests <- MCRequests
  Threads = {t1, t2}
  Free = Free
INVARIANT
  CachedAnswerIsCurrent

SPECIFICATION Spec
CONSTANTS
  Versions = {v1, v2}
  Releases = {}
  Stamps = {}
  None = None
  NoRow = NoRow
  MaxDeploys = 2
  UsesAppRole = TRUE
  HasDomain = FALSE
INVARIANT
  UnchangedMeansRunning

SPECIFICATION Spec
CONSTANTS
  Versions = {v1, v2}
  Releases = {}
  Stamps = {}
  None = None
  NoRow = NoRow
  MaxDeploys = 3
  UsesAppRole = TRUE
  HasDomain = TRUE
SYMMETRY MCSymmetry
INVARIANTS
  TypeOK
  DeployedMeansBegun
  SyncShipsCredentials

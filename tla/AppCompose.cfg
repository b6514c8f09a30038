SPECIFICATION Spec
CONSTANTS
  p1 = p1
  v1 = v1
  r1 = r1
  s1 = s1
  job1 = job1
  Promoters = {p1}
  Processes = {job1}
  ProcessOf <- MCProcessOf
  ImageOf <- MCImageOf
  BranchOf <- MCBranchOf
  StampOf <- MCStampOf
  Versions = {v1}
  Releases = {r1}
  Stamps = {s1}
  None = None
  NoRow = NoRow
  Nobody = Nobody
  MaxDeploys = 2
  UsesAppRole = TRUE
  HasDomain = FALSE
INVARIANT
  PromotedImageKept

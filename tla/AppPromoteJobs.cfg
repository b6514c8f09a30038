SPECIFICATION Spec
CONSTANTS
  p1 = p1
  p2 = p2
  p3 = p3
  v1 = v1
  v2 = v2
  r1 = r1
  r2 = r2
  s1 = s1
  s2 = s2
  s3 = s3
  job1 = job1
  job2 = job2
  Promoters = {p1, p2, p3}
  Processes = {job1, job2}
  ProcessOf <- MCProcessOf
  ImageOf <- MCImageOf
  BranchOf <- MCBranchOf
  StampOf <- MCStampOf
  Versions = {v1, v2}
  Releases = {r1, r2}
  Stamps = {s1, s2, s3}
  None = None
  NoRow = NoRow
  Nobody = Nobody
  MaxDeploys = 3
CHECK_DEADLOCK FALSE
INVARIANT
  DeploysDoNotRace

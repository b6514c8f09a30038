SPECIFICATION Spec
CONSTANTS
  api = api
  trip = trip
  group = group
  x = x
  y = y
  Probes = {api, trip}
  Commands = {trip}
  Groups <- MCGroups
  GroupOf <- MCGroupOf
  TextsOf <- MCTextsOf
  Graphs <- MCGraphs
  NoProbe = NoProbe
  Ok = Ok
  FailureThreshold = 3
  RecoveryThreshold = 2
  Renotify = 3
INVARIANTS
  TypeOK
  HeldBackIsExplained
  StableFailureIsTold
  FileSaysWhatWasTold
PROPERTIES
  ThresholdsKept

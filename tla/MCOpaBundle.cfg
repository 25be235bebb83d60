CONSTANTS
  NoBundle = NoBundle
  FirstBundle = FirstBundle
  AnyVersion = AnyVersion
  Services = {"Github", "GCP", "AWS", "HTTP"}
  TextErrors = {"Github", "AWS", "HTTP"}
  Admins = {a1, a2}
  MaxTries = 3
  MaxFaults = 2
  MaxRuns = 7
SPECIFICATION FairSpec
INVARIANTS
  TypeOK
  SettledOnSuccess
PROPERTIES
  LateUploadRefused
  Implements
  Converges
CHECK_DEADLOCK FALSE

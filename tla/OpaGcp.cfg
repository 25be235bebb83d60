CONSTANTS
  NoBundle = NoBundle
  FirstBundle = FirstBundle
  AnyVersion = AnyVersion
  Services = {"GCP"}
  TextErrors = {"GCP"}
  Admins = {a1}
  MaxTries = 3
  MaxFaults = 1
  MaxRuns = 1
SPECIFICATION Spec
INVARIANTS
  CreatedMeansWritten
CHECK_DEADLOCK FALSE

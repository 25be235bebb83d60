SPECIFICATION MCSpec
CONSTANTS
  Absent = Absent
  Blank = Blank
  Issuers = {"issuer"}
  Services = {"api", "opa"}
  keep <- MCkeep
  MaxCrashes = 3
  MaxKeys = 3
  Requests = {r1, r2}
  MaxLogins = 3
  MaxSessions = 2
  MaxFaults = 1
INVARIANTS
  TokensVerify
  LoginsInTurn
  EndedStaysEnded
PROPERTIES
  ServicesStart
CHECK_DEADLOCK FALSE

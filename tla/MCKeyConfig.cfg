CONSTANTS
  Absent = Absent
  Blank = Blank
  Nobody = Nobody
  Servers = {"web1", "web2", "bundle", "manual"}
  Names = {"web", "bundle"}
  nameOf <- MCnameOf
  auto <- MCauto
  MaxCrashes = 2
  MaxKeys = 4
SPECIFICATION FairSpec
INVARIANTS
  TypeOK
  PairsMatch
PROPERTIES
  WrittenStays
  EveryoneReady
CHECK_DEADLOCK FALSE

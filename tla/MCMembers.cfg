SPECIFICATION PFairSpec
CONSTANTS
  N = 4
  Admins = {adm1, adm2}
  NoEmail = NoEmail
  NoCondition = NoCondition
  Page = 4
  PageSizes = {1}
  MaxFaults = 1
  MaxRuns <- MCMaxRuns
  GatewayRuns = 3
  GatewayFaults = 2
  Groups <- MCGroups
  Users <- MCUsers
  emailOf <- MCemailOf
  Members <- MCMembers
  Wants <- MCWants
  AzureMembers <- MCAzureMembers
  AzureWants <- MCAzureWants
  Bindings <- MCBindings
  Policies <- MCPolicies
  Unmappable = Unmappable
  celOf <- MCcelOf
  idqlOf <- MCidqlOf
  Object = "app"
  Tables <- MCTables
  GatewayWants <- MCGatewayWants
  NoMethod = NoMethod
  NoRar = NoRar
  NoName = NoName
  Methods <- MCMethods
  itemMethod <- MCitemMethod
  uriMethod <- MCuriMethod
  uriOf <- MCuriOf
  Resources <- MCResources
  Uris <- MCUris
INVARIANTS
  TypeOK
  ResultsAreSuccesses
  CreatedMeansApplied
  SettledOnSuccess
  ReadBackIsClean
PROPERTIES
  ChangesAreWanted
  Returns
  NewItemsHaveTwins
CHECK_DEADLOCK FALSE

SPECIFICATION FormatsSpec
CONSTANTS
  Presences = {"has", "hasIt"}
  Negating = {"cannot"}
  Beheaded <- MCBeheaded
  Lists = {"inList"}
  Wide = {"wide"}
  Dotless = {"has"}
  Unmappable = {"if"}
  FilterOf <- MCFilterOf
  Plain <- MCPlain
  Special <- MCSpecial
  MaxLeaves = 1
  MaxGroups = 1
  MaxClauses = 1
  MaxPath = 1
  CedarSamples <- MCCedarSamples
  IdqlSamples <- MCIdqlSamples
  PimSamples <- MCPimSamples
  Principals <- MCPrincipals
  Actions <- MCActions
  Resources <- MCResources
  Namespaces <- MCNamespaces
  DefNamespace <- MCDefNamespace
INVARIANT
  DocumentedIds
CHECK_DEADLOCK FALSE

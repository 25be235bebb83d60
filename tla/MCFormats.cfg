SPECIFICATION FormatsSpec
CONSTANTS
  Presences = {"has", "hasIt"}
  Negating = {"cannot"}
  Beheaded <- MCBeheaded
  Lists = {"inList"}
  Wide = {"wide"}
  Dotless = {"has"}
  Unmappable = {"if"}
  FilterOf <- MCFilterOf
  Plain <- MCPlain
  Special <- MCSpecial
  MaxLeaves = 4
  MaxGroups = 2
  MaxClauses = 2
  MaxPath = 6
  CedarSamples <- MCCedarSamples
  IdqlSamples <- MCIdqlSamples
  PimSamples <- MCPimSamples
  Principals <- MCPrincipals
  Actions <- MCActions
  Resources <- MCResources
  Namespaces <- MCNamespaces
  DefNamespace <- MCDefNamespace
INVARIANTS
  ReadsAsWritten
  PrintsBack
  CelKeepsMeaning
  CedarKeepsMeaning
  ClausesKeepMeaning
  PathsReadBack
  CedarReadsBack
  GrantsTheSame
  AcceptsWhatConforms
CHECK_DEADLOCK FALSE

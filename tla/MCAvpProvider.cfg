CONSTANTS
  NoId = NoId
  NilActions = NilActions
  NoCondition = NoCondition
  NoScope = NoScope
  NoTemplate = NoTemplate
  Admins = {adm1, adm2}
  MaxFaults = 1
  MaxRuns = 2
  fold <- MCfold
  condClass <- MCcondClass
  scopeClass <- MCscopeClass
  Bodies <- MCBodies
  Unmappable <- MCUnmappable
  Unreadable <- MCUnreadable
  rewritten <- MCrewritten
  Templates <- MCTemplates
  templateBody <- MCtemplateBody
  Stores <- MCStores
  Wants <- MCWants
SYMMETRY AdminSymmetry
SPECIFICATION Spec
INVARIANTS
  SuccessMeansApplied
  KeepsMatched
  UndisturbedSucceeds
  InPlace
CHECK_DEADLOCK FALSE

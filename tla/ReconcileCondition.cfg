CONSTANTS
  NoId = NoId
  NilActions = NilActions
  NoCondition = NoCondition
  NoScope = NoScope
  Ids = {"p1", "p2"}
  MaxLen = 2
  fold <- MCfold
  condClass <- MCcondClass
  scopeClass <- MCscopeClass
  Policies <- FewPolicies
  Lists <- ConditionLists
SPECIFICATION Spec
INVARIANTS
  EveryDifferenceReported
CHECK_DEADLOCK FALSE

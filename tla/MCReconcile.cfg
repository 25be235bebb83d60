CONSTANTS
  NoId = NoId
  NilActions = NilActions
  NoCondition = NoCondition
  NoScope = NoScope
  Ids = {"p1", "p2"}
  MaxLen = 2
  fold <- MCfold
  condClass <- MCcondClass
  scopeClass <- MCscopeClass
  Policies <- MCPolicies
  Lists <- MCLists
SPECIFICATION Spec
INVARIANTS
  TypeOK
  HandledOnce
  AppliedIsWanted
  PermutationIsClean
CHECK_DEADLOCK FALSE

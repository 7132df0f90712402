SPECIFICATION MCSpec
CONSTANTS
  Actions <- MCActions
  Resources <- MCResources
  Statements <- MCStatements
  MaxDocuments = 2
  MaxStatements = 2
  Letters = {"a", "b", "*"}
  MaxPattern = 4
  MaxName = 4
CHECK_DEADLOCK FALSE
INVARIANTS
  DecisionIsOrderFree
  CitesGrantingPolicies
  MatchIsGlob
PROPERTIES
  MatchEnds

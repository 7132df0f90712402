SPECIFICATION MCSpec
CONSTANTS
  Actions <- MCActions
  Resources <- MCResources
  Statements <- MCStatements
  Principals = {"user", "worker"}
  Roles = {"role"}
  Protected = {"secret"}
  AccessAction <- MCAccessAction
  RuleActions <- MCRuleActions
  PassRole = "PassRole"
  Companions <- MCCompanions
  Every = "*"
  PolicySets <- MCPolicySets
  user = user
  role = role
  kept = kept
  home = home
  away = away
  g1 = g1
  g2 = g2
  p1 = p1
  p2 = p2
  None = None
  TrustRoles = {role, kept}
  TrustUsers = {user}
  TrustServices = {"lambda"}
  Accounts = {home, away}
  AccountOf <- MCAccountOf
  Collected = home
  Anonymous = "anonymous"
  TrustStatements <- MCTrustStatements
  Reader = user
  ReaderGroups = {g1, g2}
  ReaderPolicies = {p1, p2}
  Users = {"alice"}
  Groups = {"admins", "devs"}
  IamRoles = {"app"}
  Managed = {"view", "edit"}
  Profiles = {"profile"}
  Names = {"inline"}
  Paths = {"/", "/team/"}
  Root = "/"
  AwsOptions <- MCAccounts
  MaxStatements = 2
  MaxChanges = 2
SYMMETRY Symmetry
CHECK_DEADLOCK FALSE
INVARIANTS
  ClaimsAreAllowed
  AssumeEdgesAreTrust
  DefiniteTrustIsUnconditional
  ExternalTrustIsReported
  SteadyPolicyRead
  ReadPolicyWasEffective
  CollectedPoliciesAreEffective

----------------------------- MODULE Principals -----------------------------
(***************************************************************************)
(* What principals may do: the collector of IAM, and the parts of          *)
(* internal/analysis that read the policies of a principal, derive what it *)
(* may do and whom a role trusts, and report it.  The documents that the   *)
(* collector makes readable are those the reads find.  The parts share no  *)
(* state while they run.                                                   *)
(***************************************************************************)
EXTENDS IdentityRules

CONSTANTS TrustRoles, TrustUsers, TrustServices,               \* Trust
          Accounts, AccountOf, Collected, Anonymous,
          TrustStatements, MaxStatements,
          Reader, ReaderGroups, ReaderPolicies, MaxChanges,    \* PrincipalPolicies
          Users, Groups, IamRoles, Managed, Profiles, Names,   \* IamCollector
          Paths, Root, AwsOptions,
          None

VARIABLES trust, trustTodo, trustDerived, trustGraph, reported, trustPhase,
          attached, memberOf, stored, ever, steady, changes,
          owner, rows, groups, joined, seen, unread, sources, status,
          aws, left, nodes, edges, warned, pages

Trusts ==
  INSTANCE Trust WITH
    Roles <- TrustRoles, Users <- TrustUsers, Services <- TrustServices,
    Statements <- TrustStatements, todo <- trustTodo, derived <- trustDerived,
    graph <- trustGraph, phase <- trustPhase

Reads ==
  INSTANCE PrincipalPolicies WITH
    Principal <- Reader, Groups <- ReaderGroups, Policies <- ReaderPolicies

Collects == INSTANCE IamCollector WITH Roles <- IamRoles, phase <- pages

ASSUME PrincipalsAssumption ==
  Trusts!TrustAssumption /\ Reads!PolicyAssumption /\ Collects!CollectorAssumption

-----------------------------------------------------------------------------
\* The assume-role edges between principals are what the trust policies allow.
AssumeEdgesAreTrust == Trusts!AssumeEdgesAreTrust

\* A definite assume-role edge rests on no condition and no wildcard.
DefiniteTrustIsUnconditional == Trusts!DefiniteTrustIsUnconditional

\* A role that names everyone or an account not collected last is reported.
ExternalTrustIsReported == Trusts!ExternalTrustIsReported

\* A policy that the principal had throughout is read, unless its read failed.
SteadyPolicyRead == Reads!SteadyPolicyRead

\* Every policy read was the principal's, and is read once.
ReadPolicyWasEffective == Reads!ReadPolicyWasEffective

\* The policies that can be read from a collected graph are those in force in AWS.
CollectedPoliciesAreEffective == Collects!CollectedPoliciesAreEffective
=============================================================================

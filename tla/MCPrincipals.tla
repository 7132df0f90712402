---------------------------- MODULE MCPrincipals ----------------------------
(***************************************************************************)
(* The parts that say what principals may do: the collector of IAM and the *)
(* three parts of internal/analysis.  They share no state while they run:  *)
(* a behaviour runs one of them, on any of its inputs.                     *)
(*                                                                         *)
(* rules: two principals with one policy of up to two statements: all, by  *)
(* service, by one action, on one role, by exclusion, conditional, denied. *)
(* trust: a user and a role of the collected account, a role kept of       *)
(* another account, and trust policies of up to two statements: each form  *)
(* of principal, with and without a condition, and denies.                 *)
(* read: a user in up to two groups, up to two policies attached anywhere. *)
(* collect: a user, a role and two groups, one of which may have a path;   *)
(* two managed policies, one of up to two versions; inline policies of the *)
(* same name on any of the four.                                           *)
(***************************************************************************)
EXTENDS Principals, TLC

CONSTANTS user, role, kept, home, away, g1, g2, p1, p2

VARIABLE active

rulesVars == vars
trustVars == <<trust, trustTodo, trustDerived, trustGraph, reported, trustPhase>>
readVars == <<attached, memberOf, stored, ever, steady, changes,
              owner, rows, groups, joined, seen, unread, sources, status>>
collectVars == <<aws, left, nodes, edges, warned, pages>>
allVars == <<active, rulesVars, trustVars, readVars, collectVars>>

-----------------------------------------------------------------------------
(* Inputs of IdentityRules *)

MCActions == {"*", "PassRole", "CreateFunction", "RunInstances",
              "CreatePolicyVersion", "SetDefaultPolicyVersion", "GetSecretValue"}
MCResources == {"*", "role", "secret"}
MCRuleActions == [version |-> <<"CreatePolicyVersion", "SetDefaultPolicyVersion">>]
MCCompanions == <<"CreateFunction", "RunInstances">>
MCAccessAction == [x \in {"secret"} |-> "GetSecretValue"]

Iam == {"PassRole", "CreatePolicyVersion", "SetDefaultPolicyVersion"}
St(effect, action, notAction, resource, conditional) ==
  [effect |-> effect, action |-> action, notAction |-> notAction,
   resource |-> resource, notResource |-> {}, conditional |-> conditional]

MCStatements ==
  {St("allow", {MCActions}, {}, {MCResources}, FALSE),
   St("allow", {MCActions}, {}, {MCResources}, TRUE),
   St("allow", {}, {Iam}, {MCResources}, FALSE),
   St("allow", {{"PassRole"}}, {}, {MCResources}, TRUE),
   St("allow", {{"PassRole"}}, {}, {{"role"}}, FALSE),
   St("allow", {{"RunInstances"}, {"CreatePolicyVersion"}}, {}, {MCResources}, FALSE),
   St("deny", {{"CreatePolicyVersion"}}, {}, {MCResources}, FALSE),
   St("deny", {{"GetSecretValue"}}, {}, {{"secret"}}, FALSE)}
MCPolicySets == {<<d>> : d \in UNION {[1..n -> MCStatements] : n \in 0..2}}

-----------------------------------------------------------------------------
(* Inputs of Trust *)

MCAccountOf == (user :> home) @@ (role :> home) @@ (kept :> away)

AnyOne == [any |-> TRUE, names |-> {}, root |-> None, account |-> None]
Arn(p) == [any |-> FALSE, names |-> {p}, root |-> None, account |-> MCAccountOf[p]]
RootOf(a) == [any |-> FALSE, names |-> {}, root |-> a, account |-> a]
AllOf(a) == [any |-> FALSE, names |-> {p \in DOMAIN MCAccountOf : MCAccountOf[p] = a},
             root |-> None, account |-> a]

TrustSt(effect, assumes, wildcard, entries, services, conditional) ==
  [effect |-> effect, assumes |-> assumes, wildcard |-> wildcard, aws |-> entries,
   services |-> services, conditional |-> conditional]

MCTrustStatements ==
  {TrustSt("allow", TRUE, TRUE, <<>>, {}, FALSE), TrustSt("allow", TRUE, FALSE, <<AnyOne>>, {}, FALSE),
   TrustSt("allow", TRUE, FALSE, <<Arn(user), AnyOne>>, {}, TRUE),
   TrustSt("allow", TRUE, FALSE, <<Arn(user)>>, {}, FALSE),
   TrustSt("allow", TRUE, FALSE, <<RootOf(home), RootOf(away)>>, {}, FALSE),
   TrustSt("allow", TRUE, FALSE, <<AllOf(away)>>, {}, TRUE),
   TrustSt("allow", FALSE, FALSE, <<Arn(role)>>, {}, FALSE),
   TrustSt("allow", TRUE, FALSE, <<>>, {"lambda"}, TRUE),
   TrustSt("deny", TRUE, TRUE, <<>>, {}, FALSE),
   TrustSt("deny", TRUE, FALSE, <<Arn(user)>>, {}, FALSE)}

-----------------------------------------------------------------------------
(* Inputs of IamCollector *)

Members == {"alice", "app", "admins", "devs"}
Account(in, path, holders, writers, versions, default) ==
  [memberOf |-> [u \in {"alice"} |-> in],
   path |-> ("admins" :> path) @@ ("devs" :> "/"),
   attached |-> ("app" :> {"view"}) @@ [o \in Members |-> IF o \in holders THEN {"view", "edit"} ELSE {}],
   inline |-> writers \X {"inline"},
   versions |-> ("edit" :> versions) @@ ("view" :> 1),
   default |-> ("edit" :> default) @@ ("view" :> 1),
   profiles |-> [r \in {"app"} |-> {"profile"}]]

MCAccounts ==
  {Account(in, path, holders, writers, v[1], v[2]) :
     in \in SUBSET {"admins", "devs"}, path \in {"/", "/team/"},
     holders \in SUBSET {"alice", "admins"}, writers \in SUBSET Members,
     v \in {<<1, 1>>, <<2, 1>>, <<2, 2>>}}

Symmetry == Permutations({g1, g2}) \cup Permutations({p1, p2})

-----------------------------------------------------------------------------
\* The input given to a part that does not run.
NoPolicies == policies = [p \in Principals |-> <<<<>>>>]
NoTrust == trust = [r \in TrustRoles |-> <<>>]
NoGraph == attached = {} /\ memberOf = {} /\ stored = {}
NoAccount == aws = Account({}, "/", {}, {}, 1, 1)

MCInit ==
  \/ /\ active = "rules" /\ NoTrust /\ NoGraph /\ NoAccount
     /\ Trusts!Init /\ Reads!Init /\ Collects!Init /\ Init
  \/ /\ active = "trust" /\ NoPolicies /\ NoGraph /\ NoAccount
     /\ Init /\ Reads!Init /\ Collects!Init /\ Trusts!Init
  \/ /\ active = "read" /\ NoPolicies /\ NoTrust /\ NoAccount
     /\ Init /\ Trusts!Init /\ Collects!Init /\ Reads!Init
  \/ /\ active = "collect" /\ NoPolicies /\ NoTrust /\ NoGraph
     /\ Init /\ Trusts!Init /\ Reads!Init /\ Collects!Init

RulesStep == active = "rules" /\ Next /\ UNCHANGED <<active, trustVars, readVars, collectVars>>
TrustStep == active = "trust" /\ Trusts!Next /\ UNCHANGED <<active, rulesVars, readVars, collectVars>>
ReadStep == active = "read" /\ Reads!Next /\ UNCHANGED <<active, rulesVars, trustVars, collectVars>>
CollectStep == active = "collect" /\ Collects!Next /\ UNCHANGED <<active, rulesVars, trustVars, readVars>>

MCSpec == MCInit /\ [][RulesStep \/ TrustStep \/ ReadStep \/ CollectStep]_allVars
=============================================================================

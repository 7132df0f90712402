------------------------------- MODULE Trust --------------------------------
(***************************************************************************)
(* The trust part of DeriveEdges, which turns the trust policies of roles  *)
(* into edges, and the part of Scan that reports roles trusted from        *)
(* outside.  A trust policy is the sequence of its statements; one that    *)
(* does not parse gives no edges, like an empty one.                       *)
(*                                                                         *)
(* An entry of a statement's AWS principals is what the code asks of it:   *)
(* any     it is "*"                                                       *)
(* names   principals whose ARN it equals, or matches as a pattern         *)
(* root    the account of an account-root entry or bare account id         *)
(* account the account its text names, whatever its form                   *)
(***************************************************************************)
EXTENDS Naturals, Sequences, FiniteSets, FiniteSetsExt, Upserts

CONSTANTS Roles, Users, Services, Accounts,
          AccountOf,       \* account of each role and user
          Collected,       \* account collected last
          Anonymous, None,
          Statements,      \* statements that trust policies may hold
          MaxStatements    \* bound on the statements of a trust policy

\* Principals that trust policies may name.
Trustees == Users \cup Roles

Entries == [any : BOOLEAN, names : SUBSET Trustees,
            root : Accounts \cup {None}, account : Accounts \cup {None}]

\* Assumed where the constants get their values.
TrustAssumption ==
  /\ AccountOf \in [Trustees -> Accounts] /\ Collected \in Accounts
  /\ Services \cap Trustees = {} /\ MaxStatements \in Nat
  /\ \A st \in Statements :
       /\ st.effect \in {"allow", "deny"} /\ {st.assumes, st.conditional, st.wildcard} \subseteq BOOLEAN
       /\ st.aws \in Seq(Entries) /\ st.services \subseteq Services

VARIABLES trust,     \* trust policy of each role
          todo,      \* roles the derivation has not reached
          derived,   \* edges derived so far, in memory: their confidence
          graph,     \* derived edges that are stored
          reported,  \* roles with a finding BH-AWS-XACCOUNT-001
          phase

vars == <<trust, todo, derived, graph, reported, phase>>

Edges == [from : Trustees \cup Services \cup Accounts \cup {Anonymous},
          type : {"assume-role", "external-trust", "cross-account-access"}, to : Roles]
Confidences == {"definite", "possible"}

TrustPolicies == UNION {[1..n -> Statements] : n \in 0..MaxStatements}

TypeOK ==
  /\ trust \in [Roles -> TrustPolicies]
  /\ todo \subseteq Roles /\ reported \subseteq Roles
  /\ \A edges \in {derived, graph} :
       DOMAIN edges \subseteq Edges /\ \A e \in DOMAIN edges : edges[e] \in Confidences
  /\ phase \in {"derive", "scan", "done", "error"}

Init ==
  /\ trust \in [Roles -> TrustPolicies]
  /\ todo = Roles /\ derived = << >> /\ graph = << >>
  /\ reported = {} /\ phase = "derive"

-----------------------------------------------------------------------------
(* EvaluateTrust, for the statements of one role and one principal *)

Meets(entry, p) ==
  entry.any \/ p \in entry.names \/ (entry.root # None /\ entry.root = AccountOf[p])

Mentions(st, p) == st.wildcard \/ \E i \in DOMAIN st.aws : Meets(st.aws[i], p)

\* The first entry that matches decides whether it is a wildcard match.
ByWildcard(st, p) ==
  \/ st.wildcard
  \/ LET matching == {i \in DOMAIN st.aws : Meets(st.aws[i], p)}
     IN  matching # {} /\ st.aws[Min(matching)].any

Trusting(r, p) ==
  {i \in DOMAIN trust[r] : LET st == trust[r][i]
                           IN  st.effect = "allow" /\ st.assumes /\ Mentions(st, p)}

\* Fault: only the condition of the last statement is kept.
LastTrustConfidence(r, p) ==
  LET last == trust[r][Max(Trusting(r, p))]
  IN  IF ByWildcard(last, p) \/ last.conditional THEN "possible" ELSE "definite"

\* The last statement decides on the wildcard; a condition of any counts.
TrustConfidence(r, p) ==
  IF \/ ByWildcard(trust[r][Max(Trusting(r, p))], p)
     \/ \E i \in Trusting(r, p) : trust[r][i].conditional
  THEN "possible" ELSE "definite"

Edge(from, type, to) == [from |-> from, type |-> type, to |-> to]

\* Fault: a role is derived as trusting itself.
InternalTrustOfSelf(r) ==
  LET trusted == {p \in Trustees : Trusting(r, p) # {}}
      edges == {Edge(p, "assume-role", r) : p \in trusted}
  IN  [e \in edges |-> TrustConfidence(r, e.from)]

InternalTrust(r) ==
  LET trusted == {p \in Trustees \ {r} : Trusting(r, p) # {}}
      edges == {Edge(p, "assume-role", r) : p \in trusted}
  IN  [e \in edges |-> TrustConfidence(r, e.from)]

\* externalTrust takes the statements as they are: neither their effect nor their
\* action is looked at.
ExternalAccounts(st) == {st.aws[i].account : i \in DOMAIN st.aws} \ {None, Collected}

ExternalTrust(r) ==
  LET statements == {trust[r][i] : i \in DOMAIN trust[r]}
      edges == {Edge(Anonymous, "external-trust", r) : st \in {s \in statements : s.wildcard}}
               \cup UNION {{Edge(a, "cross-account-access", r) : a \in ExternalAccounts(st)} :
                             st \in {s \in statements : ~s.wildcard}}
  IN  [e \in edges |-> "possible"]

\* Services are trusted definitely, whatever the statement.
ServiceTrust(r) ==
  LET services == UNION {trust[r][i].services : i \in DOMAIN trust[r]}
  IN  [e \in {Edge(s, "assume-role", r) : s \in services} |-> "definite"]

-----------------------------------------------------------------------------

DeriveRole(r) ==
  /\ phase = "derive" /\ r \in todo
  /\ todo' = todo \ {r}
  /\ derived' = Upsert(derived, Upsert(ServiceTrust(r), Upsert(ExternalTrust(r), InternalTrust(r))))
  /\ UNCHANGED <<trust, graph, reported, phase>>

\* One transaction stores all edges.
ImportEdges ==
  /\ phase = "derive" /\ todo = {}
  /\ graph' = derived
  /\ phase' = "scan" /\ todo' = Roles
  /\ UNCHANGED <<trust, derived, reported>>

\* A query or the import fails: nothing is stored.
Fail ==
  /\ phase = "derive"
  /\ phase' = "error"
  /\ UNCHANGED <<trust, todo, derived, graph, reported>>

InEdges(r, types) == {e \in DOMAIN graph : e.to = r /\ e.type \in types}

\* Fault: edges of one of the two types are overlooked.
ReportCrossAccount(r) ==
  /\ phase = "scan" /\ r \in todo
  /\ todo' = todo \ {r}
  /\ reported' = IF InEdges(r, {"cross-account-access"}) # {}
                 THEN reported \cup {r} ELSE reported
  /\ phase' = IF todo' = {} THEN "done" ELSE "scan"
  /\ UNCHANGED <<trust, derived, graph>>

\* Rule BH-AWS-XACCOUNT-001, for each role.
ReportRole(r) ==
  /\ phase = "scan" /\ r \in todo
  /\ todo' = todo \ {r}
  /\ reported' = IF InEdges(r, {"external-trust", "cross-account-access"}) # {}
                 THEN reported \cup {r} ELSE reported
  /\ phase' = IF todo' = {} THEN "done" ELSE "scan"
  /\ UNCHANGED <<trust, derived, graph>>

Next == ImportEdges \/ Fail \/ \E r \in Roles : DeriveRole(r) \/ ReportRole(r)

Spec == Init /\ [][Next]_vars

-----------------------------------------------------------------------------
(* Properties *)

AssumeEdges == {e \in DOMAIN graph : e.type = "assume-role" /\ e.from \in Trustees}
StatementsOf(r) == {trust[r][i] : i \in DOMAIN trust[r]}
Grants(st) == st.effect = "allow" /\ st.assumes

\* The trust policy of r allows p, and a role does not trust itself.
Trusted(p, r) == p # r /\ \E st \in StatementsOf(r) : Grants(st) /\ Mentions(st, p)

\* The assume-role edges between principals are the relation that the trust
\* policies allow, without a role trusting itself: "Service trust must not grant
\* an assume edge to an arbitrary IAM user".
AssumeEdgesAreTrust ==
  phase \in {"scan", "done"} =>
    {<<e.from, e.to>> : e \in AssumeEdges} = {x \in Trustees \X Roles : Trusted(x[1], x[2])}

\* A definite edge rests on a statement that names the principal itself, or its
\* account, unconditionally; and no condition gates any statement that trusts it.
DefiniteTrustIsUnconditional ==
  \A e \in AssumeEdges : graph[e] = "definite" =>
    /\ \E st \in StatementsOf(e.to) :
         /\ Grants(st) /\ ~st.conditional
         /\ \E i \in DOMAIN st.aws : ~st.aws[i].any /\ Meets(st.aws[i], e.from)
    /\ \A st \in StatementsOf(e.to) : Grants(st) /\ Mentions(st, e.from) => ~st.conditional

\* "Role trusts an external or wildcard principal": no role with an allow that names
\* Principal "*", or an account other than the one collected last, goes unreported.  The
\* form {"AWS":"*"} is not among them: the code takes it for no account.
ExternalTrustIsReported ==
  phase = "done" =>
    \A r \in Roles : \A st \in StatementsOf(r) :
      Grants(st) /\ (st.wildcard \/ ExternalAccounts(st) # {}) => r \in reported
=============================================================================

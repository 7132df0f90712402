--------------------------- MODULE IdentityRules ----------------------------
(***************************************************************************)
(* What is made of the identity policies of principals: DeriveEdges'       *)
(* pass-role edges, the edges of DeriveResourceAccess, and the findings of *)
(* scanPrincipal.  All three ask AllowsAction, whose answer is Allowed and *)
(* AllowedConfidence (module PolicyDecision).  A scan asks about the names *)
(* "*" as actions and resources too.                                       *)
(***************************************************************************)
EXTENDS Policies, FiniteSetsExt, Upserts

CONSTANTS Principals, Roles,
          Protected,      \* sensitive resources
          AccessAction,   \* the action that each of them is protected from
          RuleActions,    \* actions of each single-action rule, in order
          PassRole,
          Companions,     \* companionServiceActions, in order
          Every,          \* the name "*"
          PolicySets      \* policies that a principal may have

ASSUME RuleAssumption ==
  /\ PolicySets \subseteq Seq(Documents)
  /\ AccessAction \in [Protected -> Actions] /\ Roles \cup Protected \subseteq Resources \ {Every}
  /\ Roles \cap Protected = {}
  /\ \A rule \in DOMAIN RuleActions :
       rule \notin {"admin", "passrole"} /\ RuleActions[rule] \in Seq(Actions)
  /\ Companions \in Seq(Actions) /\ PassRole \in Actions /\ Every \in Actions \cap Resources

VARIABLES policies,  \* policies of each principal
          todo,      \* principals the running loop has not reached
          derived,   \* edges in memory: their confidence
          graph,     \* edges stored
          findings,  \* findings: their confidence
          phase

vars == <<policies, todo, derived, graph, findings, phase>>

Rules == DOMAIN RuleActions \cup {"admin", "passrole"}
Edges == [from : Principals, to : Roles \cup Protected]
Findings == [rule : Rules, source : Principals]
Confidences == {"definite", "possible"}

TypeOK ==
  /\ policies \in [Principals -> PolicySets]
  /\ todo \subseteq Principals
  /\ \A edges \in {derived, graph} : DOMAIN edges \subseteq Edges
  /\ DOMAIN findings \subseteq Findings
  /\ \A f \in {derived, graph, findings} : \A x \in DOMAIN f : f[x] \in Confidences
  /\ phase \in {"passrole", "access", "scan", "done", "error"}

Init ==
  /\ policies \in [Principals -> PolicySets]
  /\ todo = Principals
  /\ derived = << >> /\ graph = << >> /\ findings = << >>
  /\ phase = "passrole"

Request(action, resource) == [action |-> action, resource |-> resource]
Allows(p, action, resource) == Allowed(policies[p], Request(action, resource))
ConfidenceOf(p, action, resource) == AllowedConfidence(policies[p], Request(action, resource))

\* The loops over principals: one principal, and the end of the loop.
Take(p) == p \in todo /\ todo' = todo \ {p}

\* Fault: the edges of a batch replace those stored before.
ImportOver(next) ==
  /\ todo = {} /\ todo' = Principals
  /\ graph' = derived /\ derived' = << >>
  /\ phase' = next
  /\ UNCHANGED <<policies, findings>>

\* The edges derived are stored in one transaction.
ImportEdges(next) ==
  /\ todo = {} /\ todo' = Principals
  /\ graph' = Upsert(graph, derived) /\ derived' = << >>
  /\ phase' = next
  /\ UNCHANGED <<policies, findings>>

PassableRoles(p) == {r \in Roles : Allows(p, PassRole, r)}

DerivePassRole ==
  /\ phase = "passrole"
  /\ \/ \E p \in Principals :
          /\ Take(p)
          /\ derived' = Upsert(derived, [e \in {[from |-> p, to |-> r] : r \in PassableRoles(p)} |->
                                          ConfidenceOf(p, PassRole, e.to)])
          /\ UNCHANGED <<policies, graph, findings, phase>>
     \/ ImportEdges("access")

Accessible(p) == {x \in Protected : Allows(p, AccessAction[x], x)}

DeriveAccess ==
  /\ phase = "access"
  /\ \/ \E p \in Principals :
          /\ Take(p)
          /\ derived' = Upsert(derived, [e \in {[from |-> p, to |-> x] : x \in Accessible(p)} |->
                                          ConfidenceOf(p, AccessAction[e.to], e.to)])
          /\ UNCHANGED <<policies, graph, findings, phase>>
     \/ ImportEdges("scan")

\* A query or an import fails.  What was imported before stays; a
\* scan returns its findings only when it is complete.
Fail ==
  /\ phase \in {"passrole", "access", "scan"}
  /\ phase' = "error" /\ findings' = << >>
  /\ UNCHANGED <<policies, todo, derived, graph>>

\* The first allowed action of a list, if there is one.
AllowedOf(p, actions) == {i \in DOMAIN actions : Allows(p, actions[i], Every)}

RuleFindings(p) ==
  LET found == {rule \in DOMAIN RuleActions : AllowedOf(p, RuleActions[rule]) # {}}
      action(rule) == RuleActions[rule][Min(AllowedOf(p, RuleActions[rule]))]
  IN  [f \in {[rule |-> rule, source |-> p] : rule \in found} |->
         ConfidenceOf(p, action(f.rule), Every)]

\* The confidence of the answer is dropped.
AdminFinding(p) ==
  IF Allows(p, Every, Every) THEN Row([rule |-> "admin", source |-> p], "definite") ELSE << >>

\* The confidence is that of the companion action.
PassRoleFinding(p) ==
  LET launches == AllowedOf(p, Companions)
      found == Allows(p, PassRole, Every) /\ launches # {}
  IN  IF found
      THEN Row([rule |-> "passrole", source |-> p], ConfidenceOf(p, Companions[Min(launches)], Every))
      ELSE << >>

ScanPrincipal ==
  /\ phase = "scan"
  /\ \E p \in Principals :
       /\ Take(p)
       /\ findings' = Upsert(findings, Upsert(PassRoleFinding(p), Upsert(RuleFindings(p), AdminFinding(p))))
  /\ phase' = IF todo' = {} THEN "done" ELSE "scan"
  /\ UNCHANGED <<policies, derived, graph>>

Next == DerivePassRole \/ DeriveAccess \/ Fail \/ ScanPrincipal

Spec == Init /\ [][Next]_vars

-----------------------------------------------------------------------------
(* Properties *)

Asked(e) == Request(IF e.to \in Roles THEN PassRole ELSE AccessAction[e.to], e.to)

\* When both derivations are done the graph holds an edge for each role that a
\* principal may pass and each resource it may access: none of the first batch
\* is lost to the second, and no deny of any policy is overlooked.
EdgesAreAllowed ==
  phase \in {"scan", "done"} =>
    /\ DOMAIN graph = {e \in Edges : Allowed(policies[e.from], Asked(e))}
    /\ \A e \in Edges : e \in DOMAIN graph /\ graph[e] = "definite"
                          <=> Allowed(policies[e.from], Asked(e)) /\ Granted(policies[e.from], Asked(e))

\* A finding of a single-action rule is there for each principal that is allowed
\* one of the actions everywhere, and its confidence is that of such an action.
RuleFindingsAreAllowed ==
  phase = "done" =>
    \A rule \in DOMAIN RuleActions, p \in Principals :
      LET f == [rule |-> rule, source |-> p]
          allowed == {i \in DOMAIN RuleActions[rule] : Allows(p, RuleActions[rule][i], Every)}
      IN  /\ f \in DOMAIN findings <=> allowed # {}
          /\ f \in DOMAIN findings =>
               \E i \in allowed : findings[f] = ConfidenceOf(p, RuleActions[rule][i], Every)

\* What is derived and reported of principals is what their policies allow.
ClaimsAreAllowed == EdgesAreAllowed /\ RuleFindingsAreAllowed
=============================================================================

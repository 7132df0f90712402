------------------------- MODULE PrincipalPolicies --------------------------
(***************************************************************************)
(* PrincipalPolicies: the identity policies of a principal, read by one    *)
(* query for its own policies, one for its groups, one for the policies of *)
(* each group and one for the node of each policy, while a collection of   *)
(* another process may change the graph between two queries.               *)
(***************************************************************************)
EXTENDS Naturals, Sequences, FiniteSets

CONSTANTS Principal, Groups, Policies, None,
          MaxChanges  \* bound on the changes to the graph during the reads

\* Assumed where the constants get their values.
PolicyAssumption ==
  /\ Principal \notin Groups /\ None \notin Groups \cup {Principal}
  /\ MaxChanges \in Nat

Owners == {Principal} \cup Groups

VARIABLES attached,   \* edges attached-policy and inline-policy
          memberOf,   \* groups of the principal
          stored,     \* policy nodes that hold a readable document
          ever,       \* history: what was stored at some time
          steady,     \* history: what was stored all the time
          changes,
          owner,      \* whose policies are read, None between two owners
          rows,       \* policies of the last query still to visit
          groups,     \* groups still to collect
          joined,     \* the query for the groups was made
          seen,
          unread,     \* history: policies whose read failed
          sources,    \* policies found
          status

graph == <<attached, memberOf, stored>>
history == <<ever, steady, changes>>
vars == <<graph, history, owner, rows, groups, joined, seen, unread, sources, status>>

Contents == [attached : SUBSET (Owners \X Policies), memberOf : SUBSET Groups, stored : SUBSET Policies]
Now == [attached |-> attached, memberOf |-> memberOf, stored |-> stored]

TypeOK ==
  /\ Now \in Contents /\ ever \in Contents /\ steady \in Contents
  /\ changes \in 0..MaxChanges
  /\ owner \in Owners \cup {None}
  /\ rows \subseteq Policies /\ groups \subseteq Groups /\ joined \in BOOLEAN
  /\ seen \subseteq Policies /\ unread \subseteq seen
  /\ sources \in Seq(Policies)
  /\ status \in {"reading", "done", "error"}

Init ==
  /\ attached \in SUBSET (Owners \X Policies)
  /\ memberOf \in SUBSET Groups /\ stored \in SUBSET Policies
  /\ ever = Now /\ steady = Now /\ changes = 0
  /\ owner = None /\ rows = {} /\ groups = {} /\ joined = FALSE
  /\ seen = {} /\ unread = {} /\ sources = <<>>
  /\ status = "reading"

PoliciesOf(o) == {p \in Policies : <<o, p>> \in attached}

\* collect: the query for the policies of the principal, then of each group.
CollectOf(o) ==
  /\ owner' = o /\ rows' = PoliciesOf(o)
  /\ UNCHANGED <<graph, history, joined, seen, unread, sources, status>>

CollectOwn ==
  /\ owner = None /\ ~joined
  /\ CollectOf(Principal) /\ UNCHANGED groups

\* Fault: the remaining groups are forgotten.
CollectOneGroup ==
  /\ owner = None /\ joined
  /\ \E g \in groups : CollectOf(g)
  /\ groups' = {}

CollectGroup ==
  /\ owner = None /\ joined
  /\ \E g \in groups : CollectOf(g) /\ groups' = groups \ {g}

\* A policy reached before, through another edge.
VisitSeen ==
  /\ \E p \in rows \cap seen : rows' = rows \ {p}
  /\ UNCHANGED <<graph, history, owner, groups, joined, seen, unread, sources, status>>

\* Fault: the policy is not marked.
VisitUnmarked ==
  /\ \E p \in rows \ seen :
       /\ rows' = rows \ {p}
       /\ sources' = IF p \in stored THEN Append(sources, p) ELSE sources
  /\ UNCHANGED <<graph, history, owner, groups, joined, seen, unread, status>>

\* GetNode, and the document of the node.  A policy without one is passed over, and so
\* is one whose read fails: that is no error.
Visit ==
  /\ \E p \in rows \ seen :
       /\ rows' = rows \ {p}
       /\ seen' = seen \cup {p}
       /\ \/ /\ sources' = IF p \in stored THEN Append(sources, p) ELSE sources
             /\ UNCHANGED unread
          \/ unread' = unread \cup {p} /\ UNCHANGED sources
  /\ UNCHANGED <<graph, history, owner, groups, joined, status>>

\* The query for the groups, after the principal's own policies.
ReadGroups ==
  /\ owner = Principal /\ rows = {}
  /\ owner' = None /\ joined' = TRUE /\ groups' = memberOf
  /\ UNCHANGED <<graph, history, rows, seen, unread, sources, status>>

EndGroup ==
  /\ owner \in Groups /\ rows = {}
  /\ owner' = None
  /\ UNCHANGED <<graph, history, rows, groups, joined, seen, unread, sources, status>>

Finish ==
  /\ owner = None /\ joined /\ groups = {}
  /\ status' = "done"
  /\ UNCHANGED <<graph, history, owner, rows, groups, joined, seen, unread, sources>>

\* A query for the policies of an owner, or for the groups, fails; the caller gets no policies.
Fail ==
  /\ status = "reading"
  /\ \/ owner = None /\ (joined => groups # {})
     \/ owner = Principal /\ rows = {}
  /\ status' = "error" /\ sources' = <<>>
  /\ UNCHANGED <<graph, history, owner, rows, groups, joined, seen, unread>>

Read ==
  /\ status = "reading"
  /\ CollectOwn \/ CollectGroup \/ VisitSeen \/ Visit \/ ReadGroups \/ EndGroup \/ Finish

Toggle(set, x) == IF x \in set THEN set \ {x} ELSE set \cup {x}

\* Another process stores an edge or a node, or removes one.
GraphChanges ==
  /\ status = "reading" /\ changes < MaxChanges
  /\ changes' = changes + 1
  /\ \/ \E e \in Owners \X Policies : attached' = Toggle(attached, e) /\ UNCHANGED <<memberOf, stored>>
     \/ \E g \in Groups : memberOf' = Toggle(memberOf, g) /\ UNCHANGED <<attached, stored>>
     \/ \E p \in Policies : stored' = Toggle(stored, p) /\ UNCHANGED <<attached, memberOf>>
  /\ ever' = [f \in DOMAIN ever |-> ever[f] \cup Now'[f]]
  /\ steady' = [f \in DOMAIN steady |-> steady[f] \cap Now'[f]]
  /\ UNCHANGED <<owner, rows, groups, joined, seen, unread, sources, status>>

Next == Read \/ Fail \/ GraphChanges

Spec == Init /\ [][Next]_vars

-----------------------------------------------------------------------------
(* Properties *)

\* Policies that the principal has, in given contents of the graph, of its own
\* or by "one level of group membership".
Effective(c) ==
  {p \in c.stored : \E o \in {Principal} \cup c.memberOf : <<o, p>> \in c.attached}

\* A policy that the principal had all the time is read, however the rest of
\* the graph changed between the queries, unless the read of its node failed.
SteadyPolicyRead ==
  status = "done" => \A p \in Effective(steady) \ unread : \E i \in DOMAIN sources : sources[i] = p

\* Every policy read was the principal's, or its pieces were stored at some time;
\* and one that is reached twice, by the principal and a group or by two groups,
\* is read and evaluated once.
ReadPolicyWasEffective ==
  /\ \A i \in DOMAIN sources : sources[i] \in Effective(ever)
  /\ \A i, j \in DOMAIN sources : sources[i] = sources[j] => i = j
=============================================================================

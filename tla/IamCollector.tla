---------------------------- MODULE IamCollector ----------------------------
(***************************************************************************)
(* IAMCollector.Collect: the pages of GetAccountAuthorizationDetails,      *)
(* turned into nodes and edges.  Items come in any order, a page at a time *)
(* (here: one item), and any page may fail.  A document is named after the *)
(* place it is kept in AWS, so that no two of them are equal.  Trust       *)
(* policies, boundaries and evidence are copied as they are and left out.  *)
(***************************************************************************)
EXTENDS Naturals, Sequences, FiniteSets, Upserts

CONSTANTS Users, Groups, Roles, Managed, Profiles, Names,  \* Names: of inline policies
          Paths,        \* IAM paths of groups
          Root,         \* the path of a group that was given none
          AwsOptions,   \* what the account may hold
          None

Owners == Users \cup Groups \cup Roles
Holders == Users \cup Roles
Items == Owners \cup Managed

AwsType ==
  [memberOf : [Users -> SUBSET Groups],
   path : [Groups -> Paths],
   attached : [Owners -> SUBSET Managed],
   inline : SUBSET (Owners \X Names),
   versions : [Managed -> Nat],          \* how many a policy has, and which is the default one
   default : [Managed -> Nat],
   profiles : [Roles -> SUBSET Profiles]]

\* Assumed where the constants get their values.
CollectorAssumption ==
  /\ AwsOptions \subseteq AwsType /\ Root \in Paths
  /\ Users \cap Roles = {} /\ Holders \cap Groups = {} /\ Owners \cap Managed = {}
  /\ None \notin (Managed \X Nat) \cup (Owners \X Names)
  /\ \A a \in AwsOptions, m \in Managed : a.default[m] \in 1..a.versions[m]

VARIABLES aws,      \* the account, which does not change during the listing
          left,     \* items on the pages to come
          nodes,    \* nodes collected, by id: the document they hold
          edges,    \* edges collected
          warned,
          phase

vars == <<aws, left, nodes, edges, warned, phase>>

-----------------------------------------------------------------------------
(* Ids.  A group's ARN holds its path; membership is listed by name only. *)

GroupId(path, g) == <<"group", path, g>>
OwnerId(o) == IF o \in Groups THEN GroupId(aws.path[o], o) ELSE <<"principal", o>>
ManagedId(m) == <<"policy", m>>

\* Fault: the owner is no part of the id.
InlineIdByName(owner, name) == <<"inline", name>>

InlinePolicyNodeID(owner, name) == <<"inline", owner, name>>

groupARN(name) == GroupId(Root, name)

Edge(from, type, to) == [from |-> from, type |-> type, to |-> to]

-----------------------------------------------------------------------------

Init ==
  /\ aws \in AwsOptions
  /\ left = Items
  /\ nodes = Row(<<"account">>, None) /\ edges = {}
  /\ warned = FALSE /\ phase = "aliases"

\* The alias is a property of the account node; without it the listing goes on.
ListAliases ==
  /\ phase = "aliases"
  /\ phase' = "pages" /\ warned' \in BOOLEAN
  /\ UNCHANGED <<aws, left, nodes, edges>>

\* The default version, or else the last; 0 is no document.
DefaultVersion(m) ==
  IF aws.default[m] \in 1..aws.versions[m] THEN aws.default[m] ELSE aws.versions[m]

Add(newNodes, newEdges) ==
  /\ nodes' = Upsert(nodes, newNodes)
  /\ edges' = edges \cup newEdges
  /\ UNCHANGED <<aws, warned>>

AddManagedPolicy(m) ==
  LET k == DefaultVersion(m)
  IN  Add(Row(ManagedId(m), IF k = 0 THEN None ELSE <<m, k>>), {})

InlineNodes(o) ==
  LET own == {i \in aws.inline : i[1] = o}
  IN  [id \in {InlinePolicyNodeID(OwnerId(o), i[2]) : i \in own} |->
         CHOOSE i \in own : InlinePolicyNodeID(OwnerId(o), i[2]) = id]

\* attachPolicies and inlinePolicies.  A managed policy may come on a later page.
PolicyEdges(o) ==
  {Edge(OwnerId(o), "attached-policy", ManagedId(m)) : m \in aws.attached[o]}
  \cup {Edge(OwnerId(o), "inline-policy", id) : id \in DOMAIN InlineNodes(o)}

AddUser(u) ==
  Add(Upsert(InlineNodes(u), Row(OwnerId(u), None)),
      {Edge(OwnerId(u), "member-of", groupARN(g)) : g \in aws.memberOf[u]} \cup PolicyEdges(u))

AddGroup(g) == Add(Upsert(InlineNodes(g), Row(OwnerId(g), None)), PolicyEdges(g))

AddRole(r) ==
  Add(Upsert(InlineNodes(r), [id \in {OwnerId(r)} \cup {<<"profile", p>> : p \in aws.profiles[r]} |-> None]),
      {Edge(<<"profile", p>>, "runs-as", OwnerId(r)) : p \in aws.profiles[r]} \cup PolicyEdges(r))

ProcessPage ==
  /\ phase = "pages"
  /\ \E item \in left :
       /\ left' = left \ {item}
       /\ \/ item \in Managed /\ AddManagedPolicy(item)
          \/ item \in Users /\ AddUser(item)
          \/ item \in Groups /\ AddGroup(item)
          \/ item \in Roles /\ AddRole(item)
  /\ UNCHANGED phase

\* A page fails: what came before it is the result, with a warning.
FailPage ==
  /\ phase = "pages" /\ left # {}
  /\ phase' = "done" /\ warned' = TRUE
  /\ UNCHANGED <<aws, left, nodes, edges>>

EndPages ==
  /\ phase = "pages" /\ left = {}
  /\ phase' = "done"
  /\ UNCHANGED <<aws, left, nodes, edges, warned>>

Next == ListAliases \/ ProcessPage \/ FailPage \/ EndPages

Spec == Init /\ [][Next]_vars

-----------------------------------------------------------------------------
(* Properties *)

TypeOK ==
  /\ aws \in AwsOptions /\ left \subseteq Items
  /\ \A e \in edges : e.type \in {"member-of", "attached-policy", "inline-policy", "runs-as"}
  /\ warned \in BOOLEAN /\ phase \in {"aliases", "pages", "done"}

\* Documents in force for a principal, its groups' among them.
Effective(p) ==
  LET owners == {p} \cup (IF p \in Users THEN aws.memberOf[p] ELSE {})
  IN  {<<m, aws.default[m]>> : m \in UNION {aws.attached[o] : o \in owners}}
      \cup {i \in aws.inline : i[1] \in owners}

\* Documents that PrincipalPolicies finds for it, once the result is stored.
To(from, types) == {e.to : e \in {x \in edges : x.from = from /\ x.type \in types}}
Readable(p) ==
  LET owners == {OwnerId(p)} \cup To(OwnerId(p), {"member-of"})
      policies == UNION {To(o, {"attached-policy", "inline-policy"}) : o \in owners}
  IN  {nodes[id] : id \in policies \cap DOMAIN nodes} \ {None}

\* Whatever the order of the pages and wherever they stop, no principal is given a
\* document that is not in force for it: not an earlier version, nor that of
\* another owner's inline policy of the same name.  If they do not stop, it is given
\* every document in force, and each role its profiles; but what it has through a
\* group with a path is lost, as the ARN made from the group's name has none.  If
\* they stop, the answer says so.
CollectedPoliciesAreEffective ==
  /\ \A p \in Holders : Readable(p) \subseteq Effective(p)
  /\ phase = "done" /\ left = {} =>
       /\ \A p \in Holders :
            (p \in Users => \A g \in aws.memberOf[p] : aws.path[g] = Root) => Readable(p) = Effective(p)
       /\ \A r \in Roles : {e.from : e \in {x \in edges : x.type = "runs-as" /\ x.to = OwnerId(r)}}
                             = {<<"profile", i>> : i \in aws.profiles[r]}
  /\ phase = "done" /\ left # {} => warned
=============================================================================

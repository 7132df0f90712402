-------------------------- MODULE ResourcePolicies --------------------------
(***************************************************************************)
(* The collectors of resources that have a policy of their own, and of     *)
(* task definitions: each resource of a listing is asked for its details   *)
(* or its policy or both, and any of these requests may fail unnoticed.    *)
(* AnalyzeResourceExposure reads the policy statement by statement, and    *)
(* ResourcePolicyEdges makes edges of what it found.                       *)
(*                                                                         *)
(* An entry of a statement's AWS principals is "*" (any), or names an      *)
(* account by its root or bare id, or is the ARN of a user or role, which  *)
(* the code takes for no account (None).  GetBucketLocation, which comes   *)
(* first, gives a bucket its region or none and decides nothing here.      *)
(***************************************************************************)
EXTENDS Naturals, Sequences, FiniteSets, Upserts

CONSTANTS Resources, Accounts, Home,  \* Home: the account collected
          Targets,    \* keys and roles that resources use
          Options,    \* what each resource may be
          Anonymous, None

Services == {"s3", "secretsmanager", "lambda", "kms", "sqs", "sns", "ecs"}

Entries == [any : BOOLEAN, account : Accounts \cup {None}]

ResourceType ==
  [service : Services,
   policy : Seq([allow : BOOLEAN, named : BOOLEAN,  \* it has a Principal element
                 wildcard : BOOLEAN, aws : Seq(Entries), conditional : BOOLEAN]),
   blocked : BOOLEAN,        \* both settings of the bucket's public access block that are asked for
   uses : SUBSET Targets]    \* encrypted-by a key that is no alias; runs-as roles

\* Assumed where the constants get their values.
ResourceAssumption ==
  /\ Options \in [Resources -> SUBSET ResourceType] /\ Home \in Accounts
  /\ Anonymous \notin Accounts \cup Resources /\ Resources \cap (Accounts \cup Targets) = {}

VARIABLES resource,              \* what AWS holds
          left, current, step,   \* resources to come, the one in hand, its next request
          blocks,                \* the answer to GetPublicAccessBlock
          at, public, gated, external,  \* AnalyzeResourceExposure: statement, and what it found
          nodes, edges,          \* the result; edges hold their confidence
          warned,                \* services whose listing broke off
          failed                 \* history: requests that failed

exposure == <<at, public, gated, external>>
vars == <<resource, left, current, step, blocks, exposure, nodes, edges, warned, failed>>

Init ==
  /\ resource \in {f \in [Resources -> UNION {Options[r] : r \in Resources}] :
                    \A r \in Resources : f[r] \in Options[r]}
  /\ left = Resources /\ current = None /\ step = "list" /\ blocks = FALSE
  /\ at = 1 /\ public = FALSE /\ gated = FALSE /\ external = {}
  /\ nodes = {} /\ edges = << >> /\ warned = {} /\ failed = {}

Service == resource[current].service
Edge(from, type, to) == [from |-> from, type |-> type, to |-> to]
Add(newNodes, newEdges) == nodes' = nodes \cup newNodes /\ edges' = Upsert(edges, newEdges)
Record(r) ==
  LET type == IF resource[r].service = "secretsmanager" THEN "encrypted-by" ELSE "runs-as"
  IN  Add({r}, [e \in {Edge(r, type, t) : t \in resource[r].uses} |-> "definite"])

\* The next resource of a page.  Those that are described first are no nodes yet.
Take(r) ==
  /\ step = "list" /\ r \in left
  /\ left' = left \ {r} /\ current' = r
  /\ IF resource[r].service \in {"kms", "sqs", "sns", "ecs"}
     THEN step' = "describe" /\ UNCHANGED <<nodes, edges>>
     ELSE step' = (IF resource[r].service = "s3" THEN "block" ELSE "policy") /\ Record(r)
  /\ UNCHANGED <<resource, blocks, exposure, warned, failed>>

\* A page fails: the rest of the service is not listed.  Buckets are one answer.
FailPage(service) ==
  LET all == {r \in Resources : resource[r].service = service}
      rest == all \cap left
  IN  /\ step = "list" /\ rest # {} /\ (service = "s3" => rest = all)
      /\ left' = left \ rest /\ warned' = warned \cup {service}
      /\ UNCHANGED <<resource, current, step, blocks, exposure, nodes, edges, failed>>

Skip == step' = "list" /\ current' = None

\* A request fails, or the answer for a queue holds no ARN, which is passed over in the
\* same way: only the bucket's policy is asked for all the same.
FailRequest ==
  /\ step \in {"describe", "block", "policy"}
  /\ failed' = failed \cup {<<current, step>>}
  /\ blocks' = FALSE
  /\ IF step = "block" THEN step' = "policy" /\ UNCHANGED current ELSE Skip
  /\ UNCHANGED <<resource, left, exposure, nodes, edges, warned>>

\* DescribeKey, GetQueueAttributes, GetTopicAttributes, DescribeTaskDefinition.
\* Queues and topics give their policy in the same answer, tasks have none.
Describe ==
  /\ step = "describe"
  /\ Record(current)
  /\ CASE Service = "kms" -> step' = "policy" /\ UNCHANGED current
       [] Service \in {"sqs", "sns"} -> step' = "analyze" /\ UNCHANGED current
       [] Service = "ecs" -> Skip
  /\ UNCHANGED <<resource, left, blocks, exposure, warned, failed>>

publicAccessBlocked ==
  /\ step = "block"
  /\ blocks' = resource[current].blocked /\ step' = "policy"
  /\ UNCHANGED <<resource, left, current, exposure, nodes, edges, warned, failed>>

GetPolicy ==
  /\ step = "policy"
  /\ step' = "analyze"
  /\ UNCHANGED <<resource, left, current, blocks, exposure, nodes, edges, warned, failed>>

-----------------------------------------------------------------------------
(* AnalyzeResourceExposure, one statement a step *)

Policy == resource[current].policy
ToAnyone(st) == st.wildcard \/ \E i \in DOMAIN st.aws : st.aws[i].any
Others(st) == {st.aws[i].account : i \in DOMAIN st.aws} \ {None, Home}

\* Fault: the condition of the last public statement decides.
AnalyzeForgetful ==
  LET st == Policy[at]
      counts == st.allow /\ st.named
  IN  /\ step = "analyze" /\ at <= Len(Policy)
      /\ at' = at + 1
      /\ public' = (public \/ (counts /\ ToAnyone(st)))
      /\ gated' = IF counts /\ ToAnyone(st) THEN st.conditional ELSE gated
      /\ external' = external \cup (IF counts THEN Others(st) ELSE {})
      /\ UNCHANGED <<resource, left, current, step, blocks, nodes, edges, warned, failed>>

\* A deny and a statement without principal are passed over.
Analyze ==
  LET st == Policy[at]
      counts == st.allow /\ st.named
  IN  /\ step = "analyze" /\ at <= Len(Policy)
      /\ at' = at + 1
      /\ public' = (public \/ (counts /\ ToAnyone(st)))
      /\ gated' = (gated \/ (counts /\ ToAnyone(st) /\ st.conditional))
      /\ external' = external \cup (IF counts THEN Others(st) ELSE {})
      /\ UNCHANGED <<resource, left, current, step, blocks, nodes, edges, warned, failed>>

\* ResourcePolicyEdges; dropPublic leaves the node of the anonymous principal.
PolicyEdges ==
  /\ step = "analyze" /\ at > Len(Policy)
  /\ LET open == IF public /\ ~blocks THEN {Edge(Anonymous, "public-access", current)} ELSE {}
         others == {Edge(a, "cross-account-access", current) : a \in external}
     IN  Add((IF public THEN {Anonymous} ELSE {}) \cup external,
             [e \in open \cup others |->
                IF e.type = "public-access" /\ ~gated THEN "definite" ELSE "possible"])
  /\ at' = 1 /\ public' = FALSE /\ gated' = FALSE /\ external' = {} /\ blocks' = FALSE
  /\ Skip
  /\ UNCHANGED <<resource, left, warned, failed>>

Next ==
  \/ \E r \in Resources : Take(r)
  \/ \E s \in Services : FailPage(s)
  \/ FailRequest \/ Describe \/ publicAccessBlocked \/ GetPolicy \/ Analyze \/ PolicyEdges

Spec == Init /\ [][Next]_vars

-----------------------------------------------------------------------------
(* Properties *)

TypeOK ==
  /\ \A r \in Resources : resource[r] \in Options[r]
  /\ left \subseteq Resources /\ current \in Resources \cup {None}
  /\ step \in {"list", "describe", "block", "policy", "analyze"}
  /\ {blocks, public, gated} \subseteq BOOLEAN /\ at \in Nat \ {0} /\ external \subseteq Accounts \ {Home}
  /\ nodes \subseteq Resources \cup Accounts \cup {Anonymous}
  /\ \A e \in DOMAIN edges : edges[e] \in {"definite", "possible"}
  /\ warned \subseteq Services /\ failed \subseteq Resources \X {"describe", "block", "policy"}

\* Statements that count, and what should come of them.
Grants(r) == {st \in {resource[r].policy[i] : i \in DOMAIN resource[r].policy} : st.allow /\ st.named}
Public(r) == {st \in Grants(r) : ToAnyone(st)}
Blocked(r) == resource[r].service = "s3" /\ resource[r].blocked

\* The resources dealt with, and those for which every answer came.
Done(r) == step = "list" /\ r \notin left
Answered(r) == Done(r) /\ resource[r].service \notin warned /\ \A q \in failed : q[1] # r

OpenTo(r) == {e \in DOMAIN edges : e.type = "public-access" /\ e.to = r}
SharedWith(r) == {e.from : e \in {x \in DOMAIN edges : x.type = "cross-account-access" /\ x.to = r}}

\* A resource is called public only when its own policy lets anyone in, for sure
\* only when no statement that does is gated by a condition, and never when its
\* public access block was seen; it is shared only with other accounts that its
\* policy names.  If every request for it was answered it is in the graph, is called
\* public when it is, and is shared with all those accounts, whatever failed for the
\* resources before and after it.
PublicAccessIsGranted ==
  \A r \in Resources :
    /\ \A e \in OpenTo(r) : /\ Public(r) # {}
                            /\ edges[e] = "definite" <=> \A st \in Public(r) : ~st.conditional
                            /\ Blocked(r) => <<r, "block">> \in failed
    /\ SharedWith(r) \subseteq UNION {Others(st) : st \in Grants(r)}
    /\ Answered(r) =>
         /\ r \in nodes
         /\ resource[r].service # "ecs" =>
              /\ OpenTo(r) # {} <=> Public(r) # {} /\ ~Blocked(r)
              /\ SharedWith(r) = UNION {Others(st) : st \in Grants(r)}
=============================================================================

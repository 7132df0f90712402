----------------------------- MODULE MCQueries -----------------------------
(***************************************************************************)
(* The depth-first search, and the queries that make searches.  A          *)
(* behaviour runs one of the two, on any of its inputs.                    *)
(*                                                                         *)
(* search: five nodes; two ways from a to d that share their last edge, a  *)
(* cycle and every confidence; a target, a type that two nodes have, and   *)
(* a target with a type that the source has.                               *)
(* query: from the internet and an external account over an instance and a *)
(* role to a secret and a database; a user and a role of one name; and to  *)
(* the secret a long certain way, a short doubtful one and a short certain *)
(* one, in this order of their ids.  At most one is missing at the start.  *)
(***************************************************************************)
EXTENDS Querying, FiniteSets, TLC

CONSTANTS a, b, c, d, e

VARIABLE active

searchVars == vars
queryVars == <<known, links, sometime, always, window, queryChanges, request, queryPc,
               source, target, todo, raws, fromNode, answers, lost>>

-----------------------------------------------------------------------------
(* Inputs of AllPaths *)

MCNodes == {a, b, c, d, e}
MCAsked ==
  {[from |-> a, to |-> d, type |-> None], [from |-> a, to |-> None, type |-> "key"],
   [from |-> c, to |-> b, type |-> "key"]}
MCNodeSets == {MCNodes}
MCType == (a :> "user") @@ (b :> "role") @@ (c :> "key") @@ (d :> "key") @@ (e :> "role")
MCEdges == 1..7
MCSource == <<a, a, b, e, c, c, b>>
MCTarget == <<b, c, e, d, e, a, c>>
MCConfidence == <<"possible", "", "definite", "definite", "unknown", "definite", "blocked">>

-----------------------------------------------------------------------------
(* Inputs of Queries *)

QOrder == <<"external", "instance", "internet", "role", "secret", "user", "db">>
QNodes == {QOrder[i] : i \in DOMAIN QOrder}
QEdges == 1..8
QSource == <<"user", "role", "user", "user", "external", "internet", "instance", "internet">>
QTarget == <<"role", "secret", "secret", "secret", "role", "db", "role", "instance">>
QConfidence == <<"definite", "definite", "possible", "definite", "possible", "possible", "", "definite">>

QTypes == [external |-> "external-account", instance |-> "ec2-instance", internet |-> "internet",
          role |-> "iam-role", secret |-> "secret", user |-> "iam-user", db |-> "rds-instance"]
QPlace == [external |-> 2, instance |-> 1, internet |-> 5, role |-> 3, secret |-> 7, user |-> 4, db |-> 6]
QName == [n \in QNodes |-> IF n \in {"role", "user"} THEN "app" ELSE ""]

Asks(name, ref, to, type, depth, min, limit) ==
  [name |-> name, ref |-> ref, to |-> to, type |-> type, depth |-> depth, min |-> min, limit |-> limit,
   along |-> QEdges]
QCommands ==
  {Asks("who-can-access", "app", None, None, 1, "", 0),
   Asks("what-can-access", "internet", None, None, 0, "possible", 0),
   Asks("path", "user", "role", "secret", 0, "", 0), Asks("path", "internet", None, "iam-role", 2, "", 0),
   Asks("exposure", None, None, None, 0, "", 0)}
QGraphs == {g \in SUBSET QEdges : Cardinality(g) >= 7}
QToolCalls ==
  {Asks("who_can_access_resource", "secret", None, None, 0, "", 0),
   Asks("find_attack_paths", "user", "secret", None, 0, "", 2),
   Asks("find_attack_paths", "instance", None, None, 0, "", 0),
   Asks("find_privilege_escalation_paths", "app", None, None, 0, "", 0)}

-----------------------------------------------------------------------------
\* The input given to the part that does not run.
NoSearch == graph = {} /\ nodes = Nodes /\ query = CHOOSE q \in Queries : TRUE
NoQuery == links = QEdges /\ request = CHOOSE r \in Query!Requests : TRUE

MCInit ==
  \/ active = "search" /\ Init /\ NoQuery /\ Query!Init
  \/ active = "query" /\ NoSearch /\ Init /\ Query!Init

SearchStep == active = "search" /\ Next /\ UNCHANGED <<active, queryVars>>
QueryStep == active = "query" /\ Query!Next /\ UNCHANGED <<active, searchVars>>

MCSpec == MCInit /\ [][SearchStep \/ QueryStep]_<<active, searchVars, queryVars>>
=============================================================================

------------------------------ MODULE Queries ------------------------------
(***************************************************************************)
(* The queries of service.go: FindPaths, WhoCanReach, WhatCanReach and     *)
(* InternetExposure.  Each is a chain of store calls, which resolve names, *)
(* list nodes, search, and read the nodes at the ends of what was found,   *)
(* while a collection of another process may change the graph between any  *)
(* two.  The paths are scored and sorted at the end.                       *)
(*                                                                         *)
(* A search is one operation that ends with any answer which ShortestPath  *)
(* or AllPaths is shown to give (FoundIsPath, SteadyPathFound, and         *)
(* OutIsAnswers, OutInOrder, SteadyPathsFound) for what was stored from    *)
(* its first read to its last.  Scores are in hundredths.                  *)
(***************************************************************************)
EXTENDS Paths, Integers, FiniteSets

CONSTANTS Order,          \* the nodes in the order of their ids
          TypeOf, NameOf,
          PlaceOf,        \* place of a node in the alphabet, by type and then by name
          Internet,       \* the node that stands for it
          CrossAccount,   \* edges cross-account-access and external-trust
          ReachableFrom,  \* edges of derived exposure
          PrivilegeEdges, \* edges of the types privescEdges() lists
          Graphs,         \* sets of edges that may be stored when a query starts
          Commands,       \* query commands given to the program
          ToolCalls,      \* query tools called on the MCP server
          DefaultDepth, DefaultLimit,
          None,
          MaxChanges      \* bound on the changes to the graph during a query

PrincipalTypes == {"iam-user", "iam-role", "external-account", "anonymous-principal", "service-principal"}
OutsideTypes == {"internet", "anonymous-principal", "external-account", "federated-principal"}

\* Assumed where the constants get their values.  The id of an edge is made of its type
\* and its ends, and only exposure of another node is derived, with some confidence.
QueryAssumption ==
  /\ Nodes = {Order[i] : i \in DOMAIN Order} /\ Cardinality(Nodes) = Len(Order)
  /\ IsFiniteSet(Edges)
  /\ Internet \in Nodes /\ None \notin Nodes
  /\ CrossAccount \cup ReachableFrom \cup PrivilegeEdges \subseteq Edges
  /\ Graphs \subseteq SUBSET Edges /\ PlaceOf \in [Nodes -> Nat]
  /\ \A e \in ReachableFrom : Source[e] = Internet /\ Target[e] # Internet /\ Confidence[e] # "blocked"
  /\ \A e, f \in ReachableFrom : Target[e] = Target[f] => e = f
  /\ \A r \in Commands : r.name \in {"path", "who-can-access", "what-can-access", "exposure"}
  /\ \A r \in ToolCalls : r.name \in {"find_attack_paths", "find_privilege_escalation_paths",
       "who_can_access_resource", "what_can_principal_access", "find_internet_exposed_resources"}
  /\ \A r \in Commands \cup ToolCalls : {r.depth, r.limit} \subseteq Nat
  /\ {DefaultDepth, DefaultLimit} \subseteq Nat \ {0} /\ MaxChanges \in Nat

VARIABLES nodes, links,      \* stored nodes and edges
          sometime, always,  \* history: what was stored at some time of the query, and all the time
          window,            \* history: the same during the current search
          changes,
          request, pc,
          source, target,    \* ends of the current search
          todo,              \* nodes still to search from or to
          raws,              \* paths found, still to be explained
          fromNode,          \* the node read at the source of the first of them
          answers,
          lost               \* history: nodes that a failed read may have left out

graph == <<nodes, links>>
history == <<sometime, always, changes>>
vars == <<graph, history, window, request, pc, source, target, todo, raws, fromNode, answers, lost>>

-----------------------------------------------------------------------------
(* What is asked *)

Ask(op, args, depth, min, limit, along) ==
  [op |-> op, ref |-> args.ref, to |-> args.to, type |-> args.type,
   depth |-> depth, min |-> min, limit |-> limit, along |-> along]

Command(args) ==
  CASE args.name = "path" -> Ask("paths", args, args.depth, args.min, args.limit, args.along)
    [] args.name = "who-can-access" -> Ask("who", args, args.depth, args.min, 0, Edges)
    [] args.name = "what-can-access" -> Ask("what", args, args.depth, args.min, 0, Edges)
    [] args.name = "exposure" -> Ask("exposure", args, 0, "", 0, ReachableFrom)

Tool(args) ==
  CASE args.name = "find_attack_paths" -> Ask("paths", args, args.depth, args.min, args.limit, Edges)
    [] args.name = "find_privilege_escalation_paths" ->
         Ask("what", args, args.depth, "", args.limit, PrivilegeEdges)
    [] args.name = "who_can_access_resource" -> Ask("who", args, 0, "", 0, Edges)
    [] args.name = "what_can_principal_access" -> Ask("what", args, 0, "", 0, Edges)
    [] args.name = "find_internet_exposed_resources" -> Ask("exposure", args, 0, "", 0, ReachableFrom)

Requests == {Command(args) : args \in Commands} \cup {Tool(args) : args \in ToolCalls}

MaxDepth == IF request.depth = 0 THEN DefaultDepth ELSE request.depth
Limit == IF request.limit = 0 THEN DefaultLimit ELSE request.limit

Init ==
  /\ nodes = Nodes /\ links \in Graphs
  /\ sometime = [nodes |-> nodes, links |-> links] /\ always = sometime
  /\ window = [some |-> {}, all |-> {}, met |-> {}, kept |-> {}] /\ changes = 0
  /\ request \in Requests
  /\ pc = IF request.op = "exposure" THEN "list" ELSE "resolve"
  /\ source = None /\ target = None
  /\ todo = {} /\ raws = <<>> /\ fromNode = None /\ answers = <<>> /\ lost = {}

-----------------------------------------------------------------------------
(* What is named, and what is listed *)

\* ResolveNode: by id or ARN, else any node of that very name.
Resolves(ref, n) == n \in nodes /\ (n = ref \/ (ref \notin nodes /\ NameOf[n] = ref))

\* The subject of the query; of FindPaths the source, then the target.
Resolve ==
  /\ pc = "resolve"
  /\ \E n \in nodes :
       /\ Resolves(request.ref, n)
       /\ IF request.op = "who" THEN target' = n /\ UNCHANGED source ELSE source' = n /\ UNCHANGED target
  /\ pc' = IF request.op = "paths" THEN "resolve target" ELSE "list"
  /\ UNCHANGED <<graph, history, window, request, todo, raws, fromNode, answers, lost>>

\* The edges and the nodes stored at some time of the search, and all the time.
OpenWindow == window' = [some |-> links, all |-> links, met |-> nodes, kept |-> nodes]

\* With no target named, a type of targets alone counts.
ResolveTarget ==
  /\ pc = "resolve target"
  /\ IF request.to = None THEN UNCHANGED target
     ELSE \E n \in nodes : Resolves(request.to, n) /\ target' = n
  /\ pc' = "search" /\ OpenWindow
  /\ UNCHANGED <<graph, history, request, source, todo, raws, fromNode, answers, lost>>

NotFound ==
  /\ \/ pc = "resolve" /\ \A n \in nodes : ~ Resolves(request.ref, n)
     \/ pc = "resolve target" /\ request.to # None /\ \A n \in nodes : ~ Resolves(request.to, n)
  /\ pc' = "error"
  /\ UNCHANGED <<graph, history, window, request, source, target, todo, raws, fromNode, answers, lost>>

\* AllNodes, and the nodes the loop does not pass over.
ListNodes ==
  /\ pc = "list" /\ request.op \in {"who", "what"}
  /\ todo' = IF request.op = "who" THEN {n \in nodes \ {target} : TypeOf[n] \in PrincipalTypes}
             ELSE nodes \ {source}
  /\ pc' = "build"
  /\ UNCHANGED <<graph, history, window, request, source, target, raws, fromNode, answers, lost>>

-----------------------------------------------------------------------------
(* Searches *)

IsFirst(n) == n \in todo /\ \A i, j \in DOMAIN Order : Order[i] = n /\ Order[j] \in todo => i <= j

StartSearch(n) ==
  /\ pc = "loop" /\ IsFirst(n)
  /\ todo' = todo \ {n}
  /\ IF request.op = "who" THEN source' = n /\ UNCHANGED target ELSE target' = n /\ UNCHANGED source
  /\ pc' = "search" /\ OpenWindow
  /\ UNCHANGED <<graph, history, request, raws, fromNode, answers, lost>>

\* Simple paths from the source over stored edges of the types asked, within the depth,
\* and those of them to the target.
PathsAlong(stored) ==
  {p \in Sequences(stored \cap request.along, MaxDepth) :
     IsWalk(p, source, stored, request.min) /\ IsSimple(p, source)}
RoutesAlong(stored) == {p \in PathsAlong(stored) : End(source, p) = target}

IsShortest(p) == \A q \in RoutesAlong(window.all) : Len(p) <= Len(q)

\* Fault: the loop ends at the first node without a path.
SearchEndsLoop ==
  /\ pc = "search" /\ request.op \in {"who", "what"}
  /\ \/ \E p \in RoutesAlong(window.some) : IsShortest(p) /\ raws' = <<p>> /\ UNCHANGED todo
     \/ RoutesAlong(window.all) = {} /\ raws' = <<>> /\ todo' = {}
  /\ pc' = "build"
  /\ UNCHANGED <<graph, history, window, request, source, target, fromNode, answers, lost>>

\* ShortestPath ends with a shortest path, or with none.
EndSearch ==
  /\ pc = "search" /\ request.op \in {"who", "what"}
  /\ \/ \E p \in RoutesAlong(window.some) : IsShortest(p) /\ raws' = <<p>>
     \/ RoutesAlong(window.all) = {} /\ raws' = <<>>
  /\ pc' = "build"
  /\ UNCHANGED <<graph, history, window, request, source, target, todo, fromNode, answers, lost>>

\* Where AllPaths may end a path, and where it must, when it could not read some nodes.
Wanted(n) == request.type # None /\ TypeOf[n] = request.type
MayStop(n) == n = target \/ (Wanted(n) /\ n \in window.met)
MustStop(n, unread) == n = target \/ (Wanted(n) /\ n \in window.kept \ unread)
Answering(unread) ==
  {p \in PathsAlong(window.some) :
     \A i \in 1..Len(p) : IF i = Len(p) THEN MayStop(Target[p[i]]) ELSE ~ MustStop(Target[p[i]], unread)}
Owed(unread) ==
  {p \in PathsAlong(window.all) :
     \A i \in 1..Len(p) : IF i = Len(p) THEN MustStop(Target[p[i]], unread) ELSE ~ MayStop(Target[p[i]])}

\* AllPaths ends with the first paths in id order, up to the limit.
EndEnumeration ==
  /\ pc = "search" /\ request.op = "paths"
  /\ \E unread \in SUBSET {m \in window.met : Wanted(m)} :
       /\ \E n \in 0..Limit : \E found \in [1..n -> Answering(unread)] :
            /\ \A i, j \in 1..n : i < j => Precedes(found[i], found[j])
            /\ \A p \in Owed(unread) :
                 (\A i \in 1..n : found[i] # p) => n = Limit /\ Precedes(found[n], p)
            /\ raws' = found
       /\ lost' = lost \cup unread
  /\ pc' = "build"
  /\ UNCHANGED <<graph, history, window, request, source, target, todo, fromNode, answers>>

-----------------------------------------------------------------------------
(* What an answer says *)

\* Fault: the last edge decides.
LastConfidence(p) == Confidence[p[Len(p)]]

\* The confidence of a path is that of its first weakest edge.
WeakestConfidence(p) ==
  LET weakest == CHOOSE i \in DOMAIN p :
        /\ \A j \in DOMAIN p : Rank(Confidence[p[i]]) <= Rank(Confidence[p[j]])
        /\ \A j \in 1..(i - 1) : Rank(Confidence[p[j]]) # Rank(Confidence[p[i]])
  IN  Confidence[p[weakest]]

\* Destination sensitivity, times ten; of a node that was not there, nothing.
Weight(n) ==
  LET type == IF n = None THEN "none" ELSE TypeOf[n]
  IN  CASE type = "secret" -> 3000
        [] type \in {"kms-key", "rds-instance"} -> 2500
        [] type = "s3-bucket" -> 2000
        [] type \in {"iam-role", "iam-policy"} -> 1500
        [] OTHER -> 0

Clamp(x) == IF x < 0 THEN 0 ELSE IF x > 10000 THEN 10000 ELSE x

ScorePath(p) ==
  LET outside == IF p.from # None /\ TypeOf[p.from] \in OutsideTypes THEN 1500 ELSE 0
      crossing == IF \E i \in DOMAIN p.steps : p.steps[i] \in CrossAccount THEN 1000 ELSE 0
      points == 2000 + Weight(p.to) + outside + crossing - 200 * (Len(p.steps) - 1)
  IN  Clamp(CASE p.confidence = "definite" -> points
              [] p.confidence = "possible" -> (points * 6) \div 10
              [] p.confidence \in {"unknown", ""} -> (points * 3) \div 10
              [] p.confidence = "blocked" -> 0)

SeverityForScore(score) ==
  CASE score >= 7000 -> "critical"
    [] score >= 5000 /\ score < 7000 -> "high"
    [] score >= 3000 /\ score < 5000 -> "medium"
    [] score > 0 /\ score < 3000 -> "low"
    [] OTHER -> "info"

Reading(n) == IF n \in nodes THEN n ELSE None

\* BuildAttackPath reads the node at the start of the path, then the one at its end.
ReadSource ==
  /\ pc = "build" /\ raws # <<>>
  /\ fromNode' = Reading(Source[Head(raws)[1]])
  /\ pc' = "read target"
  /\ UNCHANGED <<graph, history, window, request, source, target, todo, raws, answers, lost>>

ReadTarget ==
  LET steps == Head(raws)
      path == [steps |-> steps, from |-> fromNode, to |-> Reading(End(source, steps)),
               confidence |-> WeakestConfidence(steps)]
      score == ScorePath(path)
  IN  /\ pc = "read target"
      /\ answers' = Append(answers, [path |-> path, score |-> score, severity |-> SeverityForScore(score)])
      /\ raws' = Tail(raws) /\ fromNode' = None /\ pc' = "build"
      /\ UNCHANGED <<graph, history, window, request, source, target, todo, lost>>

\* The loop over the nodes goes on.
NextNode ==
  /\ pc = "build" /\ raws = <<>> /\ todo # {}
  /\ pc' = "loop"
  /\ UNCHANGED <<graph, history, window, request, source, target, todo, raws, fromNode, answers, lost>>

-----------------------------------------------------------------------------
(* InternetExposure *)

\* OutEdges of the internet node.
ListExposure ==
  /\ pc = "list" /\ request.op = "exposure"
  /\ LET edges == links \cap request.along
     IN  \E rows \in [1..Cardinality(edges) -> edges] :
           /\ \A i, j \in DOMAIN rows : i < j => rows[i] < rows[j]
           /\ raws' = [i \in DOMAIN rows |-> <<rows[i]>>]
  /\ pc' = "expose"
  /\ UNCHANGED <<graph, history, window, request, source, target, todo, fromNode, answers, lost>>

\* Each resource is read; one that is missing, or whose read fails, is left out.
ReadExposed ==
  LET steps == Head(raws)
      resource == Target[steps[1]]
  IN  /\ pc = "expose" /\ raws # <<>>
      /\ raws' = Tail(raws)
      /\ \/ /\ resource \in nodes
            /\ answers' = Append(answers, [path |-> [steps |-> steps, from |-> Internet, to |-> resource,
                                                     confidence |-> Confidence[steps[1]]],
                                           score |-> 0, severity |-> "info"])
            /\ UNCHANGED lost
         \/ resource \notin nodes /\ UNCHANGED <<answers, lost>>
         \/ lost' = lost \cup {resource} /\ UNCHANGED answers
      /\ UNCHANGED <<graph, history, window, request, pc, source, target, todo, fromNode>>

-----------------------------------------------------------------------------
(* Order of the answers: by score, of FindPaths then by length; of exposed *)
(* resources by type, then by name.  The sort is stable.                   *)

Before(i, j) ==
  LET p == answers[i] q == answers[j]
  IN  IF request.op = "exposure" THEN PlaceOf[p.path.to] < PlaceOf[q.path.to]
      ELSE \/ p.score > q.score
           \/ p.score = q.score /\ request.op = "paths" /\ Len(p.path.steps) < Len(q.path.steps)

\* The place of answer i after the sort.
Position(i) == Cardinality({j \in DOMAIN answers : Before(j, i) \/ (~ Before(i, j) /\ j <= i)})

Sort ==
  /\ pc \in {"build", "expose"} /\ raws = <<>> /\ todo = {}
  /\ answers' = [k \in DOMAIN answers |-> answers[CHOOSE i \in DOMAIN answers : Position(i) = k]]
  /\ pc' = "done"
  /\ UNCHANGED <<graph, history, window, request, source, target, todo, raws, fromNode, lost>>

-----------------------------------------------------------------------------
\* Any other store call fails: there is no answer.
Fail ==
  /\ pc \notin {"expose", "done", "error"}
  /\ pc' = "error" /\ answers' = <<>>
  /\ UNCHANGED <<graph, history, window, request, source, target, todo, raws, fromNode, lost>>

Toggle(set, x) == IF x \in set THEN set \ {x} ELSE set \cup {x}

\* Another process stores a node or an edge, or removes one.
GraphChanges ==
  /\ pc \notin {"done", "error"} /\ changes < MaxChanges
  /\ changes' = changes + 1
  /\ \/ \E n \in Nodes : nodes' = Toggle(nodes, n) /\ UNCHANGED links
     \/ \E e \in Edges : links' = Toggle(links, e) /\ UNCHANGED nodes
  /\ sometime' = [nodes |-> sometime.nodes \cup nodes', links |-> sometime.links \cup links']
  /\ always' = [nodes |-> always.nodes \cap nodes', links |-> always.links \cap links']
  /\ window' = [some |-> window.some \cup links', all |-> window.all \cap links',
                 met |-> window.met \cup nodes', kept |-> window.kept \cap nodes']
  /\ UNCHANGED <<request, pc, source, target, todo, raws, fromNode, answers, lost>>

Step ==
  \/ Resolve \/ ResolveTarget \/ NotFound \/ ListNodes
  \/ \E n \in Nodes : StartSearch(n)
  \/ EndSearch \/ EndEnumeration \/ ReadSource \/ ReadTarget \/ NextNode \/ Sort
  \/ ListExposure \/ ReadExposed

Next == Step \/ Fail \/ GraphChanges

Spec == Init /\ [][Next]_vars

-----------------------------------------------------------------------------
(* Properties *)

Ends(answer) == <<Source[answer.path.steps[1]], End(source, answer.path.steps)>>

\* The targets of FindPaths, of which a search goes to the first it meets.
IsSought(n) == n = target \/ (Wanted(n) /\ n \in sometime.nodes)
IsDirect(p) == request.op = "paths" => \A i \in 1..(Len(p) - 1) : ~ IsSought(Target[p[i]])

\* The pairs of nodes a request asks about, and the paths that join them.
AskedPairs ==
  CASE request.op = "who" -> {<<n, target>> : n \in {m \in Nodes \ {target} : TypeOf[m] \in PrincipalTypes}}
    [] request.op = "what" -> {<<source, n>> : n \in Nodes \ {source}}
    [] request.op = "paths" -> {<<source, n>> : n \in {m \in Nodes : IsSought(m)}}
    [] request.op = "exposure" -> {<<Internet, n>> : n \in Nodes}
Joins(p, pair, stored) ==
  /\ p # <<>> /\ Len(p) <= MaxDepth /\ End(pair[1], p) = pair[2]
  /\ IsWalk(p, pair[1], stored \cap request.along, request.min) /\ IsSimple(p, pair[1])
  /\ request.op = "exposure" => Len(p) = 1

\* Every principal that had a path to the resource all the time, every resource or
\* target that could be reached all the time, and everything exposed all the time is in
\* the answer, once, unless FindPaths is at its limit or a failed read of the resource or
\* target is in the way; and all that is in the answer is asked for and was joined by
\* stored edges.
ReachIsListed ==
  pc = "done" =>
    /\ \A pair \in AskedPairs : {pair[1], pair[2]} \subseteq always.nodes =>
         \/ \E i \in DOMAIN answers : Ends(answers[i]) = pair
         \/ \A p \in Sequences(always.links, MaxDepth) : ~ (Joins(p, pair, always.links) /\ IsDirect(p))
         \/ pair[2] \in lost
         \/ request.op = "paths" /\ Len(answers) = Limit
    /\ \A i \in DOMAIN answers :
         Ends(answers[i]) \in AskedPairs /\ Joins(answers[i].path.steps, Ends(answers[i]), sometime.links)
    /\ \A i, j \in DOMAIN answers : answers[i].path.steps = answers[j].path.steps => i = j
    /\ request.op # "paths" => \A i, j \in DOMAIN answers : Ends(answers[i]) = Ends(answers[j]) => i = j

\* What speaks for a path: its steps and the nodes that were read at its ends.
Stronger(p, q) ==
  /\ p.from = q.from /\ p.to = q.to
  /\ \A i \in DOMAIN p.steps : \E j \in DOMAIN q.steps :
       Rank(Confidence[p.steps[i]]) >= Rank(Confidence[q.steps[j]])
  /\ (\E j \in DOMAIN q.steps : q.steps[j] \in CrossAccount) => \E i \in DOMAIN p.steps : p.steps[i] \in CrossAccount
  /\ Len(p.steps) < Len(q.steps)

\* The order is by score, of exposed resources by type and name whatever the order of
\* their edges, and it means something: of two paths between what was read as the same
\* nodes, the one that is shorter, no less certain and crosses accounts if the other does
\* comes first, unless neither scores at all; and what is called critical or high rests
\* on definite edges alone.
RankingIsEarned ==
  pc = "done" =>
    /\ \A i, j \in DOMAIN answers : i < j =>
         IF request.op = "exposure" THEN PlaceOf[answers[i].path.to] <= PlaceOf[answers[j].path.to]
         ELSE /\ answers[i].score >= answers[j].score
              /\ Stronger(answers[j].path, answers[i].path) => request.op # "paths" /\ answers[i].score = 0
    /\ \A i \in DOMAIN answers : answers[i].severity \in {"critical", "high"} =>
         \A k \in DOMAIN answers[i].path.steps : Confidence[answers[i].path.steps[k]] = "definite"
=============================================================================

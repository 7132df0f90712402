---------------------------- MODULE ShortestPath ----------------------------
(***************************************************************************)
(* Store.ShortestPath: breadth-first search that reads the outgoing edges  *)
(* of one node at a time, while a collection of another process may change *)
(* the graph between two reads.  The edges of one node are one query, and  *)
(* the loop over its rows touches only local variables: one step.          *)
(*                                                                         *)
(* The queue is the set of its paths.  Each node's edges are appended in   *)
(* id order behind shorter paths, so the head is the shortest path and,    *)
(* among those, the one that precedes the others.                          *)
(***************************************************************************)
EXTENDS Paths

CONSTANTS Asked,         \* pairs of nodes asked about
          DepthOptions,  \* values of TraverseOptions.MaxDepth
          MinOptions,    \* values of TraverseOptions.MinConf
          DefaultDepth,
          MaxChanges     \* bound on the changes to the graph during a search

ASSUME QueryAssumption ==
  /\ Asked \subseteq Nodes \X Nodes
  /\ DepthOptions \subseteq Nat
  /\ DefaultDepth \in Nat \ {0}
  /\ MaxChanges \in Nat

VARIABLES graph,    \* stored edges
          ever,     \* history: edges stored at some time during the search
          steady,   \* history: edges stored all the time
          changes,
          query,    \* arguments and options
          queue, visited,
          result,   \* path returned
          outcome

history == <<ever, steady, changes>>
vars == <<graph, history, query, queue, visited, result, outcome>>

Queries ==
  {[from |-> ask[1], to |-> ask[2], depth |-> d, min |-> m] :
     ask \in Asked, d \in DepthOptions, m \in MinOptions}
MaxDepth == IF query.depth = 0 THEN DefaultDepth ELSE query.depth

TypeOK ==
  /\ graph \subseteq Edges /\ ever \subseteq Edges /\ steady \subseteq Edges
  /\ changes \in 0..MaxChanges
  /\ query \in Queries
  /\ queue \subseteq Seq(Edges)
  /\ visited \subseteq Nodes
  /\ result \in Seq(Edges)
  /\ outcome \in {"searching", "found", "none", "error"}

Init ==
  /\ graph \in SUBSET Edges /\ ever = graph /\ steady = graph /\ changes = 0
  /\ query \in Queries
  /\ queue = {<<>>}
  /\ visited = {query.from}
  /\ result = <<>>
  /\ outcome = "searching"

\* Fault: the queue is used as a stack.
IsDeepest(p) ==
  \A q \in queue \ {p} : Len(p) > Len(q) \/ (Len(p) = Len(q) /\ Precedes(p, q))

IsHead(p) ==
  \A q \in queue \ {p} : Len(p) < Len(q) \/ (Len(p) = Len(q) /\ Precedes(p, q))

\* Fault: the confidence of an edge is not checked.
FreshOfAnyConfidence(p) ==
  {e \in graph : Source[e] = End(query.from, p) /\ Target[e] \notin visited}

\* Edges the loop does not skip, and of those to the same node the first.
Fresh(p) ==
  {e \in graph : /\ Source[e] = End(query.from, p)
                 /\ ConfidenceOK(e, query.min)
                 /\ Target[e] \notin visited}

Leading(edges) == {e \in edges : \A f \in edges : Target[f] = Target[e] => e <= f}

\* Fault: the loop continues before it has taken the path off the queue.
KeepDeep(p) ==
  /\ Len(p) >= MaxDepth
  /\ UNCHANGED vars

\* Paths of full length are dropped unexpanded.
DropDeep(p) ==
  /\ Len(p) >= MaxDepth
  /\ queue' = queue \ {p}
  /\ UNCHANGED <<graph, history, query, visited, result, outcome>>

\* The target is met: the search returns at once.
ReachTarget(p, e) ==
  /\ Len(p) < MaxDepth
  /\ e \in Leading(Fresh(p)) /\ Target[e] = query.to
  /\ result' = Append(p, e)
  /\ outcome' = "found"
  /\ UNCHANGED <<graph, history, query, queue, visited>>

\* Fault: the visited map is keyed by edge instead of node.
ExpandByEdge(p) ==
  /\ Len(p) < MaxDepth
  /\ \A e \in Fresh(p) : Target[e] # query.to
  /\ queue' = (queue \ {p}) \cup {Append(p, e) : e \in Leading(Fresh(p))}
  /\ visited' = visited \cup Fresh(p)
  /\ UNCHANGED <<graph, history, query, result, outcome>>

Expand(p) ==
  /\ Len(p) < MaxDepth
  /\ \A e \in Fresh(p) : Target[e] # query.to
  /\ queue' = (queue \ {p}) \cup {Append(p, e) : e \in Leading(Fresh(p))}
  /\ visited' = visited \cup {Target[e] : e \in Fresh(p)}
  /\ UNCHANGED <<graph, history, query, result, outcome>>

GiveUp ==
  /\ queue = {}
  /\ outcome' = "none"
  /\ UNCHANGED <<graph, history, query, queue, visited, result>>

\* The context is cancelled, or a read fails.
Cancel ==
  /\ outcome = "searching"
  /\ outcome' = "error"
  /\ UNCHANGED <<graph, history, query, queue, visited, result>>

\* Another process stores an edge or removes one.
GraphChanges ==
  /\ outcome = "searching" /\ changes < MaxChanges
  /\ changes' = changes + 1
  /\ \E e \in Edges : graph' = IF e \in graph THEN graph \ {e} ELSE graph \cup {e}
  /\ ever' = ever \cup graph'
  /\ steady' = steady \cap graph'
  /\ UNCHANGED <<query, queue, visited, result, outcome>>

Search ==
  /\ outcome = "searching"
  /\ \/ \E p \in queue : /\ IsHead(p)
                         /\ DropDeep(p) \/ Expand(p) \/ \E e \in Edges : ReachTarget(p, e)
     \/ GiveUp

Next == Search \/ Cancel \/ GraphChanges

Spec == Init /\ [][Next]_vars /\ WF_vars(Search)

-----------------------------------------------------------------------------
(* Properties *)

\* A path that is returned leads from the source to the target, follows only
\* edges stored at some time during the search and of sufficient confidence,
\* meets no node twice and is no longer than MaxDepth.
FoundIsPath ==
  outcome = "found" =>
    /\ result # <<>> /\ Len(result) <= MaxDepth
    /\ IsWalk(result, query.from, ever, query.min)
    /\ IsSimple(result, query.from)
    /\ End(query.from, result) = query.to

\* "ShortestPath returns the shortest path or nil if none exists within
\* MaxDepth": a path that was stored throughout is not missed, however the rest
\* of the graph changed, and nothing longer is returned.
SteadyPathFound ==
  outcome \in {"found", "none"} /\ query.from # query.to =>
    \A p \in Sequences(steady, MaxDepth) :
      IsWalk(p, query.from, steady, query.min) /\ End(query.from, p) = query.to
        => outcome = "found" /\ Len(result) <= Len(p)

\* The search ends on any graph, cyclic or changing: the visited set grows.
Terminates == <>(outcome # "searching")
=============================================================================

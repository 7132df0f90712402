------------------------------ MODULE AllPaths ------------------------------
(***************************************************************************)
(* Store.AllPaths: depth-first search for simple paths to a node, to any   *)
(* node of a type, or to both.  It reads the outgoing edges of a node when *)
(* it enters it and, when a type is asked for, every node an edge leads    *)
(* to; a read of these that fails, or finds nothing, stops nothing.  A     *)
(* collection of another process may change the graph between two reads.   *)
(* The stack is the recursion of dfs: per call, the edges its loop has not *)
(* looked at yet.                                                          *)
(***************************************************************************)
EXTENDS Paths

CONSTANTS TypeOf, None,
          NodeSets,      \* sets of nodes that may be stored when a search starts
          Asked,         \* sources, with a target, a type of targets, or None
          DepthOptions,  \* values of TraverseOptions.MaxDepth
          LimitOptions,  \* values of TraverseOptions.Limit
          MinOptions,    \* values of TraverseOptions.MinConf
          DefaultDepth, DefaultLimit,
          MaxChanges     \* bound on the changes to the graph during a search

ASSUME QueryAssumption ==
  /\ None \notin Nodes /\ NodeSets \subseteq SUBSET Nodes
  /\ \A ask \in Asked : ask.from \in Nodes
  /\ DepthOptions \subseteq Nat /\ LimitOptions \subseteq Nat
  /\ DefaultDepth \in Nat \ {0} /\ DefaultLimit \in Nat \ {0}
  /\ MaxChanges \in Nat

VARIABLES graph, nodes,              \* stored edges and nodes
          ever, everNodes,           \* history: what was stored at some time during the search
          steady, steadyNodes,       \* history: what was stored all the time
          changes,
          unread,                    \* history: nodes of the type asked whose read failed
          query,                     \* arguments and options
          stack,                     \* loops of the calls of dfs under way, the innermost last
          path,                      \* argument path of the innermost call
          onPath,
          out,                       \* paths found
          pc                         \* what the innermost call does next

store == <<graph, nodes>>
history == <<ever, everNodes, steady, steadyNodes, changes>>
vars == <<store, history, unread, query, stack, path, onPath, out, pc>>

Queries ==
  {[from |-> ask.from, to |-> ask.to, type |-> ask.type, depth |-> d, limit |-> l, min |-> m] :
     ask \in Asked, d \in DepthOptions, l \in LimitOptions, m \in MinOptions}

MaxDepth == IF query.depth = 0 THEN DefaultDepth ELSE query.depth
Limit == IF query.limit = 0 THEN DefaultLimit ELSE query.limit

TypeOK ==
  /\ graph \subseteq Edges /\ ever \subseteq Edges /\ steady \subseteq Edges
  /\ nodes \subseteq Nodes /\ everNodes \subseteq Nodes /\ steadyNodes \subseteq Nodes
  /\ changes \in 0..MaxChanges /\ unread \subseteq Nodes
  /\ query \in Queries
  /\ stack \in Seq(SUBSET Edges)
  /\ path \in Seq(Edges)
  /\ onPath \subseteq Nodes
  /\ out \in Seq(Seq(Edges))
  /\ pc \in {"enter", "loop", "return", "done", "error"}
  /\ Len(stack) = Len(path) + (IF pc = "loop" THEN 1 ELSE 0)
  /\ onPath = {query.from} \cup Targets(path)

Init ==
  /\ graph \in SUBSET Edges /\ ever = graph /\ steady = graph
  /\ nodes \in NodeSets /\ everNodes = nodes /\ steadyNodes = nodes
  /\ changes = 0 /\ unread = {}
  /\ query \in Queries
  /\ stack = <<>> /\ path = <<>>
  /\ onPath = {query.from}
  /\ out = <<>>
  /\ pc = "enter"

Top == stack[Len(stack)]
Full == Len(out) >= Limit

\* dfs is called on the node path leads to.
Refuse ==
  /\ pc = "enter"
  /\ Full \/ Len(path) >= MaxDepth
  /\ pc' = "return"
  /\ UNCHANGED <<store, history, unread, query, stack, path, onPath, out>>

ReadEdges ==
  /\ pc = "enter"
  /\ ~ Full /\ Len(path) < MaxDepth
  /\ stack' = Append(stack, {e \in graph : Source[e] = End(query.from, path)})
  /\ pc' = "loop"
  /\ UNCHANGED <<store, history, unread, query, path, onPath, out>>

\* The loop ends, and with it the call.
LoopEnds ==
  /\ pc = "loop"
  /\ Full \/ Top = {}
  /\ stack' = SubSeq(stack, 1, Len(stack) - 1)
  /\ pc' = "return"
  /\ UNCHANGED <<store, history, unread, query, path, onPath, out>>

\* Fault: the rows come in no particular order.
IsAny(e) == e \in Top

\* The loop takes its next edge, in id order.
IsNext(e) == e \in Top /\ \A f \in Top : e <= f
Advance(e) == stack' = [stack EXCEPT ![Len(stack)] = @ \ {e}]

\* Fault: the nodes of the path may be met again.
SkippedByConfidence(e) == ~ ConfidenceOK(e, query.min)

Skipped(e) == ~ ConfidenceOK(e, query.min) \/ Target[e] \in onPath

Skip(e) ==
  /\ pc = "loop"
  /\ ~ Full /\ IsNext(e)
  /\ Skipped(e)
  /\ Advance(e)
  /\ UNCHANGED <<store, history, unread, query, path, onPath, out, pc>>

Wanted(n) == query.type # None /\ TypeOf[n] = query.type

\* What makes the node an edge leads to a target, when its read does not fail.
IsTarget(e) == Target[e] = query.to \/ (Wanted(Target[e]) /\ Target[e] \in nodes)

Hit(e) ==
  /\ pc = "loop"
  /\ ~ Full /\ IsNext(e)
  /\ ~ Skipped(e) /\ IsTarget(e)
  /\ Advance(e)
  /\ out' = Append(out, Append(path, e))
  /\ UNCHANGED <<store, history, unread, query, path, onPath, pc>>

\* The node is no target, or is none because its read fails: the search goes on through it.
Descend(e) ==
  /\ pc = "loop"
  /\ ~ Full /\ IsNext(e)
  /\ ~ Skipped(e) /\ Target[e] # query.to
  /\ unread' = IF IsTarget(e) THEN unread \cup {Target[e]} ELSE unread
  /\ Advance(e)
  /\ path' = Append(path, e)
  /\ onPath' = onPath \cup {Target[e]}
  /\ pc' = "enter"
  /\ UNCHANGED <<store, history, query, out>>

\* Fault: the node stays marked after the return.
ReturnMarked ==
  /\ pc = "return"
  /\ IF path = <<>>
       THEN pc' = "done" /\ UNCHANGED path
       ELSE /\ pc' = "loop"
            /\ path' = SubSeq(path, 1, Len(path) - 1)
  /\ UNCHANGED <<store, history, unread, query, stack, onPath, out>>

\* Back in the caller's loop, which forgets the node it had descended to.
Return ==
  /\ pc = "return"
  /\ IF path = <<>>
       THEN pc' = "done" /\ UNCHANGED <<path, onPath>>
       ELSE /\ pc' = "loop"
            /\ onPath' = onPath \ {End(query.from, path)}
            /\ path' = SubSeq(path, 1, Len(path) - 1)
  /\ UNCHANGED <<store, history, unread, query, stack, out>>

Searching == pc \in {"enter", "loop", "return"}

\* The context is cancelled, or the read of the edges fails.
Cancel ==
  /\ pc = "enter"
  /\ pc' = "error"
  /\ UNCHANGED <<store, history, unread, query, stack, path, onPath, out>>

Toggle(set, x) == IF x \in set THEN set \ {x} ELSE set \cup {x}

\* Another process stores a node or an edge, or removes one.
GraphChanges ==
  /\ Searching /\ changes < MaxChanges
  /\ changes' = changes + 1
  /\ \/ \E e \in Edges : graph' = Toggle(graph, e) /\ UNCHANGED nodes
     \/ \E n \in Nodes : nodes' = Toggle(nodes, n) /\ UNCHANGED graph
  /\ ever' = ever \cup graph' /\ everNodes' = everNodes \cup nodes'
  /\ steady' = steady \cap graph' /\ steadyNodes' = steadyNodes \cap nodes'
  /\ UNCHANGED <<unread, query, stack, path, onPath, out, pc>>

Search ==
  \/ Refuse \/ ReadEdges \/ LoopEnds \/ Return
  \/ \E e \in Edges : Skip(e) \/ Hit(e) \/ Descend(e)

Next == Search \/ Cancel \/ GraphChanges

Spec == Init /\ [][Next]_vars

-----------------------------------------------------------------------------
(* Properties *)

\* A route from the source, along stored edges of sufficient confidence, that meets no
\* node twice.
IsRoute(p, stored) ==
  /\ p # <<>> /\ Len(p) <= MaxDepth
  /\ IsWalk(p, query.from, stored, query.min)
  /\ IsSimple(p, query.from)

\* The nodes at which a search may have ended a path, and those it cannot have passed:
\* a node of the type asked is passed while it is not stored, and when its read fails.
MayStop(n) == n = query.to \/ (Wanted(n) /\ n \in everNodes)
MustStop(n) == n = query.to \/ (Wanted(n) /\ n \in steadyNodes \ unread)

IsAnswer(p) ==
  /\ IsRoute(p, ever)
  /\ \A i \in 1..Len(p) : IF i = Len(p) THEN MayStop(Target[p[i]]) ELSE ~ MustStop(Target[p[i]])
IsOwed(p) ==
  /\ IsRoute(p, steady)
  /\ \A i \in 1..Len(p) : IF i = Len(p) THEN MustStop(Target[p[i]]) ELSE ~ MayStop(Target[p[i]])

\* Every path returned is a route over edges seen during the search to the first target
\* it meets that was there to be met, within the depth and the limit.
OutIsAnswers ==
  Len(out) <= Limit /\ \A i \in 1..Len(out) : IsAnswer(out[i])

\* The paths come in one order, each once, so that two searches of the same
\* graph agree ("Deterministic", README) and the limit cuts off the last ones.
OutInOrder ==
  \A i, j \in 1..Len(out) : i < j => Precedes(out[i], out[j])

\* AllPaths enumerates the simple paths up to MaxDepth, capped at Limit: one whose edges
\* were stored throughout, to a target stored throughout and met first, is missing only
\* behind a full list or when the read of the target failed.
SteadyPathsFound ==
  pc = "done" =>
    \A p \in Sequences(steady, MaxDepth) :
      IsOwed(p) =>
        \/ \E i \in 1..Len(out) : out[i] = p
        \/ Len(out) = Limit /\ Precedes(out[Limit], p)
=============================================================================

--------------------------- MODULE QueryingProofs ---------------------------
(***************************************************************************)
(* Theorems about AllPaths and Queries, for every graph, every request and *)
(* any number of changes to the graph while the search or the query runs.  *)
(***************************************************************************)
EXTENDS Querying, PathLemmas, FiniteSetTheorems

LEMMA QueryTyped ==
  ASSUME query \in Queries
  PROVE  /\ query.from \in Nodes
         /\ MaxDepth \in Nat \ {0} /\ Limit \in Nat \ {0}
BY QueryAssumption DEF Queries, MaxDepth, Limit

\* A path appended to the paths found comes last.
LEMMA FoundAppend ==
  ASSUME NEW o \in Seq(Seq(Edges)), NEW p \in Seq(Edges)
  PROVE  /\ Append(o, p) \in Seq(Seq(Edges)) /\ Len(Append(o, p)) = Len(o) + 1
         /\ \A i \in 1..Len(o) : Append(o, p)[i] = o[i]
         /\ Append(o, p)[Len(o) + 1] = p
<1> DEFINE S == Seq(Edges)
<1>1. o \in Seq(S) /\ p \in S
  OBVIOUS
<1> HIDE DEF S
<1>2. /\ Append(o, p) \in Seq(S) /\ Len(Append(o, p)) = Len(o) + 1
      /\ \A i \in 1..Len(o) : Append(o, p)[i] = o[i]
      /\ Append(o, p)[Len(o) + 1] = p
  BY <1>1, AppendProperties
<1> QED
  BY <1>2 DEF S

HistoryInv ==
  /\ steady \subseteq graph /\ graph \subseteq ever
  /\ steadyNodes \subseteq nodes /\ nodes \subseteq everNodes

\* The node at which the loop of the j-th call stands.
Node(j) == IF j = 1 THEN query.from ELSE Target[path[j - 1]]

\* The path under way is a simple walk that has passed no target, and the loop of
\* each call still has edges of its own node before it, later than the one
\* through which the search has gone on.
SearchInv ==
  /\ IsWalk(path, query.from, ever, query.min)
  /\ IsSimple(path, query.from)
  /\ \A n \in Targets(path) : ~ MustStop(n)
  /\ Len(path) <= MaxDepth
  /\ pc = "loop" => Len(path) < MaxDepth
  /\ pc = "done" => stack = <<>>
  /\ \A j \in 1..Len(stack) : \A e \in stack[j] : e \in ever /\ Source[e] = Node(j)
  /\ \A j \in 1..Len(path) : \A e \in stack[j] : path[j] < e

Inv == TypeOK /\ HistoryInv /\ SearchInv

\* The nodes a search must stop at only get fewer, those it may stop at only more.
LEMMA StopsStep ==
  ASSUME Inv, [Next]_vars
  PROVE  /\ query' = query /\ steady' \subseteq steady /\ ever \subseteq ever'
         /\ steadyNodes' \subseteq steadyNodes /\ everNodes \subseteq everNodes' /\ unread \subseteq unread'
         /\ \A n : MustStop(n)' => MustStop(n)
         /\ \A n : MayStop(n) => MayStop(n)'
<1>1. /\ query' = query /\ steady' \subseteq steady /\ ever \subseteq ever'
      /\ steadyNodes' \subseteq steadyNodes /\ everNodes \subseteq everNodes' /\ unread \subseteq unread'
  BY DEF Next, Search, Refuse, ReadEdges, LoopEnds, Return, Skip, Hit, Descend, Cancel, GraphChanges, vars, history
<1> QED
  BY <1>1 DEF MustStop, MayStop, Wanted

LEMMA InvInit == Init => Inv
<1> SUFFICES ASSUME Init PROVE Inv
  OBVIOUS
<1>1. query.from \in Nodes /\ MaxDepth \in Nat \ {0}
  BY QueryTyped DEF Init
<1>2. Len(<<>>) = 0 /\ Targets(<<>>) = {}
  BY DEF Targets
<1>3. TypeOK
  BY <1>1, <1>2, QueryAssumption, EmptySeq DEF Init, TypeOK
<1>4. SearchInv
  BY <1>1, <1>2 DEF Init, SearchInv, IsWalk, IsSimple
<1> QED
  BY <1>3, <1>4 DEF Init, Inv, HistoryInv

\* What an action of the innermost loop does to the stack.
LEMMA Advanced ==
  ASSUME Inv, pc = "loop", NEW e \in Top, Advance(e)
  PROVE  /\ Len(stack) = Len(path) + 1 /\ Len(path) \in Nat /\ Top \subseteq Edges
         /\ stack' \in Seq(SUBSET Edges) /\ Len(stack') = Len(stack)
         /\ \A j \in 1..Len(path) : stack'[j] = stack[j]
         /\ stack'[Len(stack)] = Top \ {e}
         /\ e \in Edges /\ e \in ever /\ Source[e] = End(query.from, path)
<1>1. Len(stack) = Len(path) + 1 /\ Len(path) \in Nat /\ stack \in Seq(SUBSET Edges)
  BY LenProperties DEF Inv, TypeOK
<1>2. Top \in SUBSET Edges /\ Len(stack) \in 1..Len(stack)
  BY <1>1, ElementOfSeq DEF Top
<1>3. stack' = [stack EXCEPT ![Len(stack)] = Top \ {e}]
  BY <1>1, <1>2 DEF Advance, Top
<1>4. /\ stack' \in Seq(SUBSET Edges) /\ Len(stack') = Len(stack)
      /\ \A j \in 1..Len(stack) : stack'[j] = IF j = Len(stack) THEN Top \ {e} ELSE stack[j]
  BY <1>1, <1>2, <1>3, ExceptSeq
<1>5. e \in ever /\ Source[e] = Node(Len(stack))
  BY <1>2 DEF Inv, SearchInv, Top
<1>6. Node(Len(stack)) = End(query.from, path)
  BY <1>1, EmptySeq DEF Node, End, Inv, TypeOK
<1> QED
  BY <1>1, <1>2, <1>4, <1>5, <1>6

\* What the actions that grow or shrink the stack and the path do to them.
LEMMA Pushed ==
  ASSUME Inv, ReadEdges
  PROVE  /\ Len(stack) = Len(path)
         /\ stack' \in Seq(SUBSET Edges) /\ Len(stack') = Len(stack) + 1
         /\ \A j \in 1..Len(stack) : stack'[j] = stack[j]
         /\ stack'[Len(stack) + 1] = {e \in graph : Source[e] = Node(Len(stack) + 1)}
<1> DEFINE rows == {e \in graph : Source[e] = End(query.from, path)}
<1>1. /\ stack \in Seq(SUBSET Edges) /\ rows \in SUBSET Edges
      /\ stack' = Append(stack, rows) /\ Len(stack) = Len(path) /\ Len(path) \in Nat
  BY LenProperties DEF Inv, TypeOK, ReadEdges
<1>2. End(query.from, path) = Node(Len(stack) + 1)
  BY <1>1, EmptySeq DEF End, Node, Inv, TypeOK
<1> QED
  BY <1>1, <1>2, AppendProperties

LEMMA Popped ==
  ASSUME Inv, LoopEnds
  PROVE  /\ Len(stack) = Len(path) + 1
         /\ stack' \in Seq(SUBSET Edges) /\ Len(stack') = Len(path)
         /\ \A j \in 1..Len(path) : stack'[j] = stack[j]
<1>1. stack \in Seq(SUBSET Edges) /\ Len(stack) = Len(path) + 1 /\ Len(path) \in Nat
  BY LenProperties DEF Inv, TypeOK, LoopEnds
<1>2. stack' = SubSeq(stack, 1, Len(path))
  BY <1>1 DEF LoopEnds
<1>3. \A j \in 1..Len(path) : stack[j] \in SUBSET Edges
  BY <1>1, ElementOfSeq
<1>4. /\ SubSeq(stack, 1, Len(path)) \in Seq(SUBSET Edges)
      /\ Len(SubSeq(stack, 1, Len(path))) = IF 1 <= Len(path) THEN Len(path) - 1 + 1 ELSE 0
      /\ \A j \in 1..(Len(path) - 1 + 1) : SubSeq(stack, 1, Len(path))[j] = stack[1 + j - 1]
  BY <1>1, <1>3, SubSeqProperties
<1> QED
  BY <1>1, <1>2, <1>4

LEMMA Descended ==
  ASSUME Inv, NEW e \in Edges, Descend(e)
  PROVE  /\ path' \in Seq(Edges) /\ Len(path') = Len(path) + 1
         /\ \A j \in 1..Len(path) : path'[j] = path[j]
         /\ path'[Len(path) + 1] = e
         /\ Targets(path') = Targets(path) \cup {Target[e]}
<1>1. path' = Append(path, e) /\ path \in Seq(Edges)
  BY DEF Descend, Inv, TypeOK
<1>2. Targets(Append(path, e)) = Targets(path) \cup {Target[e]}
  BY <1>1, EndOfAppend
<1> QED
  BY <1>1, <1>2, AppendProperties

LEMMA Returned ==
  ASSUME Inv, Return, path # <<>>
  PROVE  /\ path' \in Seq(Edges) /\ Len(path) = Len(path') + 1 /\ Len(path') \in Nat
         /\ \A i \in 1..Len(path') : path'[i] = path[i]
         /\ Targets(path) = Targets(path') \cup {End(query.from, path)}
         /\ IsSimple(path', query.from)
         /\ End(query.from, path) \notin {query.from} \cup Targets(path')
         /\ IsWalk(path', query.from, ever, query.min)
<1>1. path \in Seq(Edges) /\ IsSimple(path, query.from) /\ IsWalk(path, query.from, ever, query.min)
  BY DEF Inv, TypeOK, SearchInv
<1>2. PICK q \in Seq(Edges), e \in Edges : path = Append(q, e) /\ path' = q
  BY <1>1, SubSeqIsFront DEF Return
<1>3. Len(path) = Len(q) + 1 /\ \A i \in 1..Len(q) : q[i] = path[i]
  BY <1>2, AppendProperties
<1>4. Targets(path) = Targets(q) \cup {Target[e]} /\ End(query.from, path) = Target[e]
  BY <1>2, EndOfAppend
<1>5. IsSimple(q, query.from) /\ Target[e] \notin {query.from} \cup Targets(q)
  BY <1>1, <1>2, SimpleFront
<1>6. IsWalk(q, query.from, ever, query.min)
  BY <1>1, <1>2, WalkFront
<1> QED
  BY <1>2, <1>3, <1>4, <1>5, <1>6, LenProperties

LEMMA InvStep == Inv /\ [Next]_vars => Inv'
<1> SUFFICES ASSUME Inv, [Next]_vars PROVE Inv'
  OBVIOUS
<1> USE DEF store, history, Inv
<1>1. /\ MaxDepth \in Nat \ {0} /\ query.from \in Nodes
      /\ path \in Seq(Edges) /\ Len(path) \in Nat
      /\ stack \in Seq(SUBSET Edges) /\ Len(stack) \in Nat
      /\ \A j \in 1..Len(path) : path[j] \in Edges
  BY QueryTyped, LenProperties, ElementOfSeq DEF TypeOK
<1> DEFINE Passed == \A n \in Targets(path) : ~ MustStop(n)
<1>2. Passed /\ \A n : MustStop(n)' => MustStop(n)
  BY StopsStep DEF SearchInv
<1>3. CASE Refuse
  <2>1. UNCHANGED <<graph, nodes, history, unread, query, stack, path, onPath, out, MaxDepth, Queries>>
        /\ pc = "enter" /\ pc' = "return"
    BY <1>3 DEF Refuse, MaxDepth, Queries
  <2> QED
    BY <2>1 DEF TypeOK, HistoryInv, SearchInv, Node, MustStop, Wanted
<1>4. CASE ReadEdges
  <2>1. /\ UNCHANGED <<graph, nodes, history, unread, query, path, onPath, out, MaxDepth, Queries>>
        /\ pc = "enter" /\ pc' = "loop" /\ Len(path) < MaxDepth
    BY <1>1, <1>4 DEF ReadEdges, MaxDepth, Queries
  <2>2. /\ Len(stack) = Len(path)
        /\ stack' \in Seq(SUBSET Edges) /\ Len(stack') = Len(stack) + 1
        /\ \A j \in 1..Len(stack) : stack'[j] = stack[j]
        /\ stack'[Len(stack) + 1] = {e \in graph : Source[e] = Node(Len(stack) + 1)}
    BY <1>4, Pushed
  <2>3. ASSUME NEW j \in 1..Len(stack'), NEW e \in stack'[j] PROVE e \in ever /\ Source[e] = Node(j)
    <3>1. CASE j \in 1..Len(stack)
      BY <2>2, <2>3, <3>1 DEF SearchInv
    <3>2. CASE j = Len(stack) + 1
      BY <2>2, <2>3, <3>2 DEF HistoryInv
    <3> QED
      BY <1>1, <2>2, <3>1, <3>2
  <2>4. TypeOK'
    BY <1>1, <2>1, <2>2 DEF TypeOK
  <2>5. SearchInv'
    BY <1>1, <1>2, <2>1, <2>2, <2>3 DEF SearchInv, Node
  <2> QED
    BY <2>1, <2>4, <2>5 DEF HistoryInv
<1>5. CASE LoopEnds
  <2>1. /\ UNCHANGED <<graph, nodes, history, unread, query, path, onPath, out, MaxDepth, Queries>>
        /\ pc = "loop" /\ pc' = "return"
    BY <1>5 DEF LoopEnds, MaxDepth, Queries
  <2>2. /\ Len(stack) = Len(path) + 1
        /\ stack' \in Seq(SUBSET Edges) /\ Len(stack') = Len(path)
        /\ \A j \in 1..Len(path) : stack'[j] = stack[j]
    BY <1>5, Popped
  <2> QED
    BY <1>1, <2>1, <2>2 DEF TypeOK, HistoryInv, SearchInv, Node, MustStop, Wanted
<1>6. ASSUME NEW e \in Edges, Skip(e) \/ Hit(e) PROVE Inv'
  <2>1. /\ UNCHANGED <<graph, nodes, history, unread, query, path, onPath, pc, MaxDepth, Queries>>
        /\ pc = "loop" /\ e \in Top /\ Advance(e)
    BY <1>6 DEF Skip, Hit, IsNext, MaxDepth, Queries
  <2>2. /\ Len(stack) = Len(path) + 1
        /\ stack' \in Seq(SUBSET Edges) /\ Len(stack') = Len(stack)
        /\ \A j \in 1..Len(path) : stack'[j] = stack[j]
        /\ stack'[Len(stack)] = Top \ {e}
    BY <2>1, Advanced
  <2>3. out' \in Seq(Seq(Edges))
    <3>1. Append(path, e) \in Seq(Edges) /\ out \in Seq(Seq(Edges))
      BY <1>1, AppendProperties DEF TypeOK
    <3>2. out' = out \/ out' = Append(out, Append(path, e))
      BY <1>6 DEF Skip, Hit
    <3> QED
      BY <3>1, <3>2, FoundAppend
  <2>4. \A j \in 1..Len(stack) : stack'[j] \subseteq stack[j]
    BY <1>1, <2>2 DEF Top
  <2>5. SearchInv'
    BY <1>1, <1>2, <2>1, <2>2, <2>4 DEF SearchInv, Node
  <2> QED
    BY <2>1, <2>2, <2>3, <2>5 DEF TypeOK, HistoryInv
<1>7. ASSUME NEW e \in Edges, Descend(e) PROVE Inv'
  <2>1. /\ UNCHANGED <<graph, nodes, history, query, out, MaxDepth, Queries>>
        /\ pc = "loop" /\ pc' = "enter" /\ IsNext(e) /\ e \in Top /\ Advance(e)
        /\ path' = Append(path, e) /\ onPath' = onPath \cup {Target[e]}
        /\ Target[e] \notin onPath /\ ConfidenceOK(e, query.min)
        /\ Target[e] # query.to /\ unread' = IF IsTarget(e) THEN unread \cup {Target[e]} ELSE unread
    BY <1>7 DEF Descend, Skipped, IsNext, MaxDepth, Queries
  <2>2. /\ Len(stack) = Len(path) + 1
        /\ stack' \in Seq(SUBSET Edges) /\ Len(stack') = Len(stack)
        /\ \A j \in 1..Len(path) : stack'[j] = stack[j]
        /\ stack'[Len(stack)] = Top \ {e}
        /\ e \in ever /\ Source[e] = End(query.from, path)
    BY <2>1, Advanced
  <2>3. /\ path' \in Seq(Edges) /\ Len(path') = Len(path) + 1
        /\ \A j \in 1..Len(path) : path'[j] = path[j]
        /\ path'[Len(path) + 1] = e
        /\ Targets(path') = Targets(path) \cup {Target[e]}
    BY <1>7, Descended
  <2>4. IsWalk(path', query.from, ever, query.min) /\ IsSimple(path', query.from)
    BY <1>1, <2>1, <2>2, WalkAppend, SimpleAppend DEF SearchInv, TypeOK
  <2>5. \A j \in 1..Len(stack) : stack'[j] \subseteq stack[j] /\ Node(j)' = Node(j)
    <3>1. Len(path) \in Nat /\ query' = query
      BY <1>1, <2>1 DEF TypeOK
    <3>2. ASSUME NEW j \in 1..Len(stack) PROVE stack'[j] \subseteq stack[j]
      BY <2>2, <3>1, <3>2 DEF Top
    <3>3. ASSUME NEW j \in 1..Len(stack), j # 1 PROVE path'[j - 1] = path[j - 1]
      BY <2>2, <2>3, <3>1, <3>3
    <3> QED
      BY <3>1, <3>2, <3>3 DEF Node
  <2>6. ASSUME NEW j \in 1..Len(path'), NEW f \in stack'[j] PROVE path'[j] < f
    <3>1. CASE j \in 1..Len(path)
      BY <2>2, <2>3, <2>6, <3>1 DEF SearchInv
    <3>2. CASE j = Len(path) + 1
      <4>1. f \in Top /\ f # e /\ e <= f
        BY <2>1, <2>2, <2>6, <3>2 DEF IsNext
      <4>2. f \in Nat /\ e \in Nat
        BY <2>1, <4>1, Advanced, GraphAssumption DEF GraphAssumption
      <4> QED
        BY <2>3, <3>2, <4>1, <4>2
    <3> QED
      BY <1>1, <2>3, <3>1, <3>2
  <2>7. TypeOK'
    <3>1. Target[e] \in Nodes
      BY GraphAssumption DEF GraphAssumption
    <3> QED
      BY <1>1, <2>1, <2>2, <2>3, <3>1 DEF TypeOK
  <2>8. SearchInv'
    <3>1. Len(path') <= MaxDepth /\ \A n \in Targets(path') : ~ MustStop(n)'
      <4>1. ~ MustStop(Target[e])'
        BY <2>1 DEF MustStop, Wanted, IsTarget, HistoryInv
      <4> QED
        BY <1>1, <1>2, <2>1, <2>3, <4>1 DEF SearchInv
    <3>2. ASSUME NEW j \in 1..Len(stack'), NEW f \in stack'[j]
          PROVE  f \in ever /\ Source[f] = Node(j)'
      BY <2>2, <2>5, <3>2 DEF SearchInv
    <3> QED
      BY <2>1, <2>4, <2>6, <3>1, <3>2 DEF SearchInv
  <2> QED
    BY <2>1, <2>7, <2>8 DEF HistoryInv
<1>8. CASE Return
  <2>1. UNCHANGED <<graph, nodes, history, unread, query, stack, out, MaxDepth, Queries>>
        /\ pc = "return" /\ Len(stack) = Len(path)
    BY <1>1, <1>8 DEF Return, MaxDepth, Queries, TypeOK
  <2>2. CASE path = <<>>
    <3>1. UNCHANGED <<path, onPath>> /\ pc' = "done" /\ stack = <<>>
      BY <1>1, <1>8, <2>1, <2>2, EmptySeq DEF Return
    <3> QED
      BY <2>1, <3>1 DEF TypeOK, HistoryInv, SearchInv, Node, MustStop, Wanted
  <2>3. CASE path # <<>>
    <3>1. /\ path' = SubSeq(path, 1, Len(path) - 1) /\ pc' = "loop"
          /\ onPath' = onPath \ {End(query.from, path)}
      BY <1>8, <2>3 DEF Return
    <3>2. /\ path' \in Seq(Edges) /\ Len(path) = Len(path') + 1 /\ Len(path') \in Nat
          /\ \A i \in 1..Len(path') : path'[i] = path[i]
          /\ Targets(path) = Targets(path') \cup {End(query.from, path)}
          /\ IsSimple(path', query.from)
          /\ End(query.from, path) \notin {query.from} \cup Targets(path')
          /\ IsWalk(path', query.from, ever, query.min)
      BY <1>8, <2>3, Returned
    <3>3. Len(path') < MaxDepth
      BY <1>1, <3>2 DEF SearchInv
    <3>4. \A j \in 1..Len(stack) : Node(j)' = Node(j)
      BY <1>1, <2>1, <3>2 DEF Node
    <3>5. TypeOK'
      BY <1>1, <2>1, <3>1, <3>2 DEF TypeOK
    <3>6. SearchInv'
      <4>1. \A n \in Targets(path') : ~ MustStop(n)'
        BY <1>2, <3>2
      <4>2. \A j \in 1..Len(stack) : \A e \in stack[j] : e \in ever /\ Source[e] = Node(j)'
        BY <3>4 DEF SearchInv
      <4>3. \A j \in 1..Len(path') : \A e \in stack[j] : path'[j] < e
        BY <3>2 DEF SearchInv
      <4> QED
        BY <1>1, <2>1, <3>1, <3>2, <3>3, <4>1, <4>2, <4>3 DEF SearchInv
    <3> QED
      BY <2>1, <3>5, <3>6 DEF HistoryInv
  <2> QED
    BY <2>2, <2>3
<1>9. CASE Cancel
  <2>1. UNCHANGED <<graph, nodes, history, unread, query, stack, path, onPath, out, MaxDepth, Queries>>
        /\ pc = "enter" /\ pc' = "error"
    BY <1>9 DEF Cancel, MaxDepth, Queries
  <2> QED
    BY <2>1 DEF TypeOK, HistoryInv, SearchInv, Node, MustStop, Wanted
<1>10. CASE GraphChanges
  <2>1. /\ UNCHANGED <<unread, query, stack, path, onPath, out, pc, MaxDepth, Queries>>
        /\ ever \subseteq ever' /\ graph' \subseteq Edges /\ nodes' \subseteq Nodes /\ changes' \in 0..MaxChanges
        /\ ever' = ever \cup graph' /\ steady' = steady \cap graph'
        /\ everNodes' = everNodes \cup nodes' /\ steadyNodes' = steadyNodes \cap nodes'
    BY <1>10, QueryAssumption DEF GraphChanges, Toggle, MaxDepth, Queries, TypeOK
  <2>2. IsWalk(path, query.from, ever', query.min)
    BY <2>1, WalkMonotone DEF SearchInv
  <2>3. TypeOK' /\ HistoryInv'
    BY <2>1 DEF TypeOK, HistoryInv
  <2>4. SearchInv'
    BY <1>2, <2>1, <2>2 DEF SearchInv, Node
  <2> QED
    BY <2>3, <2>4
<1>11. CASE UNCHANGED vars
  <2>1. UNCHANGED <<graph, nodes, history, unread, query, stack, path, onPath, out, pc, MaxDepth, Queries>>
    BY <1>11 DEF vars, MaxDepth, Queries
  <2> QED
    BY <2>1 DEF TypeOK, HistoryInv, SearchInv, Node, MustStop, Wanted
<1> QED
  BY <1>3, <1>4, <1>5, <1>6, <1>7, <1>8, <1>9, <1>10, <1>11 DEF Next, Search

LEMMA Invariant == Spec => []Inv
BY InvInit, InvStep, PTL DEF Spec

\* The stack of loops, the path and the set of nodes on it stay in step: after
\* every return exactly the nodes of the path are marked.
THEOREM TypeCorrect == Spec => []TypeOK
<1>1. Inv => TypeOK
  BY DEF Inv
<1> QED
  BY <1>1, Invariant, PTL

-----------------------------------------------------------------------------
\* A loop that comes to an edge into a target has an answer.
LEMMA HitIsAnswer ==
  ASSUME Inv, NEW e \in Edges, Hit(e)
  PROVE  IsAnswer(Append(path, e))
<1> DEFINE q == Append(path, e)
<1>1. /\ pc = "loop" /\ e \in Top /\ Advance(e) /\ path \in Seq(Edges) /\ Len(path) \in Nat
      /\ ConfidenceOK(e, query.min) /\ Target[e] \notin onPath /\ IsTarget(e)
  BY LenProperties DEF Hit, Skipped, IsNext, Inv, TypeOK
<1>2. e \in ever /\ Source[e] = End(query.from, path)
  BY <1>1, Advanced
<1>3. IsWalk(q, query.from, ever, query.min)
  BY <1>1, <1>2, WalkAppend DEF Inv, SearchInv
<1>4. IsSimple(q, query.from)
  BY <1>1, SimpleAppend DEF Inv, SearchInv, TypeOK
<1>5. /\ q # <<>> /\ Len(q) = Len(path) + 1 /\ q[Len(path) + 1] = e
      /\ \A i \in 1..Len(path) : q[i] = path[i]
  BY <1>1, AppendProperties
<1>6. Len(q) <= MaxDepth
  BY <1>1, <1>5, QueryTyped DEF Inv, SearchInv, TypeOK
<1>7. \A i \in 1..Len(path) : ~ MustStop(Target[path[i]])
  BY DEF Inv, SearchInv, Targets
<1>8. MayStop(Target[e])
  BY <1>1 DEF IsTarget, MayStop, Inv, HistoryInv
<1> HIDE DEF q
<1>9. \A i \in 1..Len(q) : IF i = Len(q) THEN MayStop(Target[q[i]]) ELSE ~ MustStop(Target[q[i]])
  BY <1>1, <1>5, <1>7, <1>8
<1> QED
  BY <1>3, <1>4, <1>5, <1>6, <1>9 DEF IsAnswer, IsRoute, q

LEMMA AnswersStep == Inv /\ OutIsAnswers /\ [Next]_vars => OutIsAnswers'
<1> SUFFICES ASSUME Inv, OutIsAnswers, [Next]_vars PROVE OutIsAnswers'
  OBVIOUS
<1> USE DEF history
<1>1. Limit \in Nat \ {0} /\ out \in Seq(Seq(Edges)) /\ Len(out) \in Nat /\ path \in Seq(Edges)
  BY QueryTyped, LenProperties DEF Inv, TypeOK
<1>2. /\ UNCHANGED <<query, MaxDepth, Limit>>
      /\ steadyNodes' \subseteq steadyNodes /\ everNodes \subseteq everNodes' /\ unread \subseteq unread'
  BY StopsStep DEF MaxDepth, Limit
<1> DEFINE StillAnswer(p) ==
             /\ p # <<>> /\ Len(p) <= MaxDepth
             /\ IsWalk(p, query.from, ever', query.min)
             /\ IsSimple(p, query.from)
             /\ \A i \in 1..Len(p) :
                  IF i = Len(p)
                    THEN Target[p[i]] = query.to \/ (Wanted(Target[p[i]]) /\ Target[p[i]] \in everNodes')
                    ELSE Target[p[i]] # query.to /\ ~ (Wanted(Target[p[i]]) /\ Target[p[i]] \in steadyNodes' \ unread')
<1>3. ASSUME NEW p, IsAnswer(p) PROVE StillAnswer(p)
  <2>1. IsWalk(p, query.from, ever', query.min)
    BY <1>3, StopsStep, WalkMonotone DEF IsAnswer, IsRoute
  <2> QED
    BY <1>3, <1>2, <2>1 DEF IsAnswer, IsRoute, MayStop, MustStop
<1>4. Len(out') <= Limit /\ (\A i \in 1..Len(out') : StillAnswer(out'[i])) => OutIsAnswers'
  BY <1>2 DEF OutIsAnswers, IsAnswer, IsRoute, MayStop, MustStop, Wanted
<1> HIDE DEF StillAnswer
<1>5. ASSUME NEW e \in Edges, Hit(e) PROVE OutIsAnswers'
  <2> DEFINE q == Append(path, e)
  <2>1. UNCHANGED Limit /\ out' = Append(out, q) /\ Len(out) < Limit
    BY <1>1, <1>5, <1>2 DEF Hit, Full
  <2>2. q \in Seq(Edges) /\ IsAnswer(q)
    BY <1>1, <1>5, HitIsAnswer, AppendProperties
  <2> HIDE DEF q
  <2>3. /\ Len(out') = Len(out) + 1
        /\ \A i \in 1..Len(out) : out'[i] = out[i]
        /\ out'[Len(out) + 1] = q
    BY <1>1, <2>1, <2>2, FoundAppend
  <2>4. \A i \in 1..Len(out') : StillAnswer(out'[i])
    <3>1. \A i \in 1..Len(out) : StillAnswer(out'[i])
      BY <1>3, <2>3 DEF OutIsAnswers
    <3>2. StillAnswer(out'[Len(out) + 1])
      BY <1>3, <2>2, <2>3
    <3>3. Len(out) \in Nat
      BY <1>1
    <3>4. ASSUME NEW i \in 1..Len(out') PROVE i \in 1..Len(out) \/ i = Len(out) + 1
      BY <2>3, <3>3
    <3> QED
      BY <3>1, <3>2, <3>4, Zenon
  <2>5. Len(out') <= Limit
    BY <1>1, <2>1, <2>3
  <2> QED
    BY <1>4, <2>4, <2>5
<1>6. CASE UNCHANGED out
  <2>1. \A i \in 1..Len(out') : StillAnswer(out'[i])
    BY <1>3, <1>6 DEF OutIsAnswers
  <2> QED
    BY <1>6, <1>4, <1>2, <2>1 DEF OutIsAnswers
<1> QED
  BY <1>5, <1>6
  DEF Next, Search, Refuse, ReadEdges, LoopEnds, Return, Skip, Descend, Cancel, GraphChanges, vars

\* Every path returned is what the search is after: simple, connected, of
\* edges it saw and may follow, within MaxDepth, to the first target it meets
\* that was there and could be read; and there are at most Limit of them.
THEOREM OutIsAnswersCorrect == Spec => []OutIsAnswers
<1>1. Init => OutIsAnswers
  BY QueryTyped DEF Init, OutIsAnswers
<1> QED
  BY <1>1, Invariant, AnswersStep, PTL DEF Spec

-----------------------------------------------------------------------------
\* The paths the search has still to consider: those that go on from the path
\* under way, and those that branch off at an edge a loop has not come to.
Extends(q) == pc = "enter" /\ Len(path) < Len(q) /\ \A i \in 1..Len(path) : q[i] = path[i]

Branches(q, j) ==
  /\ j <= Len(q) /\ q[j] \in stack[j]
  /\ \A i \in 1..(j - 1) : q[i] = path[i]

Ahead(q) == Extends(q) \/ \E j \in 1..Len(stack) : Branches(q, j)

LEMMA SearchTypes ==
  ASSUME Inv
  PROVE  /\ path \in Seq(Edges) /\ Len(path) \in Nat
         /\ stack \in Seq(SUBSET Edges) /\ Len(stack) \in Nat
         /\ Len(stack) = Len(path) + (IF pc = "loop" THEN 1 ELSE 0)
         /\ out \in Seq(Seq(Edges)) /\ Len(out) \in Nat
         /\ MaxDepth \in Nat \ {0} /\ Limit \in Nat \ {0}
BY QueryTyped, LenProperties DEF Inv, TypeOK

\* No step puts a path ahead that was not.
LEMMA AheadShrinks ==
  ASSUME Inv, [Next]_vars, NEW q \in Seq(Edges), Ahead(q)'
  PROVE  Ahead(q)
<1> USE DEF history
<1>1. Len(q) \in Nat
  BY LenProperties
<1>2. CASE ReadEdges
  <2>1. pc = "enter" /\ pc' = "loop" /\ path' = path
    BY <1>2 DEF ReadEdges
  <2>2. PICK j \in 1..Len(stack') : Branches(q, j)'
    BY <2>1 DEF Ahead, Extends
  <2>3. CASE j \in 1..Len(stack)
    BY <1>2, <2>1, <2>2, <2>3, Pushed DEF Ahead, Branches
  <2>4. CASE j \notin 1..Len(stack)
    <3>1. j = Len(path) + 1 /\ Len(path) \in Nat
      BY <1>2, <2>4, Pushed, SearchTypes
    <3>2. Len(path) < Len(q) /\ \A i \in 1..Len(path) : q[i] = path[i]
      BY <1>1, <2>1, <2>2, <3>1 DEF Branches
    <3> QED
      BY <2>1, <3>2 DEF Ahead, Extends
  <2> QED
    BY <2>3, <2>4
<1>3. CASE LoopEnds
  <2>1. pc' = "return" /\ path' = path
    BY <1>3 DEF LoopEnds
  <2>2. PICK j \in 1..Len(stack') : Branches(q, j)'
    BY <2>1 DEF Ahead, Extends
  <2>3. j \in 1..Len(stack) /\ stack'[j] = stack[j]
    BY <1>3, Popped, SearchTypes
  <2> QED
    BY <2>1, <2>2, <2>3 DEF Ahead, Branches
<1>4. ASSUME NEW e \in Edges, Skip(e) \/ Hit(e) PROVE Ahead(q)
  <2>1. pc = "loop" /\ pc' = "loop" /\ path' = path /\ e \in Top /\ Advance(e)
    BY <1>4 DEF Skip, Hit, IsNext
  <2>2. Len(stack') = Len(stack) /\ \A j \in 1..Len(stack) : stack'[j] \subseteq stack[j]
    <3>1. /\ Len(stack) = Len(path) + 1 /\ Len(path) \in Nat /\ Len(stack') = Len(stack)
          /\ \A j \in 1..Len(path) : stack'[j] = stack[j]
          /\ stack'[Len(stack)] = Top \ {e}
      BY <2>1, Advanced
    <3> QED
      BY <3>1 DEF Top
  <2>3. PICK j \in 1..Len(stack') : Branches(q, j)'
    BY <2>1 DEF Ahead, Extends
  <2>4. j \in 1..Len(stack) /\ Branches(q, j)
    BY <2>1, <2>2, <2>3 DEF Branches
  <2> QED
    BY <2>4 DEF Ahead
<1>5. ASSUME NEW e \in Edges, Descend(e) PROVE Ahead(q)
  <2>1. pc = "loop" /\ e \in Top /\ Advance(e)
    BY <1>5 DEF Descend, IsNext
  <2>2. /\ Len(stack) = Len(path) + 1 /\ Len(path) \in Nat
        /\ Len(stack') = Len(stack) /\ \A j \in 1..Len(stack) : stack'[j] \subseteq stack[j]
        /\ e \in stack[Len(stack)]
    BY <2>1, Advanced DEF Top
  <2>3. /\ Len(path') = Len(path) + 1 /\ path'[Len(path) + 1] = e
        /\ \A j \in 1..Len(path) : path'[j] = path[j]
    BY <1>5, Descended
  <2>4. CASE Extends(q)'
    <3>1. Len(stack) \in 1..Len(stack) /\ Branches(q, Len(stack))
      BY <1>1, <2>2, <2>3, <2>4 DEF Extends, Branches
    <3> QED
      BY <3>1 DEF Ahead
  <2>5. ASSUME NEW j \in 1..Len(stack'), Branches(q, j)' PROVE Ahead(q)
    <3>1. j \in 1..Len(stack) /\ Branches(q, j)
      BY <2>2, <2>3, <2>5 DEF Branches
    <3> QED
      BY <3>1 DEF Ahead
  <2> QED
    BY <2>4, <2>5 DEF Ahead
<1>6. CASE Return
  <2>1. pc = "return" /\ pc' # "enter" /\ stack' = stack /\ Len(stack) = Len(path)
    BY <1>6, SearchTypes DEF Return
  <2>2. CASE path = <<>>
    BY <1>6, <2>1, <2>2, SearchTypes DEF Ahead, Extends, Return
  <2>3. CASE path # <<>>
    <3>1. /\ Len(path) = Len(path') + 1 /\ Len(path') \in Nat
          /\ \A i \in 1..Len(path') : path'[i] = path[i]
      BY <1>6, <2>3, Returned
    <3>2. PICK j \in 1..Len(stack) : Branches(q, j)'
      BY <2>1 DEF Ahead, Extends
    <3>3. Branches(q, j)
      BY <2>1, <3>1, <3>2 DEF Branches
    <3> QED
      BY <3>3 DEF Ahead
  <2> QED
    BY <2>2, <2>3
<1>7. CASE Refuse \/ Cancel
  BY <1>7 DEF Refuse, Cancel, Ahead, Extends, Branches
<1>8. CASE GraphChanges \/ UNCHANGED vars
  BY <1>8 DEF GraphChanges, vars, Ahead, Extends, Branches
<1> QED
  BY <1>2, <1>3, <1>4, <1>5, <1>6, <1>7, <1>8 DEF Next, Search

\* What is ahead comes after everything found.
OrderInv ==
  \A i \in 1..Len(out) : \A q \in Seq(Edges) : Ahead(q) => Precedes(out[i], q)

LEMMA OrderStep ==
  Inv /\ OrderInv /\ OutInOrder /\ [Next]_vars => OrderInv' /\ OutInOrder'
<1> SUFFICES ASSUME Inv, OrderInv, OutInOrder, [Next]_vars PROVE OrderInv' /\ OutInOrder'
  OBVIOUS
<1>1. CASE out' = out
  BY <1>1, AheadShrinks DEF OrderInv, OutInOrder
<1>2. ASSUME NEW e \in Edges, Hit(e) PROVE OrderInv' /\ OutInOrder'
  <2> DEFINE p == Append(path, e)
  <2>1. /\ pc = "loop" /\ pc' = "loop" /\ path' = path /\ out' = Append(out, p)
        /\ e \in Top /\ Advance(e) /\ \A f \in Top : e <= f
    BY <1>2 DEF Hit, IsNext
  <2>2. /\ Len(stack) = Len(path) + 1 /\ Len(path) \in Nat /\ Top \subseteq Edges
        /\ Len(stack') = Len(stack) /\ stack'[Len(stack)] = Top \ {e}
        /\ \A j \in 1..Len(path) : stack'[j] = stack[j]
        /\ Top = stack[Len(stack)]
    BY <2>1, Advanced DEF Top
  <2>3. /\ p \in Seq(Edges) /\ Len(p) = Len(path) + 1 /\ p[Len(path) + 1] = e
        /\ \A i \in 1..Len(path) : p[i] = path[i]
    BY SearchTypes, AppendProperties
  <2> HIDE DEF p
  <2>4. /\ Len(out') = Len(out) + 1 /\ Len(out) \in Nat
        /\ \A i \in 1..Len(out) : out'[i] = out[i]
        /\ out'[Len(out) + 1] = p
    BY <2>1, <2>3, FoundAppend, SearchTypes
  <2>5. Branches(p, Len(stack)) /\ Len(stack) \in 1..Len(stack)
    BY <2>1, <2>2, <2>3 DEF Branches
  <2>6. \A i \in 1..Len(out) : Precedes(out[i], p)
    BY <2>3, <2>5 DEF OrderInv, Ahead
  <2>7. OutInOrder'
    BY <2>4, <2>6 DEF OutInOrder
  <2>8. ASSUME NEW q \in Seq(Edges), Ahead(q)' PROVE Precedes(p, q)
    <3>1. PICK j \in 1..Len(stack) : Branches(q, j)'
      BY <2>1, <2>2, <2>8 DEF Ahead, Extends
    <3>2. /\ j <= Len(q) /\ q[j] \in stack'[j] /\ \A i \in 1..(j - 1) : q[i] = path[i]
      BY <2>1, <3>1 DEF Branches
    <3>3. p[j] < q[j]
      <4>1. CASE j \in 1..Len(path)
        BY <2>2, <2>3, <3>2, <4>1 DEF Inv, SearchInv
      <4>2. CASE j = Len(path) + 1
        <5>1. q[j] \in Top /\ q[j] # e /\ e \in Nat /\ q[j] \in Nat
          BY <2>1, <2>2, <3>2, <4>2, GraphAssumption DEF GraphAssumption
        <5> QED
          BY <2>1, <2>3, <4>2, <5>1
      <4> QED
        BY <2>2, <4>1, <4>2
    <3>4. j \in 1..Len(p) /\ \A i \in 1..(j - 1) : p[i] = q[i]
      BY <2>2, <2>3, <3>2
    <3> QED
      BY <3>2, <3>3, <3>4 DEF Precedes
  <2>9. ASSUME NEW i \in 1..Len(out'), NEW q \in Seq(Edges), Ahead(q)' PROVE Precedes(out'[i], q)
    <3>1. CASE i \in 1..Len(out)
      BY <2>4, <2>9, <3>1, AheadShrinks DEF OrderInv
    <3>2. CASE i = Len(out) + 1
      BY <2>4, <2>8, <2>9, <3>2
    <3> QED
      BY <2>4, <3>1, <3>2
  <2> QED
    BY <2>7, <2>9 DEF OrderInv
<1> QED
  BY <1>1, <1>2 DEF Next, Search, Refuse, ReadEdges, LoopEnds, Return, Skip, Descend,
                    Cancel, GraphChanges, vars

LEMMA OrderInvariant == Spec => [](OrderInv /\ OutInOrder)
<1>1. Init => OrderInv /\ OutInOrder
  BY DEF Init, OrderInv, OutInOrder
<1> QED
  BY <1>1, Invariant, OrderStep, PTL DEF Spec

\* The paths come in the order of their edges' ids and none comes twice.
THEOREM OutInOrderCorrect == Spec => []OutInOrder
BY OrderInvariant, PTL

-----------------------------------------------------------------------------
\* A path found, or cut off by the limit.
Listed(p) ==
  \/ \E i \in 1..Len(out) : out[i] = p
  \/ Len(out) = Limit /\ Precedes(out[Limit], p)

\* Every path whose edges and target were stored throughout is ahead or listed.
CoverInv ==
  pc # "error" =>
    \A p \in Seq(steady) : IsOwed(p) => Ahead(p) \/ Listed(p)

LEMMA FullListsAhead ==
  ASSUME Inv, OutIsAnswers, OrderInv, Full, NEW p \in Seq(Edges), Ahead(p)
  PROVE  Listed(p)
<1>1. Len(out) = Limit /\ Limit \in 1..Len(out)
  BY SearchTypes DEF Full, OutIsAnswers
<1> QED
  BY <1>1 DEF OrderInv, Listed

\* What the search owes it has owed from the beginning.
LEMMA OwedBefore ==
  ASSUME Inv, [Next]_vars, NEW p \in Seq(steady'), IsOwed(p)'
  PROVE  p \in Seq(steady) /\ IsOwed(p)
<1>1. UNCHANGED <<query, MaxDepth>> /\ steady' \subseteq steady
  BY StopsStep DEF MaxDepth
<1>2. IsRoute(p, steady)
  BY <1>1, WalkMonotone DEF IsOwed, IsRoute
<1>3. p \in Seq(steady)
  BY <1>1, SeqMonotonic
<1> QED
  BY <1>2, <1>3, StopsStep DEF IsOwed

\* The search passes over no answer.
LEMMA AnswerKept ==
  ASSUME Inv, OutIsAnswers, OrderInv, Search, pc # "error",
         NEW p \in Seq(Edges), p \in Seq(steady), IsOwed(p), IsOwed(p)', Ahead(p)
  PROVE  Ahead(p)' \/ Listed(p)'
<1> USE DEF history
<1>1. /\ Len(p) \in Nat /\ Len(p) <= MaxDepth
      /\ \A i \in 1..Len(p) : /\ p[i] \in steady /\ ConfidenceOK(p[i], query.min)
                              /\ Source[p[i]] = IF i = 1 THEN query.from ELSE Target[p[i - 1]]
                              /\ Target[p[i]] # query.from
                              /\ i # Len(p) => ~ MayStop(Target[p[i]])
                              /\ i = Len(p) => MustStop(Target[p[i]])'
      /\ \A i, j \in 1..Len(p) : Target[p[i]] = Target[p[j]] => i = j
  BY LenProperties DEF IsOwed, IsRoute, IsWalk, IsSimple, Targets
<1>2. CASE Full /\ ~ \E e \in Edges : Hit(e)
  <2>1. Listed(p)
    BY <1>2, FullListsAhead
  <2>2. UNCHANGED <<out, query, Limit>>
    BY <1>2 DEF Search, Refuse, ReadEdges, LoopEnds, Return, Skip, Descend, Limit
  <2> QED
    BY <2>1, <2>2 DEF Listed
<1>3. CASE ~ Full /\ Refuse
  <2>1. pc = "enter" /\ Len(path) >= MaxDepth /\ stack' = stack /\ path' = path
    BY <1>3 DEF Refuse
  <2>2. ~ Extends(p)
    BY <1>1, <2>1, SearchTypes DEF Extends
  <2> QED
    BY <2>1, <2>2 DEF Ahead, Branches
<1>4. CASE ReadEdges
  <2>1. path' = path
    BY <1>4 DEF ReadEdges
  <2>2. CASE Extends(p)
    <3>1. PICK j \in Nat : j = Len(path) + 1
      BY SearchTypes
    <3>2. j \in 1..Len(p) /\ j \in 1..Len(stack') /\ \A i \in 1..(j - 1) : p[i] = path[i]
      BY <1>1, <1>4, <2>2, <3>1, Pushed, SearchTypes DEF Extends
    <3>3. j = 1 \/ p[j - 1] = path[j - 1]
      <4>1. j # 1 => j - 1 \in 1..(j - 1)
        BY <3>1
      <4> QED
        BY <3>2, <4>1
    <3>4. Source[p[j]] = Node(j)
      BY <1>1, <3>2, <3>3 DEF Node
    <3>5. p[j] \in stack'[j]
      BY <1>1, <1>4, <3>1, <3>2, <3>4, Pushed DEF Inv, HistoryInv
    <3>6. Branches(p, j)'
      BY <2>1, <3>2, <3>5 DEF Branches
    <3> QED
      BY <3>2, <3>6 DEF Ahead
  <2>3. ASSUME NEW j \in 1..Len(stack), Branches(p, j) PROVE Ahead(p)'
    <3>1. j \in 1..Len(stack') /\ stack'[j] = stack[j]
      BY <1>4, Pushed, SearchTypes
    <3>2. Branches(p, j)'
      BY <2>1, <2>3, <3>1 DEF Branches
    <3> QED
      BY <3>1, <3>2 DEF Ahead
  <2> QED
    BY <2>2, <2>3 DEF Ahead
<1>5. CASE ~ Full /\ LoopEnds
  <2>1. pc = "loop" /\ Top = {} /\ path' = path
    BY <1>5 DEF LoopEnds
  <2>2. PICK j \in 1..Len(stack) : Branches(p, j)
    BY <2>1 DEF Ahead, Extends
  <2>3. j # Len(stack)
    BY <2>1, <2>2 DEF Branches, Top
  <2>4. j \in 1..Len(stack') /\ Branches(p, j)'
    BY <1>5, <2>1, <2>2, <2>3, Popped, SearchTypes DEF Branches
  <2> QED
    BY <2>4 DEF Ahead
<1>6. ASSUME NEW e \in Edges, Skip(e) \/ Hit(e) \/ Descend(e) PROVE Ahead(p)' \/ Listed(p)'
  <2> DEFINE n == Len(path) + 1
  <2>1. pc = "loop" /\ e \in Top /\ Advance(e)
    BY <1>6 DEF Skip, Hit, Descend, IsNext
  <2>2. /\ Len(stack) = n /\ n \in Nat /\ Len(path) \in Nat /\ Len(stack') = n
        /\ \A j \in 1..Len(path) : stack'[j] = stack[j]
        /\ stack'[n] = stack[n] \ {e}
    BY <2>1, Advanced DEF Top
  <2>3. PICK j \in 1..n : Branches(p, j)
    BY <2>1, <2>2 DEF Ahead, Extends
  <2>4. \A i \in 1..Len(path) : path'[i] = path[i]
    BY <1>6, Descended DEF Skip, Hit
  <2>5. CASE ~ (j = n /\ p[j] = e)
    <3>1. p[j] \in stack'[j]
      BY <2>2, <2>3, <2>5 DEF Branches
    <3>2. Branches(p, j)'
      BY <2>2, <2>3, <2>4, <3>1 DEF Branches
    <3> QED
      BY <2>2, <3>2 DEF Ahead
  <2>6. CASE j = n /\ p[j] = e
    <3>1. /\ Len(p) \in Nat /\ n \in 1..Len(p) /\ p[n] = e /\ \A i \in 1..Len(path) : p[i] = path[i]
      BY <1>1, <2>2, <2>3, <2>6 DEF Branches
    <3>2. ~ Skipped(e)
      <4>1. Target[e] \notin Targets(path)
        <5>1. ASSUME NEW i \in 1..Len(path) PROVE Target[path[i]] # Target[e]
          <6>1. path[i] = p[i] /\ i \in 1..Len(p) /\ i # n
            BY <2>2, <3>1, <5>1
          <6>2. Target[p[i]] # Target[p[n]]
            BY <1>1, <3>1, <6>1
          <6> QED
            BY <3>1, <6>1, <6>2
        <5> QED
          BY <5>1 DEF Targets
      <4> QED
        BY <1>1, <3>1, <4>1 DEF Skipped, Inv, TypeOK
    <3>3. CASE Hit(e)
      <4>1. Len(p) = n
        BY <1>1, <3>1, <3>3 DEF Hit, IsTarget, MayStop, Inv, HistoryInv
      <4>2. /\ Append(path, e) \in Seq(Edges) /\ Len(Append(path, e)) = n
            /\ Append(path, e)[n] = e /\ \A i \in 1..Len(path) : Append(path, e)[i] = path[i]
        BY SearchTypes, AppendProperties
      <4>3. p = Append(path, e)
        BY <2>2, <3>1, <4>1, <4>2, SeqEqual
      <4>4. out' = Append(out, p)
        BY <3>3, <4>3 DEF Hit
      <4>5. Len(out') = Len(out) + 1 /\ out'[Len(out) + 1] = p /\ Len(out) \in Nat
        BY <4>4, FoundAppend, SearchTypes
      <4>6. Len(out) + 1 \in 1..Len(out')
        BY <4>5
      <4> QED
        BY <4>5, <4>6 DEF Listed
    <3>4. CASE Descend(e)
      <4>1. Len(p) # n /\ pc' = "enter"
        <5>1. /\ UNCHANGED <<nodes, steadyNodes, query>> /\ pc' = "enter" /\ Target[e] # query.to
              /\ IsTarget(e) => Target[e] \in unread'
          BY <3>4 DEF Descend, store
        <5>2. ~ MustStop(Target[e])'
          BY <5>1 DEF MustStop, Wanted, IsTarget, Inv, HistoryInv
        <5> QED
          BY <1>1, <3>1, <5>1, <5>2
      <4>2. /\ Len(path') = n /\ path'[n] = e
        BY <3>4, Descended
      <4>3. n < Len(p) /\ \A i \in 1..n : p[i] = path'[i]
        <5>1. \A i \in 1..n : i \in 1..Len(path) \/ i = n
          BY <2>2
        <5>2. n < Len(p)
          BY <2>2, <3>1, <4>1
        <5> QED
          BY <2>4, <3>1, <4>2, <5>1, <5>2
      <4>4. Extends(p)'
        BY <4>1, <4>2, <4>3 DEF Extends
      <4> QED
        BY <4>4 DEF Ahead
    <3> QED
      BY <1>6, <3>2, <3>3, <3>4 DEF Skip
  <2> QED
    BY <2>5, <2>6
<1>7. CASE Return
  <2>1. pc = "return" /\ stack' = stack /\ Len(stack) = Len(path)
    BY <1>7, SearchTypes DEF Return
  <2>2. PICK j \in 1..Len(stack) : Branches(p, j)
    BY <2>1 DEF Ahead, Extends
  <2>3. path # <<>>
    BY <2>1, <2>2, SearchTypes
  <2>4. Branches(p, j)'
    BY <1>7, <2>1, <2>2, <2>3, Returned DEF Branches
  <2> QED
    BY <2>1, <2>2, <2>4 DEF Ahead
<1> QED
  BY <1>2, <1>3, <1>4, <1>5, <1>6, <1>7 DEF Search

LEMMA CoverStep ==
  Inv /\ OutIsAnswers /\ OrderInv /\ CoverInv /\ [Next]_vars => CoverInv'
<1> SUFFICES ASSUME Inv, OutIsAnswers, OrderInv, CoverInv, [Next]_vars PROVE CoverInv'
  OBVIOUS
<1>1. ASSUME NEW p \in Seq(steady'), IsOwed(p)' PROVE p \in Seq(steady) /\ IsOwed(p)
  BY <1>1, OwedBefore
<1> USE DEF history
<1>2. CASE Search
  <2>1. UNCHANGED <<steady, query, MaxDepth, Limit>> /\ pc # "error"
    BY <1>2 DEF Search, Refuse, ReadEdges, LoopEnds, Return, Skip, Hit, Descend, MaxDepth, Limit
  <2>2. ASSUME NEW p \in Seq(steady), Listed(p) PROVE Listed(p)'
    <3>1. CASE out' = out
      BY <2>1, <2>2, <3>1 DEF Listed
    <3>2. ASSUME NEW e \in Edges, Hit(e) PROVE Listed(p)'
      <4>1. out' = Append(out, Append(path, e)) /\ Append(path, e) \in Seq(Edges) /\ ~ Full
        BY <3>2, SearchTypes, AppendProperties DEF Hit
      <4>2. /\ Len(out') = Len(out) + 1 /\ Len(out) \in Nat
            /\ \A i \in 1..Len(out) : out'[i] = out[i]
        BY <4>1, FoundAppend, SearchTypes
      <4>3. PICK i \in 1..Len(out) : out[i] = p
        BY <2>2, <4>1, SearchTypes DEF Listed, Full
      <4>4. i \in 1..Len(out') /\ out'[i] = p
        BY <4>2, <4>3
      <4> QED
        BY <4>4 DEF Listed
    <3> QED
      BY <1>2, <3>1, <3>2 DEF Search, Refuse, ReadEdges, LoopEnds, Return, Skip, Descend
  <2>3. ASSUME NEW p \in Seq(steady), IsOwed(p), IsOwed(p)', Ahead(p) PROVE Ahead(p)' \/ Listed(p)'
    <3>1. p \in Seq(Edges)
      BY SeqMonotonic DEF Inv, TypeOK
    <3> QED
      BY <1>2, <2>1, <2>3, <3>1, AnswerKept
  <2> QED
    BY <1>1, <2>1, <2>2, <2>3 DEF CoverInv
<1>3. CASE Cancel
  BY <1>3 DEF Cancel, CoverInv
<1>4. CASE GraphChanges
  <2>1. /\ UNCHANGED <<query, stack, path, out, pc, MaxDepth, Limit>> /\ steady' \subseteq steady
    BY <1>4 DEF GraphChanges, MaxDepth, Limit
  <2> QED
    BY <1>1, <2>1 DEF CoverInv, Ahead, Extends, Branches, Listed
<1>5. CASE UNCHANGED vars
  BY <1>5, <1>1 DEF vars, CoverInv, Ahead, Extends, Branches, Listed, Limit
<1> QED
  BY <1>2, <1>3, <1>4, <1>5 DEF Next

LEMMA CoverInit == Init => CoverInv
<1> SUFFICES ASSUME Init, NEW p \in Seq(steady), IsOwed(p) PROVE Ahead(p)
  BY DEF CoverInv
<1>1. Len(p) \in Nat \ {0}
  BY EmptySeq DEF IsOwed, IsRoute
<1> QED
  BY <1>1 DEF Init, Ahead, Extends

LEMMA CoverIsSteadyPathsFound == Inv /\ CoverInv => SteadyPathsFound
<1> SUFFICES ASSUME Inv, CoverInv, pc = "done",
                    NEW p \in Sequences(steady, MaxDepth), IsOwed(p)
             PROVE  Listed(p)
  BY DEF SteadyPathsFound, Listed
<1>1. PICK k \in 1..MaxDepth : p \in [1..k -> steady]
  BY DEF Sequences
<1>2. p \in Seq(steady)
  BY <1>1, SearchTypes
<1>3. ~ Ahead(p)
  BY DEF Inv, SearchInv, Ahead, Extends
<1> QED
  BY <1>2, <1>3 DEF CoverInv

\* A path whose edges and target are stored from beginning to end of the search is
\* listed, unless the read of the target failed or the list is full of paths that come
\* before it.
THEOREM SteadyPathsFoundCorrect == Spec => []SteadyPathsFound
<1>1. Spec => []CoverInv
  BY Invariant, OutIsAnswersCorrect, OrderInvariant, CoverInit, CoverStep, PTL DEF Spec
<1> QED
  BY <1>1, Invariant, CoverIsSteadyPathsFound, PTL

-----------------------------------------------------------------------------
(* Sorting *)

\* In a total order of n places every rank is that of one place, and ranks rise with
\* the order.
LEMMA RanksAreAll ==
  ASSUME NEW n \in Nat, NEW R, NEW rank,
         \A i, j \in 1..n : <<i, j>> \in R \/ <<j, i>> \in R,
         \A i, j \in 1..n : <<i, j>> \in R /\ <<j, i>> \in R => i = j,
         \A i, j, k \in 1..n : <<i, j>> \in R /\ <<j, k>> \in R => <<i, k>> \in R,
         \A i \in 1..n : rank[i] = Cardinality({j \in 1..n : <<j, i>> \in R})
  PROVE  /\ \A i \in 1..n : rank[i] \in 1..n
         /\ \A k \in 1..n : \E i \in 1..n : rank[i] = k
         /\ \A i, j \in 1..n : rank[i] = rank[j] => i = j
         /\ \A i, j \in 1..n : rank[i] < rank[j] => <<i, j>> \in R
<1> DEFINE upTo(i) == {j \in 1..n : <<j, i>> \in R}
           f == [i \in 1..n |-> rank[i]]
<1>1. IsFiniteSet(1..n) /\ Cardinality(1..n) = n
  BY FS_Interval
<1>2. ASSUME NEW T \in SUBSET (1..n), NEW U \in SUBSET T
      PROVE  /\ Cardinality(U) \in Nat /\ Cardinality(T) \in Nat
             /\ Cardinality(U) <= Cardinality(T) /\ Cardinality(T) <= n
             /\ Cardinality(U) = Cardinality(T) => U = T
             /\ Cardinality(U) = 0 => U = {}
  <2>1. IsFiniteSet(T) /\ Cardinality(T) <= n
    <3>1. IsFiniteSet(T) /\ Cardinality(T) <= Cardinality(1..n)
      BY <1>1, FS_Subset
    <3> QED
      BY <1>1, <3>1
  <2>2. IsFiniteSet(U) /\ Cardinality(U) <= Cardinality(T) /\ (Cardinality(T) = Cardinality(U) => T = U)
    BY <2>1, FS_Subset
  <2>3. Cardinality(U) \in Nat /\ Cardinality(T) \in Nat
    BY <2>1, <2>2, FS_CardinalityType
  <2>4. Cardinality(U) = 0 => U = {}
    BY <2>2, FS_EmptySet
  <2> QED
    BY <2>1, <2>2, <2>3, <2>4
<1>3. \A i \in 1..n : upTo(i) \in SUBSET (1..n) /\ i \in upTo(i) /\ rank[i] = Cardinality(upTo(i))
  OBVIOUS
<1>4. ASSUME NEW i \in 1..n, NEW j \in 1..n, <<i, j>> \in R, i # j
      PROVE  upTo(i) \in SUBSET upTo(j) /\ j \in upTo(j) /\ j \notin upTo(i)
  BY <1>4
<1> HIDE DEF upTo
<1>5. \A i \in 1..n : rank[i] \in 1..n
  <2> SUFFICES ASSUME NEW i \in 1..n PROVE rank[i] \in 1..n
    OBVIOUS
  <2>1. upTo(i) # {} /\ upTo(i) \in SUBSET upTo(i)
    BY <1>3
  <2>2. Cardinality(upTo(i)) \in Nat /\ Cardinality(upTo(i)) <= n /\ Cardinality(upTo(i)) # 0
    BY <1>2, <1>3, <2>1
  <2> QED
    BY <1>3, <2>2
<1>6. ASSUME NEW i \in 1..n, NEW j \in 1..n, <<i, j>> \in R, i # j
      PROVE  rank[i] < rank[j]
  <2>1. upTo(i) \in SUBSET upTo(j) /\ upTo(i) # upTo(j)
    BY <1>4, <1>6
  <2>2. Cardinality(upTo(i)) <= Cardinality(upTo(j)) /\ Cardinality(upTo(i)) # Cardinality(upTo(j))
    BY <1>2, <1>3, <2>1
  <2> QED
    BY <1>3, <1>5, <2>2
<1>7. ASSUME NEW i \in 1..n, NEW j \in 1..n, i # j PROVE rank[i] # rank[j]
  <2>1. rank[i] < rank[j] \/ rank[j] < rank[i]
    BY <1>6, <1>7
  <2> QED
    BY <1>5, <2>1
<1>8. ASSUME NEW i \in 1..n, NEW j \in 1..n, rank[i] < rank[j] PROVE <<i, j>> \in R
  <2>1. rank[i] \in Nat /\ rank[j] \in Nat
    BY <1>5
  <2>2. i # j
    BY <1>8, <2>1
  <2>3. <<j, i>> \in R => rank[j] < rank[i]
    BY <1>6, <2>2
  <2> QED
    BY <1>8, <2>1, <2>3
<1>9. f \in Injection(1..n, 1..n)
  BY <1>5, <1>7 DEF Injection, IsInjective
<1>10. f \in Surjection(1..n, 1..n)
  BY <1>1, <1>9, FS_Injection
<1>11. \A k \in 1..n : \E i \in 1..n : rank[i] = k
  BY <1>10 DEF Surjection
<1> QED
  BY <1>5, <1>7, <1>8, <1>11

-----------------------------------------------------------------------------
(* Queries *)

\* The ends of a path that has steps.
EndsOf(p) == <<QuerySource[p[1]], QueryTarget[p[Len(p)]]>>

\* The path joins two nodes in the way the request asks for; it is found when it joins its
\* ends, and two nodes are never joined when no path does.
DepthOf(r) == IF r.depth = 0 THEN DefaultDepth ELSE r.depth
JoinsFor(r, p, pair, stored) ==
  /\ p # <<>> /\ Len(p) <= DepthOf(r) /\ Query!End(pair[1], p) = pair[2]
  /\ Query!IsWalk(p, pair[1], stored \cap r.along, r.min) /\ Query!IsSimple(p, pair[1])
  /\ r.op = "exposure" => Len(p) = 1
Found(r, stored, p) == p \in Seq(QueryEdges) /\ JoinsFor(r, p, EndsOf(p), stored)
NeverJoined(r, stored, pair) == \A p \in Query!Sequences(stored, DepthOf(r)) : ~ JoinsFor(r, p, pair, stored)

\* The pairs a request asks about, when its search has these ends and these nodes were stored.
WantedBy(r, n) == r.type # None /\ QueryType[n] = r.type
Asks(r, seen, from, to) ==
  CASE r.op = "who" -> {<<n, to>> : n \in {m \in QueryNodes \ {to} : QueryType[m] \in Query!PrincipalTypes}}
    [] r.op = "what" -> {<<from, n>> : n \in QueryNodes \ {from}}
    [] r.op = "paths" -> {<<from, n>> : n \in {m \in QueryNodes : m = to \/ (WantedBy(r, m) /\ m \in seen)}}
    [] r.op = "exposure" -> {<<Internet, n>> : n \in QueryNodes}

Loops == request.op \in {"who", "what"}

\* A path found has the ends in hand, or ends at a target of FindPaths.
Leads(r, seen, from, to, p) ==
  /\ r.op \in {"who", "what"} => EndsOf(p) = <<from, to>>
  /\ r.op = "paths" => EndsOf(p) \in Asks(r, seen, from, to)

\* The nodes a loop goes over, the pair that one of them makes, and the one in hand.
Candidates ==
  IF request.op = "who" THEN {m \in QueryNodes \ {target} : QueryType[m] \in Query!PrincipalTypes}
  ELSE QueryNodes \ {source}
PairOf(n) == IF request.op = "who" THEN <<n, target>> ELSE <<source, n>>
InHand == IF request.op = "who" THEN source ELSE target
Pending == queryPc = "search" \/ raws # <<>>

AnswerType ==
  [path : [steps : Seq(QueryEdges), from : QueryNodes \cup {None}, to : QueryNodes \cup {None},
           confidence : Confidences],
   score : Int, severity : {"critical", "high", "medium", "low", "info"}]

StepsOf(i) == answers[i].path.steps

\* What is stored now was so at some time, and what was so all the time is stored now.
QueryHistoryInv ==
  /\ known \subseteq QueryNodes /\ sometime.links \subseteq QueryEdges
  /\ always.nodes \subseteq known /\ known \subseteq sometime.nodes /\ always.links \subseteq links /\ links \subseteq sometime.links
  /\ window.some \subseteq sometime.links /\ window.met \subseteq sometime.nodes
  /\ queryPc = "search" => always.links \subseteq window.all /\ always.nodes \subseteq window.kept

\* The place of a query in its chain of calls.
QueryPlaceInv ==
  /\ request \in Query!Requests
  /\ \/ Loops /\ queryPc \in {"resolve", "list", "loop", "search", "build", "read target", "done", "error"}
     \/ /\ request.op = "paths"
        /\ queryPc \in {"resolve", "resolve target", "search", "build", "read target", "done", "error"}
     \/ request.op = "exposure" /\ queryPc \in {"list", "expose", "done", "error"}
  /\ queryPc \in {"resolve", "resolve target", "list", "loop", "search", "done"} => raws = <<>>
  /\ queryPc \in {"resolve", "resolve target", "list"} => answers = <<>>
  /\ request.op = "paths" /\ queryPc = "search" => answers = <<>>
  /\ queryPc = "read target" => raws # <<>>
  /\ ~ Loops \/ queryPc \in {"resolve", "list", "done"} => todo = {}
  /\ Loops => /\ Len(raws) \in {0, 1} /\ todo \subseteq Candidates
              /\ Pending => InHand \in Candidates \ todo

\* What is to be explained, and what is answered, was found between the nodes asked for.
QueryRouteInv ==
  /\ raws \in Seq(Seq(QueryEdges)) /\ answers \in Seq(AnswerType)
  /\ fromNode \in QueryNodes \cup {None}
  /\ \A i \in 1..Len(raws) :
       Found(request, sometime.links, raws[i]) /\ Leads(request, sometime.nodes, source, target, raws[i])
  /\ \A i \in 1..Len(answers) : Found(request, sometime.links, StepsOf(i)) /\ EndsOf(StepsOf(i)) \in Asks(request, sometime.nodes, source, target)

\* No path comes twice, and no node of a loop.
QueryOnceInv ==
  /\ \A i, j \in 1..Len(raws) : raws[i] = raws[j] => i = j
  /\ \A i \in 1..Len(answers), j \in 1..Len(raws) : StepsOf(i) # raws[j]
  /\ \A i, j \in 1..Len(answers) : StepsOf(i) = StepsOf(j) => i = j
QueryLoopInv ==
  Loops =>
    /\ \A i \in 1..Len(answers) :
         \E n \in Candidates \ todo : EndsOf(StepsOf(i)) = PairOf(n) /\ (Pending => n # InHand)
    /\ \A i, j \in 1..Len(answers) : EndsOf(StepsOf(i)) = EndsOf(StepsOf(j)) => i = j

\* A pair that needs no more looking at.
Answered(pair) == \E i \in 1..Len(answers) : EndsOf(StepsOf(i)) = pair
Unjoined(pair) == NeverJoined(request, always.links, pair)

\* Nothing that could be reached all the time is passed over.
LoopCovers ==
  Loops /\ queryPc \notin {"resolve", "list", "error"} =>
    \A n \in Candidates \cap always.nodes :
      n \in todo \/ (Pending /\ n = InHand) \/ Answered(PairOf(n)) \/ Unjoined(PairOf(n))
\* A path that FindPaths owes, to the first target it meets and one that could be read.
Due(p) ==
  LET n == EndsOf(p)[2]
  IN  /\ JoinsFor(request, p, <<source, n>>, always.links)
      /\ \A i \in 1..(Len(p) - 1) : ~ Query!IsSought(QueryTarget[p[i]])
      /\ n = target \/ (Query!Wanted(n) /\ n \in always.nodes \ lost)
PathsCover ==
  request.op = "paths" /\ queryPc \in {"build", "read target", "done"} =>
    \/ Len(answers) + Len(raws) = Query!Limit
    \/ \A p \in Query!Sequences(always.links, DepthOf(request)) : Due(p) =>
         (\E i \in 1..Len(raws) : raws[i] = p) \/ \E i \in 1..Len(answers) : StepsOf(i) = p
ExposureCovers ==
  request.op = "exposure" /\ queryPc \in {"expose", "done"} =>
    \A e \in always.links \cap ReachableFrom :
      \/ QueryTarget[e] \notin always.nodes \/ QueryTarget[e] \in lost
      \/ \E i \in 1..Len(raws) : raws[i] = <<e>>
      \/ \E i \in 1..Len(answers) : StepsOf(i) = <<e>>
QueryCoverInv == LoopCovers /\ PathsCover /\ ExposureCovers

\* An answer is scored as its path deserves.
Scored(op, answer) ==
  IF op = "exposure"
    THEN answer.score = 0 /\ answer.severity = "info" /\ answer.path.to \in QueryNodes
    ELSE /\ answer.path.confidence = Query!WeakestConfidence(answer.path.steps)
         /\ answer.score = Query!ScorePath(answer.path)
         /\ answer.severity = Query!SeverityForScore(answer.score)

QueryOrderInv ==
  /\ \A i \in 1..Len(answers) : Scored(request.op, answers[i])
  /\ queryPc = "done" => \A i, j \in 1..Len(answers) : i < j => ~ Query!Before(j, i)

QueryInv == QueryHistoryInv /\ QueryPlaceInv /\ QueryRouteInv /\ QueryOnceInv /\ QueryLoopInv /\ QueryCoverInv /\ QueryOrderInv

\* What a request fixes of its search: the edges it follows, the least confidence, the depth.
LEMMA RequestIs ==
  ASSUME request \in Query!Requests
  PROVE  /\ request.op \in {"who", "what", "paths", "exposure"}
         /\ request.op = "exposure" => request.along = ReachableFrom /\ request.min = "" /\ request.depth = 0
         /\ Query!MaxDepth \in Nat \ {0} /\ Query!Limit \in Nat \ {0}
<1> DEFINE Good(r) ==
      /\ r.op \in {"who", "what", "paths", "exposure"} /\ r.depth \in Nat /\ r.limit \in Nat
      /\ r.op = "exposure" => r.along = ReachableFrom /\ r.min = "" /\ r.depth = 0
<1>1. ASSUME NEW args \in Commands PROVE Good(Query!Command(args))
  <2>1. args.depth \in Nat /\ args.limit \in Nat
        /\ args.name \in {"path", "who-can-access", "what-can-access", "exposure"}
    BY QueryingAssumption DEF Query!QueryAssumption
  <2>2. CASE args.name = "path"
    BY <2>1, <2>2 DEF Query!Command, Query!Ask
  <2>3. CASE args.name = "who-can-access"
    BY <2>1, <2>3 DEF Query!Command, Query!Ask
  <2>4. CASE args.name = "what-can-access"
    BY <2>1, <2>4 DEF Query!Command, Query!Ask
  <2>5. CASE args.name = "exposure"
    BY <2>1, <2>5 DEF Query!Command, Query!Ask
  <2> QED
    BY <2>1, <2>2, <2>3, <2>4, <2>5
<1>2. ASSUME NEW args \in ToolCalls PROVE Good(Query!Tool(args))
  <2>1. args.depth \in Nat /\ args.limit \in Nat
        /\ args.name \in {"find_attack_paths", "find_privilege_escalation_paths",
             "who_can_access_resource", "what_can_principal_access", "find_internet_exposed_resources"}
    BY QueryingAssumption DEF Query!QueryAssumption
  <2>2. CASE args.name = "find_attack_paths"
    BY <2>1, <2>2 DEF Query!Tool, Query!Ask
  <2>3. CASE args.name = "find_privilege_escalation_paths"
    BY <2>1, <2>3 DEF Query!Tool, Query!Ask
  <2>4. CASE args.name = "who_can_access_resource"
    BY <2>1, <2>4 DEF Query!Tool, Query!Ask
  <2>5. CASE args.name = "what_can_principal_access"
    BY <2>1, <2>5 DEF Query!Tool, Query!Ask
  <2>6. CASE args.name = "find_internet_exposed_resources"
    BY <2>1, <2>6 DEF Query!Tool, Query!Ask
  <2> QED
    BY <2>1, <2>2, <2>3, <2>4, <2>5, <2>6
<1> HIDE DEF Good
<1>3. Good(request)
  <2>1. CASE \E args \in Commands : request = Query!Command(args)
    BY <1>1, <2>1
  <2>2. CASE \E args \in ToolCalls : request = Query!Tool(args)
    BY <1>2, <2>2
  <2> QED
    BY <2>1, <2>2 DEF Query!Requests
<1>4. DefaultDepth \in Nat \ {0} /\ DefaultLimit \in Nat \ {0}
  BY QueryingAssumption DEF Query!QueryAssumption
<1>5. Query!MaxDepth \in Nat \ {0} /\ Query!Limit \in Nat \ {0}
  BY <1>3, <1>4 DEF Query!MaxDepth, Query!Limit, Good
<1> QED
  BY <1>3, <1>5 DEF Good

-----------------------------------------------------------------------------
(* Paths found *)

QueryGraph == QueryEdges \subseteq Nat /\ QuerySource \in [QueryEdges -> QueryNodes]
              /\ QueryTarget \in [QueryEdges -> QueryNodes] /\ QueryConfidence \in [QueryEdges -> Confidences]

\* Every stored edge is a number and has two stored ends and a confidence.
LEMMA QueryGraphIs == QueryGraph
BY QueryingAssumption DEF QueryGraph, Query!GraphAssumption, Query!Confidences, Confidences

\* What a path of the request in hand joins, in the words used here.
LEMMA JoinsIs ==
  /\ Query!MaxDepth = DepthOf(request) /\ Query!AskedPairs = Asks(request, sometime.nodes, source, target)
  /\ \A p, pair, stored : Query!Joins(p, pair, stored) <=> JoinsFor(request, p, pair, stored)
<1>1. \A n : Query!IsSought(n) <=> n = target \/ (WantedBy(request, n) /\ n \in sometime.nodes)
  BY DEF Query!IsSought, Query!Wanted, WantedBy
<1>2. {<<source, n>> : n \in {m \in QueryNodes : Query!IsSought(m)}} =
        {<<source, n>> : n \in {m \in QueryNodes : m = target \/ (WantedBy(request, m) /\ m \in sometime.nodes)}}
  BY <1>1
<1>3. Query!AskedPairs = Asks(request, sometime.nodes, source, target)
  BY <1>2, Zenon DEF Query!AskedPairs, Asks
<1> QED
  BY <1>3, Zenon DEF Query!MaxDepth, DepthOf, Query!Joins, JoinsFor

\* More nodes that were stored make more targets.
LEMMA AsksMore ==
  ASSUME NEW r, r.op \in {"who", "what", "paths", "exposure"}, NEW seen, NEW more, seen \subseteq more, NEW from, NEW to
  PROVE  Asks(r, seen, from, to) \subseteq Asks(r, more, from, to)
BY DEF Asks
LEMMA LeadsMore ==
  ASSUME NEW r, r.op \in {"who", "what", "paths", "exposure"}, NEW seen, NEW more, seen \subseteq more,
         NEW from, NEW to, NEW p, Leads(r, seen, from, to, p)
  PROVE  Leads(r, more, from, to, p)
BY AsksMore DEF Leads

\* What joins two nodes has them for its ends.
LEMMA JoinedEnds ==
  ASSUME NEW p \in Seq(QueryEdges), NEW a, NEW b, NEW stored, NEW r, JoinsFor(r, p, <<a, b>>, stored)
  PROVE  EndsOf(p) = <<a, b>> /\ Len(p) \in Nat \ {0} /\ \A i \in 1..Len(p) : p[i] \in stored \cap QueryEdges
<1>1. Len(p) \in Nat \ {0} /\ \A i \in 1..Len(p) : p[i] \in QueryEdges
  BY EmptySeq, ElementOfSeq, LenProperties DEF JoinsFor
<1>2. QuerySource[p[1]] = a /\ QueryTarget[p[Len(p)]] = b
  BY <1>1 DEF JoinsFor, Query!IsWalk, Query!End
<1>3. \A i \in 1..Len(p) : p[i] \in stored
  BY <1>1 DEF JoinsFor, Query!IsWalk
<1> QED
  BY <1>1, <1>2, <1>3 DEF EndsOf

\* Storing more edges joins no less.
LEMMA JoinsMore ==
  ASSUME NEW r, NEW p, NEW pair, NEW stored, NEW more, stored \subseteq more, JoinsFor(r, p, pair, stored)
  PROVE  JoinsFor(r, p, pair, more)
BY DEF JoinsFor, Query!IsWalk

\* A path a search may take joins the source to its end.
LEMMA PathIs ==
  ASSUME request \in Query!Requests, request.op # "exposure",
         NEW stored \in SUBSET QueryEdges, NEW p \in Query!PathsAlong(stored)
  PROVE  /\ p \in Seq(QueryEdges) /\ p # <<>> /\ Len(p) \in Nat \ {0}
         /\ JoinsFor(request, p, <<source, QueryTarget[p[Len(p)]]>>, stored)
<1>1. PICK k \in 1..Query!MaxDepth : p \in [1..k -> stored \cap request.along]
  BY DEF Query!PathsAlong, Query!Sequences
<1>2. k \in Nat \ {0} /\ k <= Query!MaxDepth
  <2>1. Query!MaxDepth \in Nat \ {0}
    BY RequestIs
  <2> QED
    BY <1>1, <2>1
<1>3. p \in Seq(QueryEdges) /\ Len(p) = k
  BY <1>1, <1>2
<1>4. Query!IsWalk(p, source, stored, request.min) /\ Query!IsSimple(p, source)
  BY DEF Query!PathsAlong
<1>5. Query!IsWalk(p, source, stored \cap request.along, request.min)
  BY <1>1, <1>3, <1>4 DEF Query!IsWalk
<1>6. p # <<>> /\ Query!End(source, p) = QueryTarget[p[Len(p)]]
  BY <1>2, <1>3 DEF Query!End
<1> QED
  BY <1>2, <1>3, <1>4, <1>5, <1>6, JoinsIs DEF JoinsFor

\* A route joins the ends of the search.
LEMMA RouteIs ==
  ASSUME request \in Query!Requests, request.op # "exposure",
         NEW stored \in SUBSET QueryEdges, NEW p \in Query!RoutesAlong(stored)
  PROVE  p \in Seq(QueryEdges) /\ p # <<>> /\ JoinsFor(request, p, <<source, target>>, stored)
<1>1. p \in Query!PathsAlong(stored) /\ Query!End(source, p) = target
  BY DEF Query!RoutesAlong
<1>2. p # <<>>
  BY <1>1, PathIs
<1>3. QueryTarget[p[Len(p)]] = target
  BY <1>1, <1>2 DEF Query!End
<1> QED
  BY <1>1, <1>3, PathIs

\* What joins the source to a node is a path a search may take.
LEMMA PathOf ==
  ASSUME request \in Query!Requests, NEW stored, NEW more, stored \subseteq more, NEW n,
         NEW p \in Query!Sequences(stored, Query!MaxDepth), JoinsFor(request, p, <<source, n>>, stored)
  PROVE  /\ p \in Query!PathsAlong(more) /\ Query!End(source, p) = n
         /\ Len(p) \in Nat \ {0} /\ n = QueryTarget[p[Len(p)]]
<1>1. PICK k \in 1..Query!MaxDepth : p \in [1..k -> stored]
  BY DEF Query!Sequences
<1>2. k \in Nat \ {0}
  <2>1. Query!MaxDepth \in Nat \ {0}
    BY RequestIs
  <2> QED
    BY <1>1, <2>1
<1>3. Len(p) = k
  BY <1>1, <1>2
<1>4. \A i \in 1..k : p[i] \in more \cap request.along
  BY <1>3 DEF JoinsFor, Query!IsWalk
<1>5. p \in [1..k -> more \cap request.along]
  BY <1>1, <1>4
<1>6. p \in Query!Sequences(more \cap request.along, Query!MaxDepth)
  BY <1>1, <1>5 DEF Query!Sequences
<1>7. Query!IsWalk(p, source, more, request.min) /\ Query!IsSimple(p, source) /\ Query!End(source, p) = n /\ p # <<>>
  BY DEF JoinsFor, Query!IsWalk
<1> QED
  BY <1>2, <1>3, <1>6, <1>7 DEF Query!PathsAlong, Query!End

\* The same for the edges stored all the time, within the depth asked for.
LEMMA SteadyPathOf ==
  ASSUME request \in Query!Requests, NEW more, always.links \subseteq more, NEW n,
         NEW p \in Query!Sequences(always.links, DepthOf(request)),
         JoinsFor(request, p, <<source, n>>, always.links)
  PROVE  /\ p \in Query!PathsAlong(more)
         /\ Len(p) \in Nat \ {0} /\ n = QueryTarget[p[Len(p)]]
<1>1. p \in Query!Sequences(always.links, Query!MaxDepth)
  <2>1. Query!MaxDepth = DepthOf(request)
    BY JoinsIs
  <2> QED
    BY <2>1, Zenon
<1> QED
  BY <1>1, PathOf

\* What joins the ends of the search is a route.
LEMMA RouteOf ==
  ASSUME request \in Query!Requests, NEW stored, NEW more, stored \subseteq more,
         NEW p \in Query!Sequences(stored, Query!MaxDepth), JoinsFor(request, p, <<source, target>>, stored)
  PROVE  p \in Query!RoutesAlong(more)
BY PathOf DEF Query!RoutesAlong

\* Where no route was stored all the time, none joined the ends.
LEMMA NoRoute ==
  ASSUME request \in Query!Requests, always.links \subseteq window.all, Query!RoutesAlong(window.all) = {}
  PROVE  Unjoined(<<source, target>>)
BY RouteOf, JoinsIs DEF NeverJoined, Unjoined

\* Removing edges joins nothing more.
LEMMA NeverJoinedLess ==
  ASSUME NEW r, NEW pair, NEW stored, NEW less, less \subseteq stored, NeverJoined(r, stored, pair)
  PROVE  NeverJoined(r, less, pair)
<1>1. Query!Sequences(less, DepthOf(r)) \subseteq Query!Sequences(stored, DepthOf(r))
  BY DEF Query!Sequences
<1> QED
  BY <1>1, JoinsMore DEF NeverJoined

\* What was found stays so.
LEMMA FoundMore ==
  ASSUME NEW r, NEW p, NEW stored, NEW more, stored \subseteq more, Found(r, stored, p)
  PROVE  Found(r, more, p)
BY JoinsMore DEF Found

-----------------------------------------------------------------------------
(* Scores *)

\* The confidence of a path is that of an edge, and no edge has less.
LEMMA WeakestIs ==
  ASSUME NEW p \in Seq(QueryEdges), p # <<>>
  PROVE  \E i \in 1..Len(p) :
           /\ Query!WeakestConfidence(p) = QueryConfidence[p[i]]
           /\ \A j \in 1..Len(p) : Rank(QueryConfidence[p[i]]) <= Rank(QueryConfidence[p[j]])
<1> DEFINE rank(i) == Rank(QueryConfidence[p[i]])
           Weak(i) == \A j \in DOMAIN p : rank(i) <= rank(j)
           First(i) == Weak(i) /\ \A j \in 1..(i - 1) : rank(j) # rank(i)
           ranks == {rank(i) : i \in DOMAIN p}
           places == {i \in DOMAIN p : Weak(i)}
<1>1. DOMAIN p = 1..Len(p) /\ Len(p) \in Nat \ {0} /\ \A i \in DOMAIN p : p[i] \in QueryEdges
  BY EmptySeq, ElementOfSeq, LenProperties
<1>2. \A i \in DOMAIN p : rank(i) \in Nat
  BY <1>1, QueryGraphIs DEF QueryGraph, Confidences, Rank
<1>3. ranks \in SUBSET Nat /\ ranks # {}
  BY <1>1, <1>2
<1>4. PICK least \in ranks : \A m \in ranks : least <= m
  BY <1>3, LeastNatural
<1>5. places \in SUBSET Nat /\ places # {}
  BY <1>1, <1>4
<1>6. PICK i \in places : \A m \in places : i <= m
  BY <1>5, LeastNatural
<1>7. First(i)
  <2> SUFFICES ASSUME NEW j \in 1..(i - 1), rank(j) = rank(i) PROVE FALSE
    OBVIOUS
  <2>1. j \in DOMAIN p /\ j < i
    BY <1>1
  <2>2. j \in places
    BY <2>1
  <2> QED
    BY <1>1, <1>6, <2>1, <2>2
<1>8. \A k : Query!Rank(k) = Rank(k)
  BY DEF Query!Rank, Rank
<1> DEFINE w == CHOOSE k \in DOMAIN p : First(k)
<1>9. Query!WeakestConfidence(p) = QueryConfidence[p[w]]
  BY <1>8 DEF Query!WeakestConfidence
<1> HIDE DEF First
<1>10. w \in DOMAIN p /\ First(w)
  BY <1>7
<1> QED
  BY <1>1, <1>9, <1>10 DEF First

\* The confidence of an edge that does not give one, and what each confidence is worth.
NotSaid == ""
LEMMA ConfidencesAre ==
  /\ Confidences = {"definite", "possible", "unknown", NotSaid, "blocked"}
  /\ NotSaid # "definite" /\ NotSaid # "possible" /\ NotSaid # "blocked"
BY Zenon DEF Confidences, NotSaid

\* The ranks of the confidences (confidenceRank): one that is not given counts as unknown.
LEMMA RanksAre ==
  /\ Rank("definite") = 3 /\ Rank("possible") = 2 /\ Rank("unknown") = 1 /\ Rank(NotSaid) = 1 /\ Rank("blocked") = 0
  /\ \A c : Query!Rank(c) = Rank(c)
<1>1. \A c : Query!Rank(c) = Rank(c)
  BY DEF Rank, Query!Rank
<1>2. Rank("definite") = 3
  BY DEF Rank
<1>3. Rank("possible") = 2
  BY DEF Rank
<1>4. Rank("unknown") = 1 /\ Rank(NotSaid) = 1
  BY DEF Rank, NotSaid
<1>5. Rank("blocked") = 0
  BY DEF Rank
<1> QED
  BY <1>1, <1>2, <1>3, <1>4, <1>5

\* The points of a path before its confidence is counted.
Outside(p) == IF p.from # None /\ QueryType[p.from] \in Query!OutsideTypes THEN 1500 ELSE 0
Crosses(p) == \E i \in DOMAIN p.steps : p.steps[i] \in CrossAccount
Crossing(p) == IF Crosses(p) THEN 1000 ELSE 0
Points(p) == 2000 + Query!Weight(p.to) + Outside(p) + Crossing(p) - 200 * (Len(p.steps) - 1)
Weighed(c, x) ==
  Query!Clamp(CASE c = "definite" -> x
                [] c = "possible" -> (x * 6) \div 10
                [] c \in {"unknown", NotSaid} -> (x * 3) \div 10
                [] c = "blocked" -> 0)

\* ScorePath is the points of a path, weighed by its confidence and kept within its bounds.
LEMMA ScoreIs == ASSUME NEW p PROVE Query!ScorePath(p) = Weighed(p.confidence, Points(p))
BY Zenon DEF Query!ScorePath, Weighed, Points, Outside, Crosses, Crossing, NotSaid

\* A score is between 0 and what the points of the path weigh.
LEMMA WeighedIs ==
  ASSUME NEW c \in Confidences, NEW x \in Int, x <= 7500
  PROVE  Weighed(c, x) = IF x <= 0 \/ c = "blocked" THEN 0
                         ELSE IF c = "definite" THEN x
                         ELSE IF c = "possible" THEN (x * 6) \div 10 ELSE (x * 3) \div 10
<1>1. CASE c = "definite"
  BY <1>1, ConfidencesAre DEF Weighed, Query!Clamp
<1>2. CASE c = "possible"
  <2>1. Weighed(c, x) = Query!Clamp((x * 6) \div 10)
    BY <1>2, ConfidencesAre DEF Weighed
  <2> QED
    BY <1>2, <2>1 DEF Query!Clamp
<1>3. CASE c \in {"unknown", NotSaid}
  <2>1. Weighed(c, x) = Query!Clamp((x * 3) \div 10)
    BY <1>3, ConfidencesAre DEF Weighed
  <2> QED
    BY <1>3, <2>1, ConfidencesAre DEF Query!Clamp
<1>4. CASE c = "blocked"
  BY <1>4, ConfidencesAre DEF Weighed, Query!Clamp
<1> QED
  BY <1>1, <1>2, <1>3, <1>4, ConfidencesAre

\* Points are no more than what is counted for a path of one step.
LEMMA PointsBounded ==
  ASSUME NEW p, Len(p.steps) \in Nat \ {0}
  PROVE  Points(p) \in Int /\ Points(p) <= 7500
<1>1. Query!Weight(p.to) \in 0..3000
  BY DEF Query!Weight
<1>2. Outside(p) \in 0..1500 /\ Crossing(p) \in 0..1000
  BY DEF Outside, Crossing
<1> DEFINE w == Query!Weight(p.to)
           o == Outside(p)
           c == Crossing(p)
           n == Len(p.steps)
<1>3. Points(p) = 2000 + w + o + c - 200 * (n - 1)
  BY DEF Points
<1> HIDE DEF w, o, c, n
<1>4. w \in 0..3000 /\ o \in 0..1500 /\ c \in 0..1000 /\ n \in Nat \ {0}
  BY <1>1, <1>2 DEF w, o, c, n
<1> QED
  BY <1>3, <1>4

\* Of two paths the stronger scores more, unless neither scores.
LEMMA StrongerScores ==
  ASSUME NEW p, NEW q, p.steps \in Seq(QueryEdges), q.steps \in Seq(QueryEdges),
         p.steps # <<>>, q.steps # <<>>,
         p.confidence = Query!WeakestConfidence(p.steps), q.confidence = Query!WeakestConfidence(q.steps),
         Query!Stronger(p, q)
  PROVE  Query!ScorePath(p) > Query!ScorePath(q) \/ (Query!ScorePath(p) = 0 /\ Query!ScorePath(q) = 0)
<1>1. Len(p.steps) \in Nat \ {0} /\ Len(q.steps) \in Nat \ {0}
      /\ DOMAIN p.steps = 1..Len(p.steps) /\ DOMAIN q.steps = 1..Len(q.steps)
      /\ (\A i \in 1..Len(p.steps) : p.steps[i] \in QueryEdges) /\ \A i \in 1..Len(q.steps) : q.steps[i] \in QueryEdges
  BY EmptySeq, ElementOfSeq, LenProperties
<1>2. PICK i \in 1..Len(p.steps) :
           /\ p.confidence = QueryConfidence[p.steps[i]]
           /\ \A j \in 1..Len(p.steps) : Rank(QueryConfidence[p.steps[i]]) <= Rank(QueryConfidence[p.steps[j]])
  BY WeakestIs
<1>3. PICK j \in 1..Len(q.steps) :
           /\ q.confidence = QueryConfidence[q.steps[j]]
           /\ \A k \in 1..Len(q.steps) : Rank(QueryConfidence[q.steps[j]]) <= Rank(QueryConfidence[q.steps[k]])
  BY WeakestIs
<1>4. p.confidence \in Confidences /\ q.confidence \in Confidences
  BY <1>1, <1>2, <1>3, QueryGraphIs DEF QueryGraph
<1>5. \A c \in Confidences : Rank(c) \in 0..3 /\ Query!Rank(c) = Rank(c)
  BY ConfidencesAre, RanksAre
<1>6. Rank(p.confidence) >= Rank(q.confidence)
  <2>1. PICK k \in 1..Len(q.steps) : Query!Rank(QueryConfidence[p.steps[i]]) >= Query!Rank(QueryConfidence[q.steps[k]])
    BY <1>1 DEF Query!Stronger
  <2>2. QueryConfidence[p.steps[i]] \in Confidences /\ QueryConfidence[q.steps[k]] \in Confidences
    BY <1>1, QueryGraphIs DEF QueryGraph
  <2>3. Rank(QueryConfidence[p.steps[i]]) >= Rank(QueryConfidence[q.steps[k]])
    BY <1>5, <2>1, <2>2
  <2> QED
    BY <1>2, <1>3, <1>4, <1>5, <2>2, <2>3
<1>7. Points(p) \in Int /\ Points(q) \in Int /\ Points(p) <= 7500 /\ Points(q) <= 7500
  BY <1>1, PointsBounded
<1>8. Points(p) >= Points(q) + 200
  <2>1. p.from = q.from /\ p.to = q.to /\ Len(p.steps) < Len(q.steps)
    BY DEF Query!Stronger
  <2>2. Crosses(q) => Crosses(p)
    BY DEF Query!Stronger, Crosses
  <2>3. Query!Weight(p.to) \in 0..3000 /\ Query!Weight(q.to) = Query!Weight(p.to)
    BY <2>1 DEF Query!Weight
  <2>4. Outside(p) \in 0..1500 /\ Outside(q) = Outside(p)
    BY <2>1 DEF Outside
  <2>5. Crossing(p) \in 0..1000 /\ Crossing(q) \in 0..1000 /\ Crossing(q) <= Crossing(p)
    BY <2>2 DEF Crossing
  <2>6. Len(q.steps) \in Nat
    BY <1>1
  <2> DEFINE w == Query!Weight(p.to)
             o == Outside(p)
             c == Crossing(p)
             n == Len(p.steps)
             w1 == Query!Weight(q.to)
             o1 == Outside(q)
             c1 == Crossing(q)
             n1 == Len(q.steps)
  <2>7. Points(p) = 2000 + w + o + c - 200 * (n - 1) /\ Points(q) = 2000 + w1 + o1 + c1 - 200 * (n1 - 1)
    BY DEF Points
  <2>8. w \in 0..3000 /\ o \in 0..1500 /\ c \in 0..1000 /\ n \in Nat \ {0} /\ c1 \in 0..1000 /\ n1 \in Nat
        /\ w1 = w /\ o1 = o /\ c1 <= c /\ n < n1
    <3>1. n \in Nat \ {0} /\ n1 \in Nat /\ n < n1
      BY <1>1, <2>1, <2>6
    <3>2. w \in 0..3000 /\ w1 = w
      BY <2>3
    <3>3. o \in 0..1500 /\ o1 = o
      BY <2>4
    <3>4. c \in 0..1000 /\ c1 \in 0..1000 /\ c1 <= c
      BY <2>5
    <3> HIDE DEF w, o, c, n, w1, o1, c1, n1
    <3> QED
      BY <3>1, <3>2, <3>3, <3>4
  <2> HIDE DEF w, o, c, n, w1, o1, c1, n1
  <2> QED
    BY <2>7, <2>8
<1>9. Query!ScorePath(p) = Weighed(p.confidence, Points(p)) /\ Query!ScorePath(q) = Weighed(q.confidence, Points(q))
  BY ScoreIs
<1> DEFINE c == p.confidence
           d == q.confidence
           x == Points(p)
           y == Points(q)
<1> HIDE DEF c, d, x, y
<1>10. /\ c \in Confidences /\ d \in Confidences /\ x \in Int /\ y \in Int /\ x >= y + 200 /\ x <= 7500 /\ y <= 7500
       /\ Rank(c) >= Rank(d)
  BY <1>4, <1>6, <1>7, <1>8 DEF c, d, x, y
<1>11. Weighed(c, x) > Weighed(d, y) \/ (Weighed(c, x) = 0 /\ Weighed(d, y) = 0)
  <2>1. /\ Weighed(c, x) = IF x <= 0 \/ c = "blocked" THEN 0
                           ELSE IF c = "definite" THEN x
                           ELSE IF c = "possible" THEN (x * 6) \div 10 ELSE (x * 3) \div 10
        /\ Weighed(d, y) = IF y <= 0 \/ d = "blocked" THEN 0
                           ELSE IF d = "definite" THEN y
                           ELSE IF d = "possible" THEN (y * 6) \div 10 ELSE (y * 3) \div 10
    BY <1>10, WeighedIs
  <2>2. CASE x <= 0 \/ c = "blocked"
    BY <1>10, <2>1, <2>2, ConfidencesAre, RanksAre
  <2>3. CASE x > 0 /\ c = "definite"
    BY <1>10, <2>1, <2>3, ConfidencesAre, RanksAre
  <2>4. CASE x > 0 /\ c = "possible"
    BY <1>10, <2>1, <2>4, ConfidencesAre, RanksAre
  <2>5. CASE x > 0 /\ c \in {"unknown", NotSaid}
    BY <1>10, <2>1, <2>5, ConfidencesAre, RanksAre
  <2> QED
    BY <1>10, <2>2, <2>3, <2>4, <2>5, ConfidencesAre
<1> QED
  BY <1>9, <1>11 DEF c, d, x, y

\* High severity is that of definite paths alone.
LEMMA SevereIsDefinite ==
  ASSUME NEW p, p.steps \in Seq(QueryEdges), p.steps # <<>>, p.confidence = Query!WeakestConfidence(p.steps),
         Query!SeverityForScore(Query!ScorePath(p)) \in {"critical", "high"}
  PROVE  \A k \in 1..Len(p.steps) : QueryConfidence[p.steps[k]] = "definite"
<1>1. Len(p.steps) \in Nat \ {0} /\ \A i \in 1..Len(p.steps) : p.steps[i] \in QueryEdges
  BY EmptySeq, ElementOfSeq, LenProperties
<1>2. PICK i \in 1..Len(p.steps) :
           /\ p.confidence = QueryConfidence[p.steps[i]]
           /\ \A j \in 1..Len(p.steps) : Rank(QueryConfidence[p.steps[i]]) <= Rank(QueryConfidence[p.steps[j]])
  BY WeakestIs
<1>3. \A j \in 1..Len(p.steps) : QueryConfidence[p.steps[j]] \in Confidences
  BY <1>1, QueryGraphIs DEF QueryGraph
<1>4. Points(p) \in Int /\ Points(p) <= 7500
  BY <1>1, PointsBounded
<1>5. Query!ScorePath(p) = Weighed(p.confidence, Points(p))
  BY ScoreIs
<1>6. p.confidence # "definite" => Query!ScorePath(p) \in Int /\ Query!ScorePath(p) < 5000
  <2> DEFINE c == p.confidence
             x == Points(p)
  <2>1. c \in Confidences /\ x \in Int /\ x <= 7500
    BY <1>2, <1>3, <1>4
  <2> HIDE DEF c, x
  <2>2. c # "definite" => Weighed(c, x) \in Int /\ Weighed(c, x) < 5000
    BY <2>1, WeighedIs
  <2> QED
    BY <1>5, <2>2 DEF c, x
<1>7. p.confidence = "definite"
  BY <1>6 DEF Query!SeverityForScore
<1>8. \A c \in Confidences : Rank(c) >= Rank("definite") => c = "definite"
  BY ConfidencesAre, RanksAre
<1>9. ASSUME NEW k \in 1..Len(p.steps) PROVE Rank(QueryConfidence[p.steps[k]]) >= Rank("definite")
  <2>1. Rank("definite") <= Rank(QueryConfidence[p.steps[k]])
    BY <1>2, <1>7
  <2>2. \A c \in Confidences : Rank(c) \in Int
    BY ConfidencesAre, RanksAre
  <2>3. Rank("definite") \in Int /\ Rank(QueryConfidence[p.steps[k]]) \in Int
    BY <1>3, <2>2, ConfidencesAre
  <2> QED
    BY <2>1, <2>3
<1> QED
  BY <1>3, <1>8, <1>9

-----------------------------------------------------------------------------
(* The sort at the end *)

\* The order of two answers is that of two numbers, and of two more when these are equal.
LEMMA BeforeIs ==
  ASSUME QueryRouteInv, QueryOrderInv
  PROVE  /\ \A i \in 1..Len(answers) : ~ Query!Before(i, i)
         /\ \A i, j \in 1..Len(answers) : Query!Before(i, j) => ~ Query!Before(j, i)
         /\ \A i, j, k \in 1..Len(answers) :
              ~ Query!Before(j, i) /\ ~ Query!Before(k, j) => ~ Query!Before(k, i)
<1> DEFINE place(i) == PlaceOf[answers[i].path.to]
           score(i) == answers[i].score
           len(i) == Len(answers[i].path.steps)
<1>1. ASSUME NEW i \in 1..Len(answers)
      PROVE  score(i) \in Int /\ len(i) \in Nat /\ (request.op = "exposure" => place(i) \in Nat)
  <2>1. answers[i] \in AnswerType
    BY ElementOfSeq DEF QueryRouteInv
  <2>2. score(i) \in Int /\ answers[i].path.steps \in Seq(QueryEdges)
    BY <2>1 DEF AnswerType
  <2>3. len(i) \in Nat
    BY <2>2, LenProperties
  <2>4. request.op = "exposure" => answers[i].path.to \in QueryNodes
    BY DEF QueryOrderInv, Scored
  <2> QED
    BY <2>2, <2>3, <2>4, QueryingAssumption DEF Query!QueryAssumption
<1>2. CASE request.op = "exposure"
  <2>1. \A i, j : Query!Before(i, j) <=> place(i) < place(j)
    BY <1>2 DEF Query!Before
  <2> HIDE DEF place
  <2> QED
    BY <1>1, <1>2, <2>1
<1>3. CASE request.op = "paths"
  <2>1. \A i, j : Query!Before(i, j) <=> score(i) > score(j) \/ (score(i) = score(j) /\ len(i) < len(j))
    BY <1>3 DEF Query!Before
  <2> HIDE DEF score, len
  <2> QED
    BY <1>1, <2>1
<1>4. CASE request.op \notin {"exposure", "paths"}
  <2>1. \A i, j : Query!Before(i, j) <=> score(i) > score(j)
    BY <1>4 DEF Query!Before
  <2> HIDE DEF score
  <2> QED
    BY <1>1, <2>1
<1> QED
  BY <1>2, <1>3, <1>4

\* The sort rearranges the answers, and leaves none before one that it should follow.
LEMMA SortPermutes ==
  ASSUME QueryRouteInv, QueryOrderInv, Query!Sort
  PROVE  \E f \in [1..Len(answers) -> 1..Len(answers)] :
           /\ answers' \in Seq(AnswerType) /\ Len(answers') = Len(answers)
           /\ \A k \in 1..Len(answers) : answers'[k] = answers[f[k]]
           /\ \A k, l \in 1..Len(answers) : f[k] = f[l] => k = l
           /\ \A i \in 1..Len(answers) : \E k \in 1..Len(answers) : f[k] = i
           /\ \A k, l \in 1..Len(answers) : k < l => ~ Query!Before(f[l], f[k])
<1> DEFINE n == Len(answers)
           R == {s \in (1..n) \X (1..n) : Query!Before(s[1], s[2]) \/ (~ Query!Before(s[2], s[1]) /\ s[1] <= s[2])}
           rank == [i \in 1..n |-> Cardinality({j \in 1..n : <<j, i>> \in R})]
           f == [k \in 1..n |-> CHOOSE i \in DOMAIN answers : Query!Position(i) = k]
<1>1. answers \in Seq(AnswerType) /\ n \in Nat /\ DOMAIN answers = 1..n
  BY LenProperties DEF QueryRouteInv
<1>2. answers' = [k \in DOMAIN answers |-> answers[CHOOSE i \in DOMAIN answers : Query!Position(i) = k]]
  BY DEF Query!Sort
<1>3. \A i, j \in 1..n : <<j, i>> \in R <=> (Query!Before(j, i) \/ (~ Query!Before(i, j) /\ j <= i))
  OBVIOUS
<1>4. \A i \in 1..n : Query!Position(i) = rank[i]
  <2> SUFFICES ASSUME NEW i \in 1..n PROVE Query!Position(i) = rank[i]
    OBVIOUS
  <2>1. {j \in 1..n : <<j, i>> \in R}
        = {j \in DOMAIN answers : Query!Before(j, i) \/ (~ Query!Before(i, j) /\ j <= i)}
    BY <1>1, <1>3
  <2>2. Query!Position(i) = Cardinality({j \in DOMAIN answers : Query!Before(j, i) \/ (~ Query!Before(i, j) /\ j <= i)})
    BY Zenon DEF Query!Position, Query!Cardinality, Cardinality
  <2>3. rank[i] = Cardinality({j \in 1..n : <<j, i>> \in R})
    OBVIOUS
  <2> HIDE DEF R
  <2> QED
    BY <2>1, <2>2, <2>3, Zenon
<1>5. \A i \in 1..n : rank[i] = Cardinality({j \in 1..n : <<j, i>> \in R})
  OBVIOUS
<1> HIDE DEF n, R, rank
<1>6. \A i, j \in 1..n : <<i, j>> \in R \/ <<j, i>> \in R
  <2> SUFFICES ASSUME NEW i \in 1..n, NEW j \in 1..n, <<i, j>> \notin R PROVE <<j, i>> \in R
    OBVIOUS
  <2>1. ~ Query!Before(i, j)
    BY <1>3
  <2>2. CASE Query!Before(j, i)
    BY <1>3, <2>2
  <2>3. CASE ~ Query!Before(j, i)
    <3>1. j <= i
      BY <1>1, <1>3, <2>1, <2>3
    <3> QED
      BY <1>3, <2>1, <3>1
  <2> QED
    BY <2>2, <2>3
<1>7. \A i, j \in 1..n : <<i, j>> \in R /\ <<j, i>> \in R => i = j
  BY <1>1, <1>3, BeforeIs DEF n
<1>8. \A i, j \in 1..n : <<i, j>> \in R => ~ Query!Before(j, i)
  BY <1>3, BeforeIs DEF n
<1>9. \A i, j, k \in 1..n : <<i, j>> \in R /\ <<j, k>> \in R => <<i, k>> \in R
  <2> SUFFICES ASSUME NEW i \in 1..n, NEW j \in 1..n, NEW k \in 1..n, <<i, j>> \in R, <<j, k>> \in R
               PROVE  <<i, k>> \in R
    OBVIOUS
  <2>1. ~ Query!Before(k, i)
    BY <1>8, BeforeIs DEF n
  <2>2. CASE Query!Before(i, k)
    BY <1>3, <2>2
  <2>3. CASE ~ Query!Before(i, k)
    <3>1. ~ Query!Before(i, j) /\ ~ Query!Before(j, k)
      <4>1. ~ Query!Before(j, i) /\ ~ Query!Before(k, j)
        BY <1>8
      <4> QED
        BY <2>1, <2>3, <4>1, BeforeIs DEF n
    <3>2. i <= j /\ j <= k
      BY <1>3, <3>1
    <3> QED
      BY <1>1, <1>3, <2>1, <3>2
  <2> QED
    BY <2>2, <2>3
<1>10. /\ \A i \in 1..n : rank[i] \in 1..n
       /\ \A k \in 1..n : \E i \in 1..n : rank[i] = k
       /\ \A i, j \in 1..n : rank[i] = rank[j] => i = j
       /\ \A i, j \in 1..n : rank[i] < rank[j] => <<i, j>> \in R
  BY <1>1, <1>5, <1>6, <1>7, <1>9, RanksAreAll
<1>11. \A k \in 1..n : f[k] \in 1..n /\ rank[f[k]] = k
  <2> SUFFICES ASSUME NEW k \in 1..n PROVE f[k] \in 1..n /\ rank[f[k]] = k
    OBVIOUS
  <2>1. f[k] = CHOOSE i \in DOMAIN answers : Query!Position(i) = k
    OBVIOUS
  <2> HIDE DEF f
  <2>2. \E i \in DOMAIN answers : Query!Position(i) = k
    BY <1>1, <1>4, <1>10
  <2>3. f[k] \in DOMAIN answers /\ Query!Position(f[k]) = k
    BY <2>1, <2>2, Zenon
  <2> QED
    BY <1>1, <1>4, <2>3
<1>12. \A k \in 1..n : answers'[k] = answers[f[k]]
  BY <1>1, <1>2
<1>13. answers' \in [1..n -> AnswerType]
  <2>1. \A k \in 1..n : answers[f[k]] \in AnswerType
    BY <1>1, <1>11, ElementOfSeq DEF n
  <2> QED
    BY <1>1, <1>2, <2>1
<1> HIDE DEF f
<1>14. answers' \in Seq(AnswerType) /\ Len(answers') = n
  BY <1>1, <1>13
<1>15. f \in [1..n -> 1..n]
  BY <1>11 DEF f
<1>16. \A k, l \in 1..n : f[k] = f[l] => k = l
  BY <1>11
<1>17. \A i \in 1..n : \E k \in 1..n : f[k] = i
  <2> SUFFICES ASSUME NEW i \in 1..n PROVE \E k \in 1..n : f[k] = i
    OBVIOUS
  <2>1. rank[i] \in 1..n
    BY <1>10
  <2>2. f[rank[i]] \in 1..n /\ rank[f[rank[i]]] = rank[i]
    BY <1>11, <2>1
  <2>3. f[rank[i]] = i
    BY <1>10, <2>2
  <2> QED
    BY <2>1, <2>3
<1>18. \A k, l \in 1..n : k < l => ~ Query!Before(f[l], f[k])
  <2> SUFFICES ASSUME NEW k \in 1..n, NEW l \in 1..n, k < l PROVE ~ Query!Before(f[l], f[k])
    OBVIOUS
  <2>1. f[k] \in 1..n /\ f[l] \in 1..n /\ rank[f[k]] < rank[f[l]]
    BY <1>11
  <2>2. <<f[k], f[l]>> \in R
    BY <1>10, <2>1
  <2> QED
    BY <1>8, <2>1, <2>2
<1> QED
  BY <1>12, <1>14, <1>15, <1>16, <1>17, <1>18 DEF n

-----------------------------------------------------------------------------
(* Steps of a query *)

\* What is stored at some time grows, and what is stored all the time shrinks.
LEMMA HistoryStep ==
  ASSUME QueryHistoryInv, [Query!Next]_Query!vars
  PROVE  /\ QueryHistoryInv'
         /\ request' = request /\ sometime.links \subseteq sometime.links'
         /\ sometime.nodes \subseteq sometime'.nodes /\ lost \subseteq lost'
         /\ always'.nodes \subseteq always.nodes /\ always'.links \subseteq always.links
<1> USE DEF QueryHistoryInv, Query!graph, Query!history
<1>1. CASE Query!GraphChanges
  <2>1. known' \subseteq QueryNodes /\ links' \subseteq links \cup QueryEdges
    BY <1>1 DEF Query!GraphChanges, Query!Toggle
  <2> QED
    BY <1>1, <2>1 DEF Query!GraphChanges
<1>2. CASE Query!ResolveTarget
  BY <1>2 DEF Query!ResolveTarget, Query!OpenWindow
<1>3. ASSUME NEW n \in QueryNodes, Query!StartSearch(n)
      PROVE  UNCHANGED <<known, links, sometime, always, request, lost>> /\ Query!OpenWindow
  BY <1>3 DEF Query!StartSearch
<1>4. CASE \E n \in QueryNodes : Query!StartSearch(n)
  BY <1>3, <1>4 DEF Query!OpenWindow
<1>5. ASSUME UNCHANGED <<known, links, sometime, always, window, request>>, lost \subseteq lost',
             queryPc' = "search" => queryPc = "search"
      PROVE  /\ QueryHistoryInv'
             /\ request' = request /\ sometime.links \subseteq sometime.links'
             /\ sometime.nodes \subseteq sometime'.nodes /\ lost \subseteq lost'
             /\ always'.nodes \subseteq always.nodes /\ always'.links \subseteq always.links
  BY <1>5
<1>6. CASE Query!Resolve
  BY <1>5, <1>6 DEF Query!Resolve
<1>7. CASE Query!NotFound
  BY <1>5, <1>7 DEF Query!NotFound
<1>8. CASE Query!ListNodes
  BY <1>5, <1>8 DEF Query!ListNodes
<1>9. CASE Query!EndSearch
  BY <1>5, <1>9 DEF Query!EndSearch
<1>10. CASE Query!EndEnumeration
  BY <1>5, <1>10 DEF Query!EndEnumeration
<1>11. CASE Query!ReadSource
  BY <1>5, <1>11 DEF Query!ReadSource
<1>12. CASE Query!ReadTarget
  BY <1>5, <1>12 DEF Query!ReadTarget
<1>13. CASE Query!NextNode
  BY <1>5, <1>13 DEF Query!NextNode
<1>14. CASE Query!Sort
  BY <1>5, <1>14 DEF Query!Sort
<1>15. CASE Query!ListExposure
  BY <1>5, <1>15 DEF Query!ListExposure
<1>16. CASE Query!ReadExposed
  BY <1>5, <1>16 DEF Query!ReadExposed
<1>17. CASE Query!Fail
  BY <1>5, <1>17 DEF Query!Fail
<1>18. CASE UNCHANGED Query!vars
  BY <1>5, <1>18 DEF Query!vars
<1> QED
  BY <1>1, <1>2, <1>4, <1>6, <1>7, <1>8, <1>9, <1>10, <1>11, <1>12, <1>13, <1>14, <1>15, <1>16, <1>17, <1>18
     DEF Query!Next, Query!Step

\* The first of the paths found, and the others.
LEMMA HeadTail ==
  ASSUME NEW S, NEW s \in Seq(S), s # <<>>
  PROVE  /\ Head(s) = s[1] /\ s[1] \in S /\ 1 \in 1..Len(s)
         /\ Tail(s) \in Seq(S) /\ Len(Tail(s)) = Len(s) - 1 /\ Len(s) \in Nat \ {0}
         /\ \A i \in 1..(Len(s) - 1) : Tail(s)[i] = s[i + 1]
         /\ Len(s) \in {0, 1} => Tail(s) = <<>>
<1>1. Len(s) \in Nat \ {0}
  BY EmptySeq, LenProperties
<1>2. s[1] \in S
  BY <1>1, ElementOfSeq
<1>3. Tail(s) \in Seq(S) /\ Len(Tail(s)) = Len(s) - 1 /\ \A i \in 1..(Len(s) - 1) : Tail(s)[i] = s[i + 1]
  BY <1>1, HeadTailProperties
<1>4. Len(s) \in {0, 1} => Tail(s) = <<>>
  BY <1>1, <1>3, EmptySeq
<1> QED
  BY <1>1, <1>2, <1>3, <1>4

\* A query goes its way.
LEMMA PlaceStep ==
  ASSUME QueryHistoryInv, QueryPlaceInv, QueryRouteInv, [Query!Next]_Query!vars
  PROVE  QueryPlaceInv'
<1> USE DEF QueryPlaceInv, Loops, Candidates, InHand, Pending
<1>1. /\ request' = request /\ request.op \in {"who", "what", "paths", "exposure"} /\ request \in Query!Requests
      /\ Query!Requests' = Query!Requests
  BY HistoryStep, RequestIs DEF Query!Requests
<1>2. raws \in Seq(Seq(QueryEdges))
  BY DEF QueryRouteInv
<1>3. CASE Query!Resolve
  BY <1>1, <1>2, <1>3 DEF Query!Resolve
<1>4. CASE Query!ResolveTarget
  BY <1>1, <1>2, <1>4 DEF Query!ResolveTarget
<1>5. CASE Query!NotFound
  BY <1>1, <1>2, <1>5 DEF Query!NotFound
<1>6. CASE Query!ListNodes
  BY <1>1, <1>2, <1>6 DEF Query!ListNodes, QueryHistoryInv
<1>7. ASSUME NEW n \in QueryNodes, Query!StartSearch(n) PROVE QueryPlaceInv'
  BY <1>1, <1>2, <1>7 DEF Query!StartSearch, Query!IsFirst
<1>8. CASE Query!EndSearch
  <2>1. Len(raws') \in {0, 1}
    <3>1. raws' = <<>> \/ \E p : raws' = <<p>>
      BY <1>8 DEF Query!EndSearch
    <3>2. ASSUME NEW p PROVE Len(<<p>>) = 1 /\ Len(<<>>) = 0
      OBVIOUS
    <3>3. CASE raws' = <<>>
      BY <3>3
    <3>4. ASSUME NEW p, raws' = <<p>> PROVE Len(raws') = 1
      BY <3>4
    <3> QED
      BY <3>1, <3>3, <3>4
  <2> QED
    BY <1>1, <1>2, <1>8, <2>1 DEF Query!EndSearch
<1>9. CASE Query!EndEnumeration
  BY <1>1, <1>2, <1>9 DEF Query!EndEnumeration
<1>10. CASE Query!ReadSource
  BY <1>1, <1>2, <1>10 DEF Query!ReadSource
<1>11. CASE Query!ReadTarget
  <2>1. Loops => raws' = <<>> /\ Len(raws') = 0
    <3>1. raws' = Tail(raws)
      BY <1>11 DEF Query!ReadTarget
    <3>2. Loops => Tail(raws) = <<>>
      BY <1>2, <1>11, HeadTail DEF Query!ReadTarget
    <3> QED
      BY <3>1, <3>2
  <2>2. queryPc = "read target" /\ queryPc' = "build" /\ UNCHANGED <<source, target, todo>>
    BY <1>11 DEF Query!ReadTarget
  <2>3. Loops' => Loops /\ ~ Pending' /\ Len(raws') = 0 /\ todo' \subseteq Candidates'
    BY <1>1, <2>1, <2>2
  <2>4. request.op # "exposure" /\ (~ Loops' => todo' = {})
    BY <1>1, <2>2
  <2> QED
    BY <1>1, <2>2, <2>3, <2>4
<1>12. CASE Query!NextNode
  BY <1>1, <1>2, <1>12 DEF Query!NextNode
<1>13. CASE Query!Sort
  BY <1>1, <1>2, <1>13 DEF Query!Sort
<1>14. CASE Query!ListExposure
  BY <1>1, <1>2, <1>14 DEF Query!ListExposure
<1>15. CASE Query!ReadExposed
  BY <1>1, <1>2, <1>15 DEF Query!ReadExposed
<1>16. CASE Query!Fail
  BY <1>1, <1>2, <1>16 DEF Query!Fail
<1>17. CASE Query!GraphChanges
  BY <1>1, <1>2, <1>17 DEF Query!GraphChanges
<1>18. CASE UNCHANGED Query!vars
  BY <1>1, <1>2, <1>18 DEF Query!vars
<1> QED
  BY <1>3, <1>4, <1>5, <1>6, <1>7, <1>8, <1>9, <1>10, <1>11, <1>12, <1>13, <1>14, <1>15, <1>16, <1>17, <1>18
     DEF Query!Next, Query!Step

\* Exposure asks for single edges from the internet.
LEMMA ExposedIs ==
  ASSUME request \in Query!Requests, request.op = "exposure", NEW p, Found(request, sometime.links, p)
  PROVE  /\ Len(p) = 1 /\ p = <<p[1]>> /\ p[1] \in ReachableFrom
         /\ EndsOf(p) = <<Internet, QueryTarget[p[1]]>> /\ QueryTarget[p[1]] \in QueryNodes
<1>1. p \in Seq(QueryEdges) /\ Len(p) = 1 /\ p[1] \in request.along
  BY DEF Found, JoinsFor, Query!IsWalk
<1>2. request.along = ReachableFrom
  BY RequestIs
<1>3. p[1] \in ReachableFrom /\ QuerySource[p[1]] = Internet /\ QueryTarget[p[1]] \in QueryNodes
  BY <1>1, <1>2, QueryGraphIs, QueryingAssumption DEF Query!QueryAssumption, QueryGraph
<1> QED
  BY <1>1, <1>3 DEF EndsOf

\* An edge from the internet that exposure follows is a path that is found.
LEMMA OneEdgeFound ==
  ASSUME request \in Query!Requests, request.op = "exposure", NEW e \in ReachableFrom, e \in sometime.links
  PROVE  Found(request, sometime.links, <<e>>)
<1>1. request.along = ReachableFrom /\ request.min = "" /\ Query!MaxDepth \in Nat \ {0}
  BY RequestIs
<1>2. /\ e \in QueryEdges /\ QuerySource[e] = Internet /\ QueryTarget[e] # Internet
      /\ QueryConfidence[e] # "blocked"
  BY QueryingAssumption DEF Query!QueryAssumption
<1> DEFINE p == <<e>>
<1>3. p \in Seq(QueryEdges) /\ p # <<>> /\ Len(p) = 1 /\ p[1] = e
  BY <1>2
<1>4. Query!ConfidenceOK(e, request.min)
  BY <1>1, <1>2, Zenon DEF Query!ConfidenceOK
<1> HIDE DEF p
<1>5. EndsOf(p) = <<Internet, QueryTarget[e]>>
  BY <1>2, <1>3 DEF EndsOf
<1>6. Query!IsWalk(p, Internet, sometime.links \cap request.along, request.min)
  <2>1. \A i \in 1..Len(p) : i = 1
    BY <1>3
  <2>2. e \in sometime.links \cap request.along
    BY <1>1
  <2> QED
    BY <1>2, <1>3, <1>4, <2>1, <2>2 DEF Query!IsWalk
<1>7. Query!IsSimple(p, Internet) /\ Query!End(Internet, p) = QueryTarget[e]
  BY <1>2, <1>3 DEF Query!IsSimple, Query!End, Query!Targets
<1>8. JoinsFor(request, p, <<Internet, QueryTarget[e]>>, sometime.links)
  <2>1. Len(p) <= DepthOf(request)
    <3>1. Query!MaxDepth \in Nat \ {0}
      BY <1>1, Zenon
    <3> QED
      BY <1>3, <3>1, JoinsIs
  <2> QED
    BY <1>3, <1>6, <1>7, <2>1 DEF JoinsFor
<1>9. Found(request, sometime.links, p)
  BY <1>3, <1>5, <1>8 DEF Found
<1> QED
  BY <1>9 DEF p

\* What is found joins nodes that are asked about.
LEMMA FoundIsAsked ==
  ASSUME QueryPlaceInv, QueryRouteInv, NEW i \in 1..Len(raws)
  PROVE  Found(request, sometime.links, raws[i]) /\ EndsOf(raws[i]) \in Asks(request, sometime.nodes, source, target)
         /\ Leads(request, sometime.nodes, source, target, raws[i])
<1>1. /\ request \in Query!Requests /\ Found(request, sometime.links, raws[i])
      /\ Leads(request, sometime.nodes, source, target, raws[i])
      /\ Loops => EndsOf(raws[i]) = <<source, target>>
  BY DEF QueryPlaceInv, QueryRouteInv, Leads, Loops
<1>2. raws # <<>>
  BY DEF QueryRouteInv
<1>3. CASE request.op = "exposure"
  BY <1>1, <1>3, ExposedIs DEF Asks
<1>4. CASE request.op = "paths"
  BY <1>1, <1>4 DEF Leads
<1>5. CASE request.op = "who"
  BY <1>1, <1>2, <1>5 DEF Asks, QueryPlaceInv, Loops, Pending, InHand, Candidates
<1>6. CASE request.op = "what"
  BY <1>1, <1>2, <1>6 DEF Asks, QueryPlaceInv, Loops, Pending, InHand, Candidates
<1> QED
  BY <1>1, <1>3, <1>4, <1>5, <1>6, RequestIs

\* An answer explains the first of the paths found, with what was read at its ends.
Explains(a) ==
  /\ a \in AnswerType /\ a.path.steps = raws[1] /\ Scored(request.op, a)
  /\ answers' = Append(answers, a)

\* The read of the last node of a path explains that path and appends the answer (explainPath).
LEMMA ReadTargetIs ==
  ASSUME QueryHistoryInv, QueryPlaceInv, QueryRouteInv, Query!ReadTarget
  PROVE  raws # <<>> /\ request.op # "exposure" /\ \E a : Explains(a)
<1> DEFINE steps == Head(raws)
           path1 == [steps |-> steps, from |-> fromNode, to |-> Query!Reading(Query!End(source, steps)),
                     confidence |-> Query!WeakestConfidence(steps)]
           score == Query!ScorePath(path1)
           a == [path |-> path1, score |-> score, severity |-> Query!SeverityForScore(score)]
<1>1. raws # <<>> /\ request.op # "exposure"
  BY DEF Query!ReadTarget, QueryPlaceInv, Loops
<1>2. steps = raws[1] /\ 1 \in 1..Len(raws)
  BY <1>1, HeadTail DEF QueryRouteInv
<1>3. steps \in Seq(QueryEdges) /\ steps # <<>>
  BY <1>2 DEF QueryRouteInv, Found, JoinsFor
<1>4. answers' = Append(answers, a)
  BY DEF Query!ReadTarget
<1>5. path1.to \in QueryNodes \cup {None} /\ path1.from \in QueryNodes \cup {None}
  BY DEF Query!Reading, QueryHistoryInv, QueryRouteInv
<1> HIDE DEF steps
<1>6. path1.confidence \in Confidences
  <2>1. PICK i \in 1..Len(steps) : Query!WeakestConfidence(steps) = QueryConfidence[steps[i]]
    BY <1>3, WeakestIs
  <2>2. steps[i] \in QueryEdges
    BY <1>3, ElementOfSeq
  <2> QED
    BY <2>1, <2>2, QueryGraphIs DEF QueryGraph
<1>7. path1.steps = steps /\ path1.confidence = Query!WeakestConfidence(steps)
  OBVIOUS
<1>8. path1 \in [steps : Seq(QueryEdges), from : QueryNodes \cup {None}, to : QueryNodes \cup {None},
                 confidence : Confidences]
  BY <1>3, <1>5, <1>6
<1> HIDE DEF path1
<1>9. score \in Int
  <2>1. Len(path1.steps) \in Nat \ {0}
    BY <1>3, <1>7, EmptySeq, LenProperties
  <2>2. Points(path1) \in Int /\ Points(path1) <= 7500
    BY <2>1, PointsBounded
  <2>3. score = Weighed(path1.confidence, Points(path1))
    BY ScoreIs
  <2> HIDE DEF score
  <2> QED
    BY <1>6, <2>2, <2>3, WeighedIs
<1> HIDE DEF score
<1>10. Query!SeverityForScore(score) \in {"critical", "high", "medium", "low", "info"}
  BY <1>9 DEF Query!SeverityForScore
<1>11. a \in AnswerType
  BY <1>8, <1>9, <1>10 DEF AnswerType
<1>12. Scored(request.op, a)
  BY <1>1, <1>7 DEF Scored, score
<1> QED
  BY <1>1, <1>2, <1>4, <1>7, <1>11, <1>12 DEF Explains

\* The read of an exposed resource appends its answer, or fails and leaves it out.
LEMMA ReadExposedIs ==
  ASSUME QueryHistoryInv, QueryPlaceInv, QueryRouteInv, Query!ReadExposed
  PROVE  /\ raws # <<>> /\ request.op = "exposure"
         /\ answers' = answers \/ \E a : Explains(a)
<1> DEFINE steps == Head(raws)
           resource == QueryTarget[steps[1]]
           path1 == [steps |-> steps, from |-> Internet, to |-> resource, confidence |-> QueryConfidence[steps[1]]]
           a == [path |-> path1, score |-> 0, severity |-> "info"]
<1>1. raws # <<>> /\ request.op = "exposure" /\ request \in Query!Requests
  BY DEF Query!ReadExposed, QueryPlaceInv, Loops
<1>2. steps = raws[1] /\ 1 \in 1..Len(raws)
  BY <1>1, HeadTail DEF QueryRouteInv
<1>3. steps \in Seq(QueryEdges) /\ Found(request, sometime.links, steps)
  BY <1>2 DEF QueryRouteInv, Found, JoinsFor
<1>4. answers' = answers \/ (resource \in known /\ answers' = Append(answers, a))
  BY DEF Query!ReadExposed
<1> HIDE DEF steps
<1>5. steps[1] \in QueryEdges /\ resource \in QueryNodes
  <2>1. Len(steps) = 1
    BY <1>1, <1>3, ExposedIs
  <2>2. steps[1] \in QueryEdges
    <3>1. 1 \in 1..Len(steps)
      BY <2>1
    <3> QED
      BY <1>3, <3>1, ElementOfSeq
  <2> QED
    BY <1>1, <1>3, <2>2, ExposedIs
<1>6. QueryConfidence[steps[1]] \in Confidences /\ Internet \in QueryNodes
  BY <1>5, QueryGraphIs, QueryingAssumption DEF QueryGraph, Query!QueryAssumption
<1>7. a \in AnswerType
  BY <1>3, <1>5, <1>6 DEF AnswerType
<1>8. Scored(request.op, a)
  BY <1>1, <1>5 DEF Scored
<1> QED
  BY <1>1, <1>2, <1>4, <1>7, <1>8 DEF Explains

\* What was asked for is asked for still, and what was found is found.
LEMMA RouteKept ==
  ASSUME QueryRouteInv, request' = request, sometime.links \subseteq sometime.links',
         fromNode' \in QueryNodes \cup {None}, raws' = raws, answers' = answers \/ answers' = <<>>,
         raws # <<>> => source' = source /\ target' = target,
         request.op \in {"who", "what", "paths", "exposure"}, sometime.nodes \subseteq sometime'.nodes,
         answers # <<>> => Asks(request, sometime.nodes, source', target') = Asks(request, sometime.nodes, source, target)
  PROVE  QueryRouteInv'
<1> DEFINE seen == sometime.nodes
           more == sometime'.nodes
<1>1. seen \subseteq more
  OBVIOUS
<1> HIDE DEF seen, more
<1>2. /\ raws' \in Seq(Seq(QueryEdges)) /\ answers' \in Seq(AnswerType)
      /\ answers \in Seq(AnswerType) /\ raws \in Seq(Seq(QueryEdges))
  <2>1. answers \in Seq(AnswerType) /\ raws \in Seq(Seq(QueryEdges))
    BY DEF QueryRouteInv
  <2>2. <<>> \in Seq(AnswerType)
    OBVIOUS
  <2> QED
    BY <2>1, <2>2
<1>3. ASSUME NEW i \in 1..Len(raws)
      PROVE  /\ Found(request, sometime'.links, raws[i])
             /\ Leads(request, sometime'.nodes, source', target', raws[i])
  <2>1. source' = source /\ target' = target
    BY <1>2
  <2>2. Found(request, sometime.links, raws[i]) /\ Leads(request, sometime.nodes, source, target, raws[i])
    BY DEF QueryRouteInv
  <2>3. Found(request, sometime.links', raws[i])
    BY <2>2, FoundMore
  <2>4. Leads(request, sometime'.nodes, source, target, raws[i])
    <3>1. Leads(request, seen, source, target, raws[i])
      BY <2>2 DEF seen
    <3>2. Leads(request, more, source, target, raws[i])
      BY <1>1, <3>1, LeadsMore
    <3> QED
      BY <3>2 DEF more
  <2> QED
    BY <2>1, <2>3, <2>4
<1>4. ASSUME NEW i \in 1..Len(answers)
      PROVE  /\ Found(request, sometime'.links, StepsOf(i))
             /\ EndsOf(StepsOf(i)) \in Asks(request, sometime'.nodes, source', target')
  <2>1. answers # <<>>
    BY <1>2
  <2>2. Asks(request, sometime.nodes, source', target') \subseteq Asks(request, sometime'.nodes, source', target')
    <3>1. Asks(request, seen, source', target') \subseteq Asks(request, more, source', target')
      BY <1>1, AsksMore
    <3> QED
      BY <3>1 DEF seen, more
  <2>3. /\ Found(request, sometime.links, StepsOf(i))
        /\ EndsOf(StepsOf(i)) \in Asks(request, sometime.nodes, source, target)
    BY DEF QueryRouteInv
  <2>4. Found(request, sometime.links', StepsOf(i))
    BY <2>3, FoundMore
  <2> QED
    BY <2>1, <2>2, <2>3, <2>4
<1>5. \A i \in 1..Len(answers') : /\ Found(request, sometime'.links, answers'[i].path.steps)
                                  /\ EndsOf(answers'[i].path.steps) \in Asks(request, sometime'.nodes, source', target')
  <2>1. CASE answers' = answers
    BY <1>4, <2>1 DEF StepsOf
  <2>2. CASE answers' = <<>>
    BY <2>2
  <2> QED
    BY <2>1, <2>2
<1> QED
  BY <1>2, <1>3, <1>5 DEF QueryRouteInv, StepsOf

\* What a search ends with, and what is explained, was found.
LEMMA RouteIfFound ==
  ASSUME UNCHANGED <<request, source, target, sometime>>, fromNode' \in QueryNodes \cup {None},
         raws' \in Seq(Seq(QueryEdges)), answers' \in Seq(AnswerType),
         \A i \in 1..Len(raws') : /\ Found(request, sometime.links, raws'[i])
                                  /\ Leads(request, sometime.nodes, source, target, raws'[i]),
         \A i \in 1..Len(answers') : /\ Found(request, sometime.links, answers'[i].path.steps)
                                     /\ EndsOf(answers'[i].path.steps) \in Asks(request, sometime.nodes, source, target)
  PROVE  QueryRouteInv'
BY DEF QueryRouteInv, StepsOf

\* The first path is explained, and the others are left.
LEMMA RouteExplained ==
  ASSUME QueryPlaceInv, QueryRouteInv, raws # <<>>, raws' = Tail(raws), fromNode' \in QueryNodes \cup {None},
         UNCHANGED <<request, source, target, sometime>>,
         answers' = answers \/ \E a : Explains(a)
  PROVE  QueryRouteInv'
<1>1. raws \in Seq(Seq(QueryEdges)) /\ answers \in Seq(AnswerType) /\ Len(answers) \in Nat
  BY LenProperties DEF QueryRouteInv
<1>2. /\ raws' \in Seq(Seq(QueryEdges)) /\ 1 \in 1..Len(raws)
      /\ \A i \in 1..Len(raws') : \E j \in 1..Len(raws) : raws'[i] = raws[j]
  <2>1. /\ Tail(raws) \in Seq(Seq(QueryEdges)) /\ Len(Tail(raws)) = Len(raws) - 1 /\ Len(raws) \in Nat \ {0}
        /\ \A i \in 1..(Len(raws) - 1) : Tail(raws)[i] = raws[i + 1]
    BY <1>1, HeadTail
  <2> QED
    BY <2>1
<1>3. \A i \in 1..Len(raws') : /\ Found(request, sometime.links, raws'[i])
                               /\ Leads(request, sometime.nodes, source, target, raws'[i])
  BY <1>2, FoundIsAsked
<1>4. CASE answers' = answers
  <2>1. answers' \in Seq(AnswerType)
    BY <1>1, <1>4
  <2>2. \A i \in 1..Len(answers') : /\ Found(request, sometime.links, answers'[i].path.steps)
                                    /\ EndsOf(answers'[i].path.steps) \in Asks(request, sometime.nodes, source, target)
    BY <1>4 DEF QueryRouteInv, StepsOf
  <2> QED
    BY <1>2, <1>3, <2>1, <2>2, RouteIfFound
<1>5. ASSUME NEW a, Explains(a) PROVE QueryRouteInv'
  <2>1. a \in AnswerType /\ a.path.steps = raws[1] /\ answers' = Append(answers, a)
    BY <1>5 DEF Explains
  <2>2. /\ answers' \in Seq(AnswerType) /\ Len(answers') = Len(answers) + 1
        /\ \A i \in 1..Len(answers) : answers'[i] = answers[i]
        /\ answers'[Len(answers) + 1] = a
    BY <1>1, <2>1, AppendProperties
  <2>3. /\ Found(request, sometime.links, a.path.steps)
        /\ EndsOf(a.path.steps) \in Asks(request, sometime.nodes, source, target)
    BY <1>2, <2>1, FoundIsAsked
  <2>4. \A i \in 1..Len(answers) : /\ Found(request, sometime.links, answers[i].path.steps)
                                   /\ EndsOf(answers[i].path.steps) \in Asks(request, sometime.nodes, source, target)
    BY DEF QueryRouteInv, StepsOf
  <2>5. \A i \in 1..Len(answers') : i \in 1..Len(answers) \/ i = Len(answers) + 1
    BY <1>1, <2>2
  <2>6. \A i \in 1..Len(answers') : /\ Found(request, sometime.links, answers'[i].path.steps)
                                    /\ EndsOf(answers'[i].path.steps) \in Asks(request, sometime.nodes, source, target)
    BY <2>2, <2>3, <2>4, <2>5
  <2> QED
    BY <1>2, <1>3, <2>2, <2>6, RouteIfFound
<1> QED
  BY <1>4, <1>5

\* Each exposed edge that is stored is listed, once.
LEMMA ListExposureIs ==
  ASSUME QueryHistoryInv, QueryPlaceInv, Query!ListExposure
  PROVE  /\ request.op = "exposure" /\ raws' \in Seq(Seq(QueryEdges))
         /\ \A i \in 1..Len(raws') : \E e \in ReachableFrom : e \in links /\ raws'[i] = <<e>>
         /\ \A i, j \in 1..Len(raws') : raws'[i] = raws'[j] => i = j
         /\ \A e \in links \cap ReachableFrom : \E i \in 1..Len(raws') : raws'[i] = <<e>>
<1> DEFINE edges == links \cap request.along
           n == Query!Cardinality(edges)
<1>1. request.op = "exposure" /\ edges = links \cap ReachableFrom
  BY RequestIs, Zenon DEF Query!ListExposure, QueryPlaceInv
<1>2. ReachableFrom \subseteq QueryEdges /\ QueryEdges \subseteq Nat /\ Query!IsFiniteSet(QueryEdges)
  BY QueryingAssumption, QueryGraphIs DEF Query!QueryAssumption, QueryGraph
<1>3. IsFiniteSet(QueryEdges)
  BY <1>2 DEF Query!IsFiniteSet, IsFiniteSet
<1>4. edges \in SUBSET QueryEdges
  BY <1>1, <1>2
<1>5. IsFiniteSet(edges)
  BY <1>3, <1>4, FS_Subset
<1>6. n = Cardinality(edges)
  BY Zenon DEF Query!Cardinality, Cardinality
<1>7. n \in Nat
  BY <1>5, <1>6, FS_CardinalityType
<1>8. PICK rows \in [1..n -> edges] :
        /\ \A i, j \in DOMAIN rows : i < j => rows[i] < rows[j]
        /\ raws' = [i \in DOMAIN rows |-> <<rows[i]>>]
  BY DEF Query!ListExposure
<1> HIDE DEF n, edges
<1>9. DOMAIN rows = 1..n /\ \A i \in 1..n : rows[i] \in edges /\ rows[i] \in Nat
  BY <1>2, <1>4, <1>8
<1>10. \A i, j \in 1..n : rows[i] = rows[j] => i = j
  BY <1>7, <1>8, <1>9
<1>11. rows \in Injection(1..n, edges)
  BY <1>8, <1>10 DEF Injection, IsInjective
<1>12. rows \in Surjection(1..n, edges)
  <2>1. IsFiniteSet(1..n) /\ Cardinality(1..n) = n
    BY <1>7, FS_Interval
  <2> QED
    BY <1>5, <1>6, <1>11, <2>1, FS_Injection
<1>13. \A e \in edges : \E i \in 1..n : rows[i] = e
  BY <1>12 DEF Surjection
<1>14. raws' \in [1..n -> Seq(QueryEdges)] /\ \A i \in 1..n : raws'[i] = <<rows[i]>>
  BY <1>4, <1>8, <1>9
<1>15. raws' \in Seq(Seq(QueryEdges)) /\ Len(raws') = n
  BY <1>7, <1>14
<1>16. \A i, j \in 1..n : raws'[i] = raws'[j] => i = j
  <2>1. \A x, y : <<x>> = <<y>> => x = y
    OBVIOUS
  <2> QED
    BY <1>10, <1>14, <2>1
<1>17. \A i \in 1..n : \E e \in ReachableFrom : e \in links /\ raws'[i] = <<e>>
  <2>1. \A i \in 1..n : rows[i] \in ReachableFrom /\ rows[i] \in links
    BY <1>1, <1>9
  <2> QED
    BY <1>14, <2>1
<1>18. \A e \in links \cap ReachableFrom : \E i \in 1..n : raws'[i] = <<e>>
  <2> SUFFICES ASSUME NEW e \in links \cap ReachableFrom PROVE \E i \in 1..n : raws'[i] = <<e>>
    OBVIOUS
  <2>1. PICK i \in 1..n : rows[i] = e
    BY <1>1, <1>13
  <2> QED
    BY <1>14, <2>1
<1> QED
  BY <1>1, <1>15, <1>16, <1>17, <1>18

\* What AllPaths may end with was found, and ends at a target.
LEMMA AnsweringIs ==
  ASSUME QueryHistoryInv, request \in Query!Requests, request.op = "paths",
         NEW failed, NEW p \in Query!Answering(failed)
  PROVE  /\ p \in Seq(QueryEdges) /\ Found(request, sometime.links, p)
         /\ Leads(request, sometime.nodes, source, target, p)
<1> DEFINE n == QueryTarget[p[Len(p)]]
<1>1. /\ window.some \in SUBSET QueryEdges /\ window.some \subseteq sometime.links
      /\ window.met \subseteq sometime.nodes
  BY DEF QueryHistoryInv
<1>2. p \in Query!PathsAlong(window.some)
  BY DEF Query!Answering
<1>3. p \in Seq(QueryEdges) /\ Len(p) \in Nat \ {0} /\ JoinsFor(request, p, <<source, n>>, window.some)
  BY <1>1, <1>2, PathIs
<1>4. EndsOf(p) = <<source, n>>
  BY <1>3, JoinedEnds
<1>5. n \in QueryNodes
  BY <1>3, ElementOfSeq, QueryGraphIs DEF QueryGraph
<1>6. Query!MayStop(n)
  BY <1>3 DEF Query!Answering
<1>7. n = target \/ (WantedBy(request, n) /\ n \in sometime.nodes)
  BY <1>1, <1>6 DEF Query!MayStop, Query!Wanted, WantedBy
<1>8. Leads(request, sometime.nodes, source, target, p)
  BY <1>4, <1>5, <1>7 DEF Leads, Asks
<1> QED
  BY <1>1, <1>3, <1>4, <1>8, JoinsMore DEF Found

\* Only what was found is explained and answered, for the nodes asked about.
LEMMA RouteStep ==
  ASSUME QueryHistoryInv, QueryPlaceInv, QueryRouteInv, QueryOrderInv, [Query!Next]_Query!vars
  PROVE  QueryRouteInv'
<1>1. /\ request' = request /\ request \in Query!Requests
      /\ sometime.links \subseteq sometime.links' /\ window.some \subseteq sometime.links
      /\ sometime.links \subseteq QueryEdges /\ links \subseteq sometime.links
      /\ sometime.nodes \subseteq sometime'.nodes /\ window.met \subseteq sometime.nodes
      /\ request.op \in {"who", "what", "paths", "exposure"}
  BY HistoryStep, RequestIs DEF QueryPlaceInv, QueryHistoryInv
<1>2. fromNode \in QueryNodes \cup {None}
      /\ answers \in Seq(AnswerType) /\ raws \in Seq(Seq(QueryEdges))
  BY DEF QueryRouteInv
<1>3. CASE Query!Resolve
  <2>1. raws = <<>> /\ answers = <<>> /\ UNCHANGED <<raws, answers, fromNode>>
    BY <1>3 DEF Query!Resolve, QueryPlaceInv
  <2> QED
    BY <1>1, <1>2, <2>1, RouteKept
<1>4. CASE Query!ResolveTarget
  <2>1. raws = <<>> /\ answers = <<>> /\ UNCHANGED <<raws, answers, fromNode>>
    BY <1>4 DEF Query!ResolveTarget, QueryPlaceInv
  <2> QED
    BY <1>1, <1>2, <2>1, RouteKept
<1>5. CASE Query!NotFound
  <2>1. UNCHANGED <<raws, answers, fromNode, source, target>>
    BY <1>5 DEF Query!NotFound
  <2> QED
    BY <1>1, <1>2, <2>1, RouteKept
<1>6. CASE Query!ListNodes
  <2>1. UNCHANGED <<raws, answers, fromNode, source, target>>
    BY <1>6 DEF Query!ListNodes
  <2> QED
    BY <1>1, <1>2, <2>1, RouteKept
<1>7. ASSUME NEW n \in QueryNodes, Query!StartSearch(n) PROVE QueryRouteInv'
  <2>1. raws = <<>> /\ UNCHANGED <<raws, answers, fromNode>> /\ Loops
    BY <1>1, <1>7, RequestIs DEF Query!StartSearch, QueryPlaceInv, Loops
  <2>2. (request.op = "who" => target' = target) /\ (request.op = "what" => source' = source)
    BY <1>7 DEF Query!StartSearch
  <2>3. Asks(request, sometime.nodes, source', target') = Asks(request, sometime.nodes, source, target)
    BY <2>1, <2>2 DEF Asks, Loops
  <2> QED
    BY <1>1, <1>2, <2>1, <2>3, RouteKept
<1>8. CASE Query!EndSearch
  <2>1. /\ UNCHANGED <<request, source, target, sometime, answers, fromNode>> /\ request.op \in {"who", "what"}
        /\ raws' = <<>> \/ \E p \in Query!RoutesAlong(window.some) : raws' = <<p>>
    BY <1>8 DEF Query!EndSearch, Query!history
  <2>2. ASSUME NEW p \in Query!RoutesAlong(window.some)
        PROVE  /\ p \in Seq(QueryEdges) /\ Found(request, sometime.links, p)
               /\ EndsOf(p) = <<source, target>>
    <3>1. p \in Seq(QueryEdges) /\ JoinsFor(request, p, <<source, target>>, window.some)
      BY <1>1, <2>1, RouteIs
    <3>2. EndsOf(p) = <<source, target>>
      BY <3>1, JoinedEnds
    <3> QED
      BY <1>1, <3>1, <3>2, JoinsMore DEF Found
  <2>3. /\ raws' \in Seq(Seq(QueryEdges))
        /\ \A i \in 1..Len(raws') : /\ Found(request, sometime.links, raws'[i])
                                    /\ Leads(request, sometime.nodes, source, target, raws'[i])
    <3>1. CASE raws' = <<>>
      BY <3>1
    <3>2. ASSUME NEW p \in Query!RoutesAlong(window.some), raws' = <<p>>
          PROVE  /\ raws' \in Seq(Seq(QueryEdges))
                 /\ \A i \in 1..Len(raws') : raws'[i] = p
      BY <2>2, <3>2
    <3>3. \A p \in Query!RoutesAlong(window.some) : Leads(request, sometime.nodes, source, target, p)
      BY <2>1, <2>2 DEF Leads
    <3> QED
      BY <2>1, <2>2, <3>1, <3>2, <3>3
  <2>4. answers' \in Seq(AnswerType)
        /\ \A i \in 1..Len(answers') : /\ Found(request, sometime.links, answers'[i].path.steps)
                                       /\ EndsOf(answers'[i].path.steps) \in Asks(request, sometime.nodes, source, target)
    BY <1>2, <2>1 DEF QueryRouteInv, StepsOf
  <2> QED
    BY <1>2, <2>1, <2>3, <2>4, RouteIfFound
<1>9. CASE Query!EndEnumeration
  <2>1. UNCHANGED <<request, source, target, sometime, answers, fromNode>> /\ request.op = "paths"
    BY <1>9 DEF Query!EndEnumeration, Query!history
  <2>2. PICK failed : \E n \in 0..Query!Limit : raws' \in [1..n -> Query!Answering(failed)]
    BY <1>9 DEF Query!EndEnumeration
  <2>3. PICK n \in 0..Query!Limit : raws' \in [1..n -> Query!Answering(failed)]
    BY <2>2
  <2>4. n \in Nat
    <3>1. Query!Limit \in Nat
      BY <1>1, RequestIs, Zenon
    <3> QED
      BY <2>3, <3>1
  <2>5. \A i \in 1..n : /\ raws'[i] \in Seq(QueryEdges) /\ Found(request, sometime.links, raws'[i])
                       /\ Leads(request, sometime.nodes, source, target, raws'[i])
    BY <1>1, <2>1, <2>3, AnsweringIs
  <2>6. raws' \in Seq(Seq(QueryEdges)) /\ Len(raws') = n
    BY <2>3, <2>4, <2>5
  <2>7. \A i \in 1..Len(raws') : /\ Found(request, sometime.links, raws'[i])
                                 /\ Leads(request, sometime.nodes, source, target, raws'[i])
    BY <2>5, <2>6
  <2>8. answers' \in Seq(AnswerType)
        /\ \A i \in 1..Len(answers') : /\ Found(request, sometime.links, answers'[i].path.steps)
                                       /\ EndsOf(answers'[i].path.steps) \in Asks(request, sometime.nodes, source, target)
    BY <1>2, <2>1 DEF QueryRouteInv, StepsOf
  <2> QED
    BY <1>2, <2>1, <2>6, <2>7, <2>8, RouteIfFound
<1>10. CASE Query!ReadSource
  <2>1. UNCHANGED <<raws, answers, source, target>> /\ fromNode' \in QueryNodes \cup {None}
    BY <1>10 DEF Query!ReadSource, Query!Reading, QueryHistoryInv
  <2> QED
    BY <1>1, <2>1, RouteKept
<1>11. CASE Query!ReadTarget
  <2>1. raws' = Tail(raws) /\ fromNode' = None /\ UNCHANGED <<request, source, target, sometime>>
    BY <1>11 DEF Query!ReadTarget, Query!history
  <2> QED
    BY <1>11, <2>1, ReadTargetIs, RouteExplained
<1>12. CASE Query!NextNode
  <2>1. UNCHANGED <<raws, answers, fromNode, source, target>>
    BY <1>12 DEF Query!NextNode
  <2> QED
    BY <1>1, <1>2, <2>1, RouteKept
<1>13. CASE Query!Sort
  <2>1. UNCHANGED <<request, source, target, sometime, raws, fromNode>>
    BY <1>13 DEF Query!Sort, Query!history
  <2>2. PICK f \in [1..Len(answers) -> 1..Len(answers)] :
          /\ answers' \in Seq(AnswerType) /\ Len(answers') = Len(answers)
          /\ \A k \in 1..Len(answers) : answers'[k] = answers[f[k]]
    BY <1>13, SortPermutes
  <2>3. \A i \in 1..Len(answers) : /\ Found(request, sometime.links, answers[i].path.steps)
                                   /\ EndsOf(answers[i].path.steps) \in Asks(request, sometime.nodes, source, target)
    BY DEF QueryRouteInv, StepsOf
  <2>4. \A i \in 1..Len(answers') : /\ Found(request, sometime.links, answers'[i].path.steps)
                                    /\ EndsOf(answers'[i].path.steps) \in Asks(request, sometime.nodes, source, target)
    BY <2>2, <2>3
  <2>5. \A i \in 1..Len(raws') : /\ Found(request, sometime.links, raws'[i])
                                 /\ Leads(request, sometime.nodes, source, target, raws'[i])
    BY <2>1 DEF QueryRouteInv
  <2> QED
    BY <1>2, <2>1, <2>2, <2>4, <2>5, RouteIfFound
<1>14. CASE Query!ListExposure
  <2>1. UNCHANGED <<request, source, target, sometime, answers, fromNode>>
    BY <1>14 DEF Query!ListExposure, Query!history
  <2>2. /\ request.op = "exposure" /\ raws' \in Seq(Seq(QueryEdges))
        /\ \A i \in 1..Len(raws') : \E e \in ReachableFrom : e \in links /\ raws'[i] = <<e>>
    BY <1>14, ListExposureIs
  <2>3. \A i \in 1..Len(raws') : /\ Found(request, sometime.links, raws'[i])
                                 /\ Leads(request, sometime.nodes, source, target, raws'[i])
    BY <1>1, <2>2, OneEdgeFound DEF Leads
  <2>4. answers' \in Seq(AnswerType)
        /\ \A i \in 1..Len(answers') : /\ Found(request, sometime.links, answers'[i].path.steps)
                                       /\ EndsOf(answers'[i].path.steps) \in Asks(request, sometime.nodes, source, target)
    BY <1>2, <2>1 DEF QueryRouteInv, StepsOf
  <2> QED
    BY <1>2, <2>1, <2>2, <2>3, <2>4, RouteIfFound
<1>15. CASE Query!ReadExposed
  <2>1. raws' = Tail(raws) /\ UNCHANGED <<request, source, target, sometime, fromNode>>
    BY <1>15 DEF Query!ReadExposed, Query!history
  <2> QED
    BY <1>2, <1>15, <2>1, ReadExposedIs, RouteExplained
<1>16. CASE Query!Fail
  <2>1. UNCHANGED <<raws, fromNode, source, target>> /\ answers' = <<>>
    BY <1>16 DEF Query!Fail
  <2> QED
    BY <1>1, <1>2, <2>1, RouteKept
<1>17. CASE Query!GraphChanges
  <2>1. UNCHANGED <<raws, answers, fromNode, source, target>>
    BY <1>17 DEF Query!GraphChanges
  <2> QED
    BY <1>1, <1>2, <2>1, RouteKept
<1>18. CASE UNCHANGED Query!vars
  <2>1. UNCHANGED <<raws, answers, fromNode, source, target>>
    BY <1>18 DEF Query!vars
  <2> QED
    BY <1>1, <1>2, <2>1, RouteKept
<1> QED
  BY <1>3, <1>4, <1>5, <1>6, <1>7, <1>8, <1>9, <1>10, <1>11, <1>12, <1>13, <1>14, <1>15, <1>16, <1>17, <1>18
     DEF Query!Next, Query!Step

\* Every answer was either there, or is the explanation of the first path.
LEMMA ExplainedIs ==
  ASSUME QueryRouteInv, raws # <<>>, raws' = Tail(raws), answers' = answers \/ \E a : Explains(a)
  PROVE  /\ Len(raws) \in Nat \ {0} /\ Len(raws') = Len(raws) - 1 /\ Len(answers) \in Nat
         /\ \A i \in 1..(Len(raws) - 1) : raws'[i] = raws[i + 1]
         /\ \A i \in 1..Len(answers) : answers'[i] = answers[i]
         /\ \/ Len(answers') = Len(answers)
            \/ Len(answers') = Len(answers) + 1 /\ answers'[Len(answers')].path.steps = raws[1]
<1>1. raws \in Seq(Seq(QueryEdges)) /\ answers \in Seq(AnswerType) /\ Len(answers) \in Nat
  BY LenProperties DEF QueryRouteInv
<1>2. /\ Len(raws) \in Nat \ {0} /\ Len(raws') = Len(raws) - 1
      /\ \A i \in 1..(Len(raws) - 1) : raws'[i] = raws[i + 1]
  BY <1>1, HeadTail
<1>3. ASSUME NEW a, Explains(a)
      PROVE  /\ \A i \in 1..Len(answers) : answers'[i] = answers[i]
             /\ Len(answers') = Len(answers) + 1 /\ answers'[Len(answers')].path.steps = raws[1]
  BY <1>1, <1>3, AppendProperties DEF Explains
<1> QED
  BY <1>1, <1>2, <1>3

\* The pair made of a node is that of no other.
LEMMA PairsDiffer == \A m, n : PairOf(m) = PairOf(n) => m = n
BY DEF PairOf

\* The pair in hand is that of the node in hand.
LEMMA InHandIs == Loops => PairOf(InHand) = <<source, target>>
BY DEF Loops, PairOf, InHand

\* Of a loop, what is found in a search was not answered before.
LEMMA NewInLoop ==
  ASSUME QueryRouteInv, QueryLoopInv, Loops, Pending, NEW i \in 1..Len(answers)
  PROVE  EndsOf(StepsOf(i)) # <<source, target>>
BY PairsDiffer, InHandIs DEF QueryLoopInv

\* No path comes twice.
LEMMA OnceStep ==
  ASSUME QueryHistoryInv, QueryPlaceInv, QueryRouteInv, QueryOnceInv, QueryLoopInv, QueryOrderInv,
         [Query!Next]_Query!vars
  PROVE  QueryOnceInv'
<1>1. /\ request' = request /\ request \in Query!Requests
      /\ window.some \subseteq sometime.links /\ sometime.links \subseteq QueryEdges
  BY HistoryStep DEF QueryPlaceInv, QueryHistoryInv
<1>2. Len(raws) \in Nat /\ Len(answers) \in Nat
  BY LenProperties DEF QueryRouteInv
<1>3. ASSUME raws' = raws, answers' = answers \/ answers' = <<>> PROVE QueryOnceInv'
  <2>1. CASE answers' = answers
    BY <1>3, <2>1 DEF QueryOnceInv, StepsOf
  <2>2. CASE answers' = <<>>
    BY <1>3, <2>2 DEF QueryOnceInv, StepsOf
  <2> QED
    BY <1>3, <2>1, <2>2
<1>4. ASSUME answers = <<>>, answers' = answers, \A i, j \in 1..Len(raws') : raws'[i] = raws'[j] => i = j
      PROVE  QueryOnceInv'
  BY <1>4 DEF QueryOnceInv, StepsOf
<1>5. ASSUME raws # <<>>, raws' = Tail(raws), answers' = answers \/ \E a : Explains(a)
      PROVE  QueryOnceInv'
  <2>1. /\ Len(raws) \in Nat \ {0} /\ Len(raws') = Len(raws) - 1 /\ Len(answers) \in Nat
        /\ \A i \in 1..(Len(raws) - 1) : raws'[i] = raws[i + 1]
        /\ \A i \in 1..Len(answers) : answers'[i] = answers[i]
        /\ \/ Len(answers') = Len(answers)
           \/ Len(answers') = Len(answers) + 1 /\ answers'[Len(answers')].path.steps = raws[1]
    BY <1>5, ExplainedIs
  <2>2. \A i, j \in 1..Len(raws') : raws'[i] = raws'[j] => i = j
    <3> SUFFICES ASSUME NEW i \in 1..Len(raws'), NEW j \in 1..Len(raws'), raws'[i] = raws'[j] PROVE i = j
      OBVIOUS
    <3>1. i + 1 \in 1..Len(raws) /\ j + 1 \in 1..Len(raws) /\ raws[i + 1] = raws[j + 1]
      BY <2>1
    <3>2. i + 1 = j + 1
      BY <3>1 DEF QueryOnceInv
    <3> QED
      BY <2>1, <3>2
  <2>3. \A i \in 1..Len(raws') : i + 1 \in 1..Len(raws) /\ i + 1 # 1 /\ raws'[i] = raws[i + 1]
    BY <2>1
  <2>4. \A i \in 1..Len(answers') :
          (i \in 1..Len(answers) /\ answers'[i].path.steps = StepsOf(i))
          \/ (i = Len(answers) + 1 /\ answers'[i].path.steps = raws[1])
    BY <2>1 DEF StepsOf
  <2>5. 1 \in 1..Len(raws)
    BY <2>1
  <2>6. \A i \in 1..Len(answers') : \A j \in 1..Len(raws') : answers'[i].path.steps # raws'[j]
    <3> SUFFICES ASSUME NEW i \in 1..Len(answers'), NEW j \in 1..Len(raws'),
                        answers'[i].path.steps = raws'[j]
                 PROVE  FALSE
      OBVIOUS
    <3>1. j + 1 \in 1..Len(raws) /\ j + 1 # 1 /\ answers'[i].path.steps = raws[j + 1]
      BY <2>3
    <3>2. CASE i \in 1..Len(answers) /\ answers'[i].path.steps = StepsOf(i)
      BY <3>1, <3>2 DEF QueryOnceInv
    <3>3. CASE answers'[i].path.steps = raws[1]
      BY <2>5, <3>1, <3>3 DEF QueryOnceInv
    <3> QED
      BY <2>4, <3>2, <3>3
  <2>7. \A i, j \in 1..Len(answers') : answers'[i].path.steps = answers'[j].path.steps => i = j
    BY <2>4, <2>5 DEF QueryOnceInv
  <2> QED
    BY <2>2, <2>6, <2>7 DEF QueryOnceInv, StepsOf
<1>6. CASE Query!Resolve
  BY <1>3, <1>6 DEF Query!Resolve
<1>7. CASE Query!ResolveTarget
  BY <1>3, <1>7 DEF Query!ResolveTarget
<1>8. CASE Query!NotFound
  BY <1>3, <1>8 DEF Query!NotFound
<1>9. CASE Query!ListNodes
  BY <1>3, <1>9 DEF Query!ListNodes
<1>10. ASSUME NEW n \in QueryNodes, Query!StartSearch(n) PROVE QueryOnceInv'
  BY <1>3, <1>10 DEF Query!StartSearch
<1>11. CASE Query!EndSearch
  <2>1. /\ answers' = answers /\ request.op # "exposure" /\ Loops /\ Pending
        /\ raws' = <<>> \/ \E p \in Query!RoutesAlong(window.some) : raws' = <<p>>
    BY <1>11 DEF Query!EndSearch, Loops, Pending
  <2>2. CASE raws' = <<>>
    BY <2>1, <2>2 DEF QueryOnceInv, StepsOf
  <2>3. ASSUME NEW p \in Query!RoutesAlong(window.some), raws' = <<p>> PROVE QueryOnceInv'
    <3>1. p \in Seq(QueryEdges) /\ JoinsFor(request, p, <<source, target>>, window.some)
      BY <1>1, <2>1, RouteIs
    <3>2. EndsOf(p) = <<source, target>>
      BY <3>1, JoinedEnds
    <3>3. \A i \in 1..Len(answers) : StepsOf(i) # p
      BY <2>1, <3>2, NewInLoop
    <3>4. Len(raws') = 1 /\ raws'[1] = p
      BY <2>3
    <3>5. \A i \in 1..Len(raws') : i = 1
      BY <3>4
    <3> QED
      BY <2>1, <3>3, <3>4, <3>5 DEF QueryOnceInv, StepsOf
  <2> QED
    BY <2>1, <2>2, <2>3
<1>12. CASE Query!EndEnumeration
  <2>1. answers = <<>> /\ answers' = answers /\ request.op = "paths"
    BY <1>12 DEF Query!EndEnumeration, QueryPlaceInv
  <2>2. PICK failed : \E n \in 0..Query!Limit :
          /\ raws' \in [1..n -> Query!Answering(failed)]
          /\ \A i, j \in 1..n : i < j => Query!Precedes(raws'[i], raws'[j])
    BY <1>12 DEF Query!EndEnumeration
  <2>3. PICK n \in 0..Query!Limit :
          /\ raws' \in [1..n -> Query!Answering(failed)]
          /\ \A i, j \in 1..n : i < j => Query!Precedes(raws'[i], raws'[j])
    BY <2>2
  <2>4. n \in Nat
    <3>1. Query!Limit \in Nat
      BY <1>1, RequestIs, Zenon
    <3> QED
      BY <2>3, <3>1
  <2>5. \A p \in Query!Answering(failed) : p \in Seq(QueryEdges)
    BY <1>1, <2>1, AnsweringIs
  <2>6. \A p \in Seq(QueryEdges) : ~ Query!Precedes(p, p)
    <3> SUFFICES ASSUME NEW p \in Seq(QueryEdges), Query!Precedes(p, p) PROVE FALSE
      OBVIOUS
    <3>1. PICK i \in 1..Len(p) : p[i] < p[i]
      BY DEF Query!Precedes
    <3>2. p[i] \in Nat
      BY ElementOfSeq, QueryGraphIs DEF QueryGraph
    <3> QED
      BY <3>1, <3>2
  <2>7. Len(raws') = n
    BY <2>3, <2>4
  <2>8. \A i, j \in 1..n : raws'[i] = raws'[j] => i = j
    <3> SUFFICES ASSUME NEW i \in 1..n, NEW j \in 1..n, raws'[i] = raws'[j], i # j PROVE FALSE
      OBVIOUS
    <3>1. raws'[i] \in Seq(QueryEdges)
      BY <2>3, <2>5
    <3>2. i < j \/ j < i
      BY <2>4
    <3> QED
      BY <2>3, <2>6, <3>1, <3>2
  <2> QED
    BY <1>4, <2>1, <2>7, <2>8
<1>13. CASE Query!ReadSource
  BY <1>3, <1>13 DEF Query!ReadSource
<1>14. CASE Query!ReadTarget
  <2>1. raws' = Tail(raws)
    BY <1>14 DEF Query!ReadTarget
  <2> QED
    BY <1>5, <1>14, <2>1, ReadTargetIs
<1>15. CASE Query!NextNode
  BY <1>3, <1>15 DEF Query!NextNode
<1>16. CASE Query!Sort
  <2>1. raws' = raws /\ raws = <<>>
    BY <1>16 DEF Query!Sort
  <2>2. PICK f \in [1..Len(answers) -> 1..Len(answers)] :
          /\ Len(answers') = Len(answers)
          /\ \A k \in 1..Len(answers) : answers'[k] = answers[f[k]]
          /\ \A k, l \in 1..Len(answers) : f[k] = f[l] => k = l
    BY <1>16, SortPermutes
  <2>3. \A i, j \in 1..Len(answers') : answers'[i].path.steps = answers'[j].path.steps => i = j
    <3>1. \A k, l \in 1..Len(answers) : answers[k].path.steps = answers[l].path.steps => k = l
      BY DEF QueryOnceInv, StepsOf
    <3>2. ASSUME NEW i \in 1..Len(answers), NEW j \in 1..Len(answers),
                 answers'[i].path.steps = answers'[j].path.steps
          PROVE  i = j
      <4>1. f[i] \in 1..Len(answers) /\ f[j] \in 1..Len(answers)
        BY <2>2
      <4>2. answers[f[i]].path.steps = answers[f[j]].path.steps
        BY <2>2, <3>2
      <4>3. f[i] = f[j]
        BY <3>1, <4>1, <4>2
      <4> QED
        BY <2>2, <4>3
    <3> QED
      BY <2>2, <3>2
  <2> QED
    BY <2>1, <2>3 DEF QueryOnceInv, StepsOf
<1>17. CASE Query!ListExposure
  <2>1. answers = <<>> /\ answers' = answers
    BY <1>17 DEF Query!ListExposure, QueryPlaceInv
  <2> QED
    BY <1>4, <1>17, <2>1, ListExposureIs
<1>18. CASE Query!ReadExposed
  <2>1. raws' = Tail(raws)
    BY <1>18 DEF Query!ReadExposed
  <2> QED
    BY <1>5, <1>18, <2>1, ReadExposedIs
<1>19. CASE Query!Fail
  BY <1>3, <1>19 DEF Query!Fail
<1>20. CASE Query!GraphChanges
  BY <1>3, <1>20 DEF Query!GraphChanges
<1>21. CASE UNCHANGED Query!vars
  BY <1>3, <1>21 DEF Query!vars
<1> QED
  BY <1>6, <1>7, <1>8, <1>9, <1>10, <1>11, <1>12, <1>13, <1>14, <1>15, <1>16, <1>17, <1>18, <1>19, <1>20, <1>21
     DEF Query!Next, Query!Step

\* No node of a loop comes twice.
LEMMA LoopStep ==
  ASSUME QueryHistoryInv, QueryPlaceInv, QueryRouteInv, QueryLoopInv, QueryOrderInv, [Query!Next]_Query!vars
  PROVE  QueryLoopInv'
<1>1. /\ request' = request /\ request \in Query!Requests
      /\ request.op \in {"who", "what", "paths", "exposure"}
  BY HistoryStep, RequestIs DEF QueryPlaceInv
<1>2. Len(answers) \in Nat
  BY LenProperties DEF QueryRouteInv
<1> SUFFICES ASSUME Loops PROVE QueryLoopInv'
  BY <1>1 DEF QueryLoopInv, Loops
<1>3. Loops'
  BY <1>1 DEF Loops
<1>4. ASSUME answers' = <<>> PROVE QueryLoopInv'
  BY <1>4 DEF QueryLoopInv, StepsOf
<1>5. ASSUME answers' = answers, request.op = "who" => target' = target, request.op = "what" => source' = source,
             todo' \subseteq todo, Pending' => (Pending /\ InHand' = InHand) \/ InHand' \in todo
      PROVE  QueryLoopInv'
  <2>1. Candidates' = Candidates /\ \A n : PairOf(n)' = PairOf(n)
    BY <1>1, <1>5 DEF Candidates, PairOf, Loops
  <2>2. ASSUME NEW i \in 1..Len(answers)
        PROVE  \E n \in Candidates \ todo' : EndsOf(StepsOf(i)) = PairOf(n) /\ (Pending' => n # InHand')
    <3>1. PICK n \in Candidates \ todo : EndsOf(StepsOf(i)) = PairOf(n) /\ (Pending => n # InHand)
      BY DEF QueryLoopInv
    <3> QED
      BY <1>5, <3>1
  <2>3. \A i \in 1..Len(answers') : \E n \in Candidates' \ todo' :
          EndsOf(answers'[i].path.steps) = PairOf(n)' /\ (Pending' => n # InHand')
    BY <1>5, <2>1, <2>2 DEF StepsOf
  <2>4. \A i, j \in 1..Len(answers') :
          EndsOf(answers'[i].path.steps) = EndsOf(answers'[j].path.steps) => i = j
    BY <1>5 DEF QueryLoopInv, StepsOf
  <2> QED
    BY <2>3, <2>4 DEF QueryLoopInv, StepsOf
<1>6. CASE Query!Resolve
  BY <1>4, <1>6 DEF Query!Resolve, QueryPlaceInv
<1>7. CASE Query!ResolveTarget
  BY <1>4, <1>7 DEF Query!ResolveTarget, QueryPlaceInv, Loops
<1>8. CASE Query!NotFound
  BY <1>5, <1>8 DEF Query!NotFound, QueryPlaceInv, Pending
<1>9. CASE Query!ListNodes
  BY <1>4, <1>9 DEF Query!ListNodes, QueryPlaceInv
<1>10. ASSUME NEW n \in QueryNodes, Query!StartSearch(n) PROVE QueryLoopInv'
  BY <1>1, <1>5, <1>10 DEF Query!StartSearch, Query!IsFirst, InHand, Loops
<1>11. CASE Query!EndSearch
  BY <1>1, <1>5, <1>11 DEF Query!EndSearch, Pending, InHand
<1>12. CASE Query!EndEnumeration
  BY <1>12 DEF Query!EndEnumeration, Loops
<1>13. CASE Query!ReadSource
  BY <1>1, <1>5, <1>13 DEF Query!ReadSource, Pending, InHand
<1>14. CASE Query!ReadTarget
  <2>1. /\ UNCHANGED <<source, target, todo>> /\ raws' = Tail(raws) /\ queryPc' = "build"
        /\ raws # <<>> /\ \E a : Explains(a)
    BY <1>14, ReadTargetIs DEF Query!ReadTarget
  <2>2. raws' = <<>>
    BY <2>1, HeadTail DEF QueryPlaceInv, QueryRouteInv
  <2>3. ~ Pending' /\ Pending
    BY <2>1, <2>2 DEF Pending
  <2>4. Candidates' = Candidates /\ \A n : PairOf(n)' = PairOf(n)
    BY <1>1, <2>1 DEF Candidates, PairOf
  <2>5. InHand \in Candidates \ todo /\ PairOf(InHand) = <<source, target>>
    BY <2>3, InHandIs DEF QueryPlaceInv
  <2>6. raws[1] \in Seq(QueryEdges) /\ EndsOf(raws[1]) = <<source, target>>
    <3>1. 1 \in 1..Len(raws)
      BY <2>1, HeadTail DEF QueryRouteInv
    <3> QED
      BY <3>1 DEF QueryRouteInv, Leads, Loops
  <2>7. /\ \A i \in 1..Len(answers) : answers'[i] = answers[i]
        /\ \/ Len(answers') = Len(answers)
           \/ Len(answers') = Len(answers) + 1 /\ answers'[Len(answers')].path.steps = raws[1]
    BY <2>1, ExplainedIs
  <2>8. \A i \in 1..Len(answers') :
          (i \in 1..Len(answers) /\ answers'[i].path.steps = StepsOf(i))
          \/ (i = Len(answers) + 1 /\ answers'[i].path.steps = raws[1])
    BY <1>2, <2>7 DEF StepsOf
  <2>9. \A i \in 1..Len(answers') : \E n \in Candidates' \ todo' :
          EndsOf(answers'[i].path.steps) = PairOf(n)' /\ (Pending' => n # InHand')
    <3> SUFFICES ASSUME NEW i \in 1..Len(answers')
                 PROVE  \E n \in Candidates \ todo : EndsOf(answers'[i].path.steps) = PairOf(n)
      BY <2>1, <2>3, <2>4
    <3> QED
      BY <2>5, <2>6, <2>8 DEF QueryLoopInv
  <2>10. \A i, j \in 1..Len(answers') :
          EndsOf(answers'[i].path.steps) = EndsOf(answers'[j].path.steps) => i = j
    <3>1. \A i \in 1..Len(answers) : EndsOf(StepsOf(i)) # EndsOf(raws[1])
      BY <2>3, <2>6, NewInLoop
    <3> QED
      BY <2>8, <3>1 DEF QueryLoopInv
  <2> QED
    BY <2>9, <2>10 DEF QueryLoopInv, StepsOf
<1>15. CASE Query!NextNode
  BY <1>1, <1>5, <1>15 DEF Query!NextNode, Pending
<1>16. CASE Query!Sort
  <2>1. UNCHANGED <<source, target, todo, raws>> /\ raws = <<>> /\ queryPc' = "done"
    BY <1>16 DEF Query!Sort
  <2>2. PICK f \in [1..Len(answers) -> 1..Len(answers)] :
          /\ Len(answers') = Len(answers)
          /\ \A k \in 1..Len(answers) : answers'[k] = answers[f[k]]
          /\ \A k, l \in 1..Len(answers) : f[k] = f[l] => k = l
    BY <1>16, SortPermutes
  <2>3. ~ Pending'
    BY <2>1 DEF Pending
  <2>4. Candidates' = Candidates /\ \A n : PairOf(n)' = PairOf(n)
    BY <1>1, <2>1 DEF Candidates, PairOf
  <2>5. \A i \in 1..Len(answers') : answers'[i].path.steps = StepsOf(f[i]) /\ f[i] \in 1..Len(answers)
    BY <2>2 DEF StepsOf
  <2>6. \A i \in 1..Len(answers') : \E n \in Candidates' \ todo' :
          EndsOf(answers'[i].path.steps) = PairOf(n)' /\ (Pending' => n # InHand')
    <3> SUFFICES ASSUME NEW i \in 1..Len(answers')
                 PROVE  \E n \in Candidates \ todo : EndsOf(answers'[i].path.steps) = PairOf(n)
      BY <2>1, <2>3, <2>4
    <3> QED
      BY <2>5 DEF QueryLoopInv
  <2>7. \A i, j \in 1..Len(answers') :
          EndsOf(answers'[i].path.steps) = EndsOf(answers'[j].path.steps) => i = j
    <3> SUFFICES ASSUME NEW i \in 1..Len(answers'), NEW j \in 1..Len(answers'),
                        EndsOf(StepsOf(f[i])) = EndsOf(StepsOf(f[j]))
                 PROVE  i = j
      BY <2>5
    <3>1. f[i] = f[j]
      BY <2>5 DEF QueryLoopInv
    <3> QED
      BY <2>2, <3>1
  <2> QED
    BY <2>6, <2>7 DEF QueryLoopInv, StepsOf
<1>17. CASE Query!ListExposure
  BY <1>17 DEF Query!ListExposure, Loops
<1>18. CASE Query!ReadExposed
  BY <1>18, ReadExposedIs DEF Loops
<1>19. CASE Query!Fail
  BY <1>4, <1>19 DEF Query!Fail
<1>20. CASE Query!GraphChanges
  BY <1>5, <1>20 DEF Query!GraphChanges, Pending, InHand
<1>21. CASE UNCHANGED Query!vars
  BY <1>5, <1>21 DEF Query!vars, Pending, InHand
<1> QED
  BY <1>6, <1>7, <1>8, <1>9, <1>10, <1>11, <1>12, <1>13, <1>14, <1>15, <1>16, <1>17, <1>18, <1>19, <1>20, <1>21
     DEF Query!Next, Query!Step

\* No answer is lost on the way.
LEMMA AnswersStay ==
  ASSUME QueryHistoryInv, QueryPlaceInv, QueryRouteInv, QueryOrderInv, [Query!Next]_Query!vars, queryPc' # "error"
  PROVE  \A i \in 1..Len(answers) : \E k \in 1..Len(answers') : answers'[k].path.steps = StepsOf(i)
<1>1. ASSUME answers' = answers
      PROVE  \A i \in 1..Len(answers) : \E k \in 1..Len(answers') : answers'[k].path.steps = StepsOf(i)
  BY <1>1 DEF StepsOf
<1>2. ASSUME raws # <<>>, raws' = Tail(raws), answers' = answers \/ \E a : Explains(a)
      PROVE  \A i \in 1..Len(answers) : \E k \in 1..Len(answers') : answers'[k].path.steps = StepsOf(i)
  BY <1>2, ExplainedIs DEF StepsOf
<1>3. CASE Query!Resolve
  BY <1>1, <1>3 DEF Query!Resolve
<1>4. CASE Query!ResolveTarget
  BY <1>1, <1>4 DEF Query!ResolveTarget
<1>5. CASE Query!ListNodes
  BY <1>1, <1>5 DEF Query!ListNodes
<1>6. ASSUME NEW n \in QueryNodes, Query!StartSearch(n) PROVE answers' = answers
  BY <1>6 DEF Query!StartSearch
<1>7. CASE Query!EndSearch
  BY <1>1, <1>7 DEF Query!EndSearch
<1>8. CASE Query!EndEnumeration
  BY <1>1, <1>8 DEF Query!EndEnumeration
<1>9. CASE Query!ReadSource
  BY <1>1, <1>9 DEF Query!ReadSource
<1>10. CASE Query!ReadTarget
  <2>1. raws' = Tail(raws)
    BY <1>10 DEF Query!ReadTarget
  <2> QED
    BY <1>2, <1>10, <2>1, ReadTargetIs
<1>11. CASE Query!NextNode
  BY <1>1, <1>11 DEF Query!NextNode
<1>12. CASE Query!Sort
  <2>1. PICK f \in [1..Len(answers) -> 1..Len(answers)] :
          /\ Len(answers') = Len(answers)
          /\ \A k \in 1..Len(answers) : answers'[k] = answers[f[k]]
          /\ \A i \in 1..Len(answers) : \E k \in 1..Len(answers) : f[k] = i
    BY <1>12, SortPermutes
  <2> SUFFICES ASSUME NEW i \in 1..Len(answers)
               PROVE  \E k \in 1..Len(answers') : answers'[k].path.steps = StepsOf(i)
    OBVIOUS
  <2>2. PICK k \in 1..Len(answers) : f[k] = i
    BY <2>1
  <2>3. k \in 1..Len(answers') /\ answers'[k] = answers[i]
    BY <2>1, <2>2
  <2> QED
    BY <2>3 DEF StepsOf
<1>13. CASE Query!ListExposure
  BY <1>1, <1>13 DEF Query!ListExposure
<1>14. CASE Query!ReadExposed
  <2>1. raws' = Tail(raws)
    BY <1>14 DEF Query!ReadExposed
  <2> QED
    BY <1>2, <1>14, <2>1, ReadExposedIs
<1>15. CASE Query!GraphChanges
  BY <1>1, <1>15 DEF Query!GraphChanges
<1>16. CASE UNCHANGED Query!vars
  BY <1>1, <1>16 DEF Query!vars
<1>17. ~ Query!NotFound /\ ~ Query!Fail
  BY DEF Query!NotFound, Query!Fail
<1> QED
  BY <1>1, <1>3, <1>4, <1>5, <1>6, <1>7, <1>8, <1>9, <1>10, <1>11, <1>12, <1>13, <1>14, <1>15, <1>16, <1>17
     DEF Query!Next, Query!Step

\* What has been answered is answered, and what cannot be joined cannot.
LEMMA SettledStays ==
  ASSUME QueryHistoryInv, QueryPlaceInv, QueryRouteInv, QueryOrderInv, [Query!Next]_Query!vars, queryPc' # "error",
         NEW pair
  PROVE  (Answered(pair) => Answered(pair)') /\ (Unjoined(pair) => Unjoined(pair)')
<1>1. request' = request /\ always'.links \subseteq always.links
  BY HistoryStep
<1>2. Answered(pair) => \E k \in 1..Len(answers') : EndsOf(answers'[k].path.steps) = pair
  BY AnswersStay DEF Answered, StepsOf
<1>3. Unjoined(pair) => NeverJoined(request', always'.links, pair)
  BY <1>1, NeverJoinedLess DEF Unjoined
<1> QED
  BY <1>2, <1>3 DEF Answered, StepsOf, Unjoined

\* A search that was under way either found the pair or shows that it is not joined.
LEMMA SearchSettles ==
  ASSUME QueryHistoryInv, QueryPlaceInv, Query!EndSearch
  PROVE  Pending' \/ Unjoined(<<source, target>>)
<1>1. CASE Query!RoutesAlong(window.all) = {}
  BY <1>1, NoRoute DEF Query!EndSearch, QueryHistoryInv, QueryPlaceInv
<1>2. CASE \E p : raws' = <<p>>
  BY <1>2 DEF Pending
<1> QED
  BY <1>1, <1>2 DEF Query!EndSearch

\* An explained path of a loop answers the pair in hand.
LEMMA ExplainedAnswers ==
  ASSUME QueryHistoryInv, QueryPlaceInv, QueryRouteInv, Loops, Query!ReadTarget
  PROVE  Answered(<<source, target>>)'
<1>1. raws # <<>> /\ request.op # "exposure" /\ UNCHANGED <<source, target>> /\ raws' = Tail(raws)
      /\ answers \in Seq(AnswerType)
  BY ReadTargetIs DEF Query!ReadTarget, QueryRouteInv
<1>2. PICK a : Explains(a)
  BY ReadTargetIs
<1>3. Len(answers') = Len(answers) + 1 /\ answers'[Len(answers) + 1] = a /\ Len(answers) \in Nat
  BY <1>1, <1>2, AppendProperties, LenProperties DEF Explains
<1>4. EndsOf(a.path.steps) = <<source, target>>
  <2>1. 1 \in 1..Len(raws)
    BY <1>1, HeadTail DEF QueryRouteInv
  <2> QED
    BY <1>1, <1>2, <2>1 DEF QueryRouteInv, Explains, Leads, Loops
<1>5. Len(answers) + 1 \in 1..Len(answers')
  BY <1>3
<1>6. \E k \in 1..Len(answers') : EndsOf(answers'[k].path.steps) = <<source', target'>>
  BY <1>1, <1>3, <1>4, <1>5
<1> QED
  BY <1>6 DEF Answered, StepsOf

\* No node of a loop that was joined all the time is passed over.
LEMMA LoopCoversStep ==
  ASSUME QueryHistoryInv, QueryPlaceInv, QueryRouteInv, QueryLoopInv, QueryOrderInv, LoopCovers,
         [Query!Next]_Query!vars
  PROVE  LoopCovers'
<1>1. /\ request' = request /\ request \in Query!Requests
      /\ request.op \in {"who", "what", "paths", "exposure"} /\ always'.nodes \subseteq always.nodes
  BY HistoryStep, RequestIs DEF QueryPlaceInv
<1> SUFFICES ASSUME Loops, queryPc' \notin {"resolve", "list", "error"} PROVE LoopCovers'
  BY <1>1 DEF LoopCovers, Loops
<1>2. ASSUME queryPc \notin {"resolve", "list", "error"},
             request.op = "who" => target' = target, request.op = "what" => source' = source,
             \A n \in todo : n \in todo' \/ (Pending' /\ n = InHand'),
             Pending => (Pending' /\ InHand' = InHand) \/ Answered(<<source, target>>)' \/ Unjoined(<<source, target>>),
             <<source', target'>> = <<source, target>> \/ ~ Pending
      PROVE  LoopCovers'
  <2>1. Candidates' = Candidates /\ \A n : PairOf(n)' = PairOf(n)
    BY <1>1, <1>2 DEF Candidates, PairOf, Loops
  <2>2. PairOf(InHand) = <<source, target>>
    BY InHandIs
  <2> DEFINE Covered(n) == n \in todo' \/ (Pending' /\ n = InHand') \/ Answered(PairOf(n))' \/ Unjoined(PairOf(n))'
  <2>3. ASSUME NEW n \in Candidates \cap always'.nodes PROVE Covered(n)
    <3>1. n \in todo \/ (Pending /\ n = InHand) \/ Answered(PairOf(n)) \/ Unjoined(PairOf(n))
      BY <1>1, <1>2 DEF LoopCovers
    <3>2. CASE n \in todo
      BY <1>2, <3>2
    <3>3. CASE Pending /\ n = InHand
      BY <1>2, <2>1, <2>2, <3>3, SettledStays
    <3>4. CASE Answered(PairOf(n)) \/ Unjoined(PairOf(n))
      BY <2>1, <3>4, SettledStays
    <3> QED
      BY <3>1, <3>2, <3>3, <3>4
  <2> QED
    BY <2>1, <2>3 DEF LoopCovers
<1>3. CASE Query!Resolve
  BY <1>3 DEF Query!Resolve, Loops
<1>4. CASE Query!ResolveTarget
  BY <1>4 DEF Query!ResolveTarget, QueryPlaceInv, Loops
<1>5. CASE Query!NotFound
  BY <1>5 DEF Query!NotFound
<1>6. CASE Query!ListNodes
  <2>1. todo' = Candidates \cap known /\ UNCHANGED <<source, target, always>>
    BY <1>1, <1>6 DEF Query!ListNodes, Candidates, Loops, QueryHistoryInv, Query!history
  <2>2. Candidates' = Candidates
    BY <1>1, <2>1 DEF Candidates
  <2> QED
    BY <2>1, <2>2 DEF LoopCovers, QueryHistoryInv
<1>7. ASSUME NEW n \in QueryNodes, Query!StartSearch(n) PROVE LoopCovers'
  <2>1. ~ Pending /\ queryPc = "loop" /\ Pending' /\ InHand' = n /\ todo' = todo \ {n}
    BY <1>1, <1>7 DEF Query!StartSearch, Pending, QueryPlaceInv, InHand, Loops
  <2>2. (request.op = "who" => target' = target) /\ (request.op = "what" => source' = source)
    BY <1>7 DEF Query!StartSearch
  <2> QED
    BY <1>2, <2>1, <2>2
<1>8. CASE Query!EndSearch
  <2>1. queryPc = "search" /\ UNCHANGED <<request, source, target, todo>>
    BY <1>8 DEF Query!EndSearch
  <2>2. InHand' = InHand /\ <<source', target'>> = <<source, target>>
    BY <2>1 DEF InHand
  <2> QED
    BY <1>2, <1>8, <2>1, <2>2, SearchSettles
<1>9. CASE Query!EndEnumeration
  BY <1>9 DEF Query!EndEnumeration, Loops
<1>10. CASE Query!ReadSource
  BY <1>1, <1>2, <1>10 DEF Query!ReadSource, Pending, InHand
<1>11. CASE Query!ReadTarget
  <2>1. queryPc = "read target" /\ UNCHANGED <<source, target, todo>>
    BY <1>11 DEF Query!ReadTarget
  <2> QED
    BY <1>2, <1>11, <2>1, ExplainedAnswers
<1>12. CASE Query!NextNode
  BY <1>1, <1>2, <1>12 DEF Query!NextNode, Pending
<1>13. CASE Query!Sort
  BY <1>1, <1>2, <1>13 DEF Query!Sort, Pending
<1>14. CASE Query!ListExposure
  BY <1>14 DEF Query!ListExposure, Loops
<1>15. CASE Query!ReadExposed
  BY <1>15, ReadExposedIs DEF Loops
<1>16. CASE Query!Fail
  BY <1>16 DEF Query!Fail
<1>17. CASE Query!GraphChanges
  BY <1>1, <1>2, <1>17 DEF Query!GraphChanges, Pending, InHand
<1>18. CASE UNCHANGED Query!vars
  BY <1>1, <1>2, <1>18 DEF Query!vars, Pending, InHand
<1> QED
  BY <1>3, <1>4, <1>5, <1>6, <1>7, <1>8, <1>9, <1>10, <1>11, <1>12, <1>13, <1>14, <1>15, <1>16, <1>17, <1>18
     DEF Query!Next, Query!Step

\* An enumeration that did not reach its limit ends with every path that is due.
LEMMA EnumerationSettles ==
  ASSUME QueryHistoryInv, QueryPlaceInv, Query!EndEnumeration
  PROVE  PathsCover'
<1>1. /\ UNCHANGED <<request, source, target, sometime, always, answers>>
      /\ always.links \subseteq window.all /\ always.nodes \subseteq window.kept
      /\ window.met \subseteq sometime.nodes
      /\ request \in Query!Requests /\ answers = <<>>
  BY DEF Query!EndEnumeration, Query!history, QueryHistoryInv, QueryPlaceInv
<1>2. PICK failed : \E n \in 0..Query!Limit :
        /\ raws' \in [1..n -> Query!Answering(failed)]
        /\ \A p \in Query!Owed(failed) : (\A i \in 1..n : raws'[i] # p) => n = Query!Limit
        /\ lost' = lost \cup failed
  BY DEF Query!EndEnumeration
<1> PICK n \in 0..Query!Limit :
        /\ raws' \in [1..n -> Query!Answering(failed)]
        /\ \A p \in Query!Owed(failed) : (\A i \in 1..n : raws'[i] # p) => n = Query!Limit
        /\ lost' = lost \cup failed
  BY <1>2
<1>3. n \in Nat
  <2>1. Query!Limit \in Nat \ {0}
    BY <1>1, RequestIs, Zenon
  <2> QED
    BY <1>2, <2>1
<1>4. Len(raws') = n /\ Len(answers') = 0
  BY <1>1, <1>2, <1>3
<1>5. ASSUME n # Query!Limit, NEW p \in Query!Sequences(always.links, DepthOf(request)), Due(p)'
      PROVE  \E i \in 1..Len(raws') : raws'[i] = p
  <2> DEFINE m == EndsOf(p)[2]
  <2>1. /\ JoinsFor(request, p, <<source, m>>, always.links)
        /\ \A i \in 1..(Len(p) - 1) : ~ Query!IsSought(QueryTarget[p[i]])
        /\ m = target \/ (Query!Wanted(m) /\ m \in always.nodes \ lost')
    BY <1>1, <1>5 DEF Due, Query!IsSought, Query!Wanted
  <2> HIDE DEF m
  <2>2. p \in Query!PathsAlong(window.all) /\ Len(p) \in Nat \ {0} /\ m = QueryTarget[p[Len(p)]]
    <3>1. request \in Query!Requests /\ always.links \subseteq window.all
      BY <1>1
    <3>2. JoinsFor(request, p, <<source, m>>, always.links)
      BY <2>1
    <3> QED
      BY <3>1, <3>2, SteadyPathOf
  <2>3. Query!MustStop(QueryTarget[p[Len(p)]], failed)
    BY <1>1, <1>2, <2>1, <2>2 DEF Query!MustStop
  <2>4. \A i \in 1..(Len(p) - 1) : ~ Query!MayStop(QueryTarget[p[i]])
    BY <1>1, <2>1 DEF Query!MayStop, Query!IsSought
  <2>5. \A i \in 1..Len(p) : i # Len(p) => i \in 1..(Len(p) - 1)
    BY <2>2
  <2>6. p \in Query!Owed(failed)
    BY <2>2, <2>3, <2>4, <2>5 DEF Query!Owed
  <2> QED
    BY <1>2, <1>4, <1>5, <2>6
<1>6. Query!Limit' = Query!Limit 
  BY <1>1 DEF Query!Limit
<1>7. CASE n = Query!Limit
  <2>1. Len(answers') + Len(raws') = Query!Limit'
    BY <1>3, <1>4, <1>6, <1>7
  <2> QED
    BY <2>1 DEF PathsCover
<1>8. CASE n # Query!Limit
  <2>1. \A p \in Query!Sequences(always'.links, DepthOf(request')) : Due(p)' => \E i \in 1..Len(raws') : raws'[i] = p
    BY <1>1, <1>5, <1>8
  <2> QED
    BY <2>1 DEF PathsCover
<1> QED
  BY <1>7, <1>8

\* What is due was due before.
LEMMA DueBefore ==
  ASSUME QueryHistoryInv, [Query!Next]_Query!vars, UNCHANGED <<source, target>>,
         NEW p \in Query!Sequences(always'.links, DepthOf(request')), Due(p)'
  PROVE  p \in Query!Sequences(always.links, DepthOf(request)) /\ Due(p)
<1>1. /\ request' = request /\ sometime.nodes \subseteq sometime'.nodes /\ lost \subseteq lost'
      /\ always'.nodes \subseteq always.nodes /\ always'.links \subseteq always.links
  BY HistoryStep
<1>2. p \in Query!Sequences(always.links, DepthOf(request))
  BY <1>1 DEF Query!Sequences
<1> DEFINE n == EndsOf(p)[2]
<1>3. /\ JoinsFor(request, p, <<source, n>>, always'.links)
      /\ \A i \in 1..(Len(p) - 1) : /\ QueryTarget[p[i]] # target
                                     /\ ~ (Query!Wanted(QueryTarget[p[i]]) /\ QueryTarget[p[i]] \in sometime'.nodes)
      /\ n = target \/ (Query!Wanted(n) /\ n \in always'.nodes \ lost')
  BY <1>1 DEF Due, Query!IsSought, Query!Wanted
<1> HIDE DEF n
<1>4. JoinsFor(request, p, <<source, n>>, always.links)
  BY <1>1, <1>3, JoinsMore
<1>5. \A i \in 1..(Len(p) - 1) : ~ Query!IsSought(QueryTarget[p[i]])
  BY <1>1, <1>3 DEF Query!IsSought
<1> QED
  BY <1>1, <1>2, <1>3, <1>4, <1>5 DEF Due, n

\* A path that is explained is one less to explain and one more answered.
LEMMA ExplainedKeeps ==
  ASSUME QueryRouteInv, raws # <<>>, raws' = Tail(raws), NEW a, Explains(a)
  PROVE  /\ Len(answers') + Len(raws') = Len(answers) + Len(raws)
         /\ \A i \in 1..Len(raws) : \/ \E k \in 1..Len(raws') : raws'[k] = raws[i]
                                   \/ \E k \in 1..Len(answers') : answers'[k].path.steps = raws[i]
<1>1. raws \in Seq(Seq(QueryEdges)) /\ answers \in Seq(AnswerType) /\ Len(answers) \in Nat
  BY LenProperties DEF QueryRouteInv
<1>2. Len(answers') = Len(answers) + 1 /\ answers'[Len(answers) + 1].path.steps = raws[1]
  BY <1>1, AppendProperties DEF Explains
<1>3. /\ Len(raws) \in Nat \ {0} /\ Len(raws') = Len(raws) - 1
      /\ \A i \in 1..(Len(raws) - 1) : raws'[i] = raws[i + 1]
  BY <1>1, HeadTail
<1>4. ASSUME NEW i \in 1..Len(raws), i # 1 PROVE \E k \in 1..Len(raws') : raws'[k] = raws[i]
  <2>1. i - 1 \in 1..Len(raws') /\ i - 1 \in 1..(Len(raws) - 1) /\ (i - 1) + 1 = i
    BY <1>3, <1>4
  <2>2. raws'[i - 1] = raws[i]
    BY <1>3, <2>1
  <2> QED
    BY <2>1, <2>2
<1>5. \E k \in 1..Len(answers') : answers'[k].path.steps = raws[1]
  <2>1. Len(answers) + 1 \in 1..Len(answers')
    BY <1>1, <1>2
  <2> QED
    BY <1>2, <2>1
<1> QED
  BY <1>1, <1>2, <1>3, <1>4, <1>5

\* FindPaths has every path that is due, or as many as its limit allows.
LEMMA PathsCoverStep ==
  ASSUME QueryHistoryInv, QueryPlaceInv, QueryRouteInv, QueryOrderInv, PathsCover, [Query!Next]_Query!vars
  PROVE  PathsCover'
<1>1. request' = request /\ request \in Query!Requests /\ Query!Limit' = Query!Limit
  BY HistoryStep DEF QueryPlaceInv, Query!Limit
<1> SUFFICES ASSUME request.op = "paths", queryPc' \in {"build", "read target", "done"} PROVE PathsCover'
  BY <1>1 DEF PathsCover
<1>2. ~ Loops
  BY DEF Loops
<1>3. ASSUME queryPc \in {"build", "read target", "done"}, UNCHANGED <<source, target>>,
             Len(answers') + Len(raws') = Len(answers) + Len(raws),
             \A i \in 1..Len(raws) : \/ \E k \in 1..Len(raws') : raws'[k] = raws[i]
                                    \/ \E k \in 1..Len(answers') : answers'[k].path.steps = raws[i]
      PROVE  PathsCover'
  <2>1. CASE Len(answers) + Len(raws) = Query!Limit
    BY <1>1, <1>3, <2>1 DEF PathsCover
  <2>2. CASE Len(answers) + Len(raws) # Query!Limit
    <3>1. ASSUME NEW p \in Query!Sequences(always'.links, DepthOf(request')), Due(p)'
          PROVE  (\E i \in 1..Len(raws') : raws'[i] = p) \/ \E k \in 1..Len(answers') : answers'[k].path.steps = p
      <4>1. p \in Query!Sequences(always.links, DepthOf(request)) /\ Due(p)
        BY <1>3, <3>1, DueBefore
      <4>2. (\E i \in 1..Len(raws) : raws[i] = p) \/ \E i \in 1..Len(answers) : StepsOf(i) = p
        BY <1>3, <2>2, <4>1 DEF PathsCover
      <4>3. CASE \E i \in 1..Len(raws) : raws[i] = p
        BY <1>3, <4>3
      <4>4. CASE \E i \in 1..Len(answers) : StepsOf(i) = p
        BY <4>4, AnswersStay
      <4> QED
        BY <4>2, <4>3, <4>4
    <3> QED
      BY <3>1 DEF PathsCover, StepsOf
  <2> QED
    BY <2>1, <2>2
<1>4. ASSUME queryPc \in {"build", "read target", "done"}, UNCHANGED <<source, target, raws>>, Len(answers') = Len(answers)
      PROVE  PathsCover'
  BY <1>3, <1>4
<1>5. CASE Query!EndEnumeration
  BY <1>5, EnumerationSettles
<1>6. CASE Query!ReadTarget
  <2>1. UNCHANGED <<source, target>> /\ raws' = Tail(raws) /\ queryPc = "read target"
    BY <1>6 DEF Query!ReadTarget
  <2>2. PICK a : Explains(a)
    BY <1>6, ReadTargetIs
  <2> QED
    BY <1>3, <1>6, <2>1, <2>2, ReadTargetIs, ExplainedKeeps
<1>7. CASE Query!ReadSource
  BY <1>4, <1>7 DEF Query!ReadSource
<1>8. CASE Query!NextNode
  BY <1>2, <1>8 DEF Query!NextNode, QueryPlaceInv
<1>9. CASE Query!Sort
  <2>1. UNCHANGED <<source, target, raws>> /\ queryPc = "build"
    BY <1>9 DEF Query!Sort, QueryPlaceInv
  <2>2. Len(answers') = Len(answers)
    BY <1>9, SortPermutes
  <2> QED
    BY <1>4, <2>1, <2>2
<1>10. CASE Query!GraphChanges
  BY <1>4, <1>10 DEF Query!GraphChanges
<1>11. CASE UNCHANGED Query!vars
  BY <1>4, <1>11 DEF Query!vars
<1>12. CASE Query!Resolve \/ Query!ResolveTarget \/ Query!NotFound \/ Query!Fail
  BY <1>12 DEF Query!Resolve, Query!ResolveTarget, Query!NotFound, Query!Fail
<1>13. CASE Query!ListNodes \/ Query!EndSearch \/ Query!ListExposure
  BY <1>13 DEF Query!ListNodes, Query!EndSearch, Query!ListExposure
<1>14. ASSUME NEW n \in QueryNodes, Query!StartSearch(n) PROVE FALSE
  BY <1>2, <1>14 DEF Query!StartSearch, QueryPlaceInv
<1>15. CASE Query!ReadExposed
  BY <1>15, ReadExposedIs
<1> QED
  BY <1>5, <1>6, <1>7, <1>8, <1>9, <1>10, <1>11, <1>12, <1>13, <1>14, <1>15 DEF Query!Next, Query!Step

\* What was exposed all the time is listed, unless its read fails.
LEMMA ExposureCoversStep ==
  ASSUME QueryHistoryInv, QueryPlaceInv, QueryRouteInv, QueryOrderInv, ExposureCovers, [Query!Next]_Query!vars
  PROVE  ExposureCovers'
<1>1. /\ request' = request /\ request \in Query!Requests
      /\ always'.nodes \subseteq always.nodes /\ always'.links \subseteq always.links
  BY HistoryStep DEF QueryPlaceInv
<1> SUFFICES ASSUME request.op = "exposure", queryPc' \in {"expose", "done"} PROVE ExposureCovers'
  BY <1>1 DEF ExposureCovers
<1>2. ~ Loops
  BY DEF Loops
<1> DEFINE Shown(e) ==
      \/ QueryTarget[e] \notin always.nodes \/ QueryTarget[e] \in lost
      \/ \E i \in 1..Len(raws) : raws[i] = <<e>>
      \/ \E i \in 1..Len(answers) : StepsOf(i) = <<e>>
           ShownThen(e) ==
      \/ QueryTarget[e] \notin always'.nodes \/ QueryTarget[e] \in lost'
      \/ \E i \in 1..Len(raws') : raws'[i] = <<e>>
      \/ \E i \in 1..Len(answers') : answers'[i].path.steps = <<e>>
<1>3. ASSUME \A e \in always'.links \cap ReachableFrom : ShownThen(e) PROVE ExposureCovers'
  BY <1>3 DEF ExposureCovers, StepsOf
<1>4. ASSUME queryPc \in {"expose", "done"}, raws' = raws, lost' = lost PROVE ExposureCovers'
  <2>1. \A e \in always.links \cap ReachableFrom : Shown(e)
    BY <1>4 DEF ExposureCovers
  <2>2. \A e \in always'.links \cap ReachableFrom : ShownThen(e)
    <3> SUFFICES ASSUME NEW e \in always.links \cap ReachableFrom PROVE ShownThen(e)
      BY <1>1
    <3>1. (\E i \in 1..Len(answers) : StepsOf(i) = <<e>>) => \E i \in 1..Len(answers') : answers'[i].path.steps = <<e>>
      BY AnswersStay
    <3>2. Shown(e)
      BY <2>1
    <3> QED
      BY <1>1, <1>4, <3>1, <3>2
  <2> QED
    BY <1>3, <2>2
<1>5. CASE Query!ListExposure
  <2>1. always' = always /\ always.links \subseteq links
    BY <1>5 DEF Query!ListExposure, Query!history, QueryHistoryInv
  <2>2. \A e \in links \cap ReachableFrom : \E i \in 1..Len(raws') : raws'[i] = <<e>>
    BY <1>5, ListExposureIs
  <2> QED
    BY <1>3, <2>1, <2>2
<1>6. CASE Query!ReadExposed
  <2>1. /\ queryPc = "expose" /\ raws' = Tail(raws) /\ lost \subseteq lost' /\ always' = always
        /\ \/ answers' = Append(answers, [path |-> [steps |-> Head(raws), from |-> Internet,
                                                    to |-> QueryTarget[Head(raws)[1]],
                                                    confidence |-> QueryConfidence[Head(raws)[1]]],
                                          score |-> 0, severity |-> "info"])
           \/ QueryTarget[Head(raws)[1]] \notin known
           \/ QueryTarget[Head(raws)[1]] \in lost'
    BY <1>6 DEF Query!ReadExposed, Query!history
  <2>2. raws # <<>> /\ (answers' = answers \/ \E a : Explains(a))
    BY <1>6, ReadExposedIs
  <2>3. Head(raws) = raws[1] /\ answers \in Seq(AnswerType) /\ Len(answers) \in Nat
    BY <2>2, HeadTail, LenProperties DEF QueryRouteInv
  <2>4. /\ Len(raws) \in Nat \ {0} /\ Len(raws') = Len(raws) - 1
        /\ \A i \in 1..(Len(raws) - 1) : raws'[i] = raws[i + 1]
    BY <2>1, <2>2, ExplainedIs
  <2>5. \A e \in always.links \cap ReachableFrom : Shown(e)
    BY <2>1 DEF ExposureCovers
  <2>6. ASSUME NEW e \in always.links \cap ReachableFrom PROVE ShownThen(e)
    <3>1. CASE QueryTarget[e] \notin always.nodes \/ QueryTarget[e] \in lost
      BY <2>1, <3>1
    <3>2. ASSUME NEW i \in 1..Len(raws), raws[i] = <<e>> PROVE ShownThen(e)
      <4>1. CASE i = 1
        <5>1. Head(raws) = <<e>> /\ Head(raws)[1] = e
          BY <2>3, <3>2, <4>1
        <5>2. CASE QueryTarget[e] \notin known \/ QueryTarget[e] \in lost'
          BY <2>1, <5>2 DEF QueryHistoryInv
        <5>3. CASE answers' = Append(answers, [path |-> [steps |-> Head(raws), from |-> Internet,
                                                         to |-> QueryTarget[Head(raws)[1]],
                                                         confidence |-> QueryConfidence[Head(raws)[1]]],
                                               score |-> 0, severity |-> "info"])
          <6> DEFINE a == [path |-> [steps |-> Head(raws), from |-> Internet,
                                     to |-> QueryTarget[Head(raws)[1]],
                                     confidence |-> QueryConfidence[Head(raws)[1]]],
                           score |-> 0, severity |-> "info"]
          <6>1. a.path.steps = <<e>>
            BY <5>1
          <6>2. answers' = Append(answers, a)
            BY <5>3
          <6> HIDE DEF a
          <6>3. Len(answers') = Len(answers) + 1 /\ answers'[Len(answers) + 1] = a
            BY <2>3, <6>2
          <6>4. Len(answers) + 1 \in 1..Len(answers')
            BY <2>3, <6>3
          <6>5. \E k \in 1..Len(answers') : answers'[k].path.steps = <<e>>
            BY <6>1, <6>3, <6>4
          <6> QED
            BY <6>5
        <5> QED
          BY <2>1, <5>1, <5>2, <5>3
      <4>2. CASE i # 1
        <5>1. i - 1 \in 1..Len(raws') /\ raws'[i - 1] = raws[i]
          BY <2>4, <4>2
        <5> QED
          BY <3>2, <5>1
      <4> QED
        BY <4>1, <4>2
    <3>3. (\E i \in 1..Len(answers) : StepsOf(i) = <<e>>) => ShownThen(e)
      BY <1>6, <2>1, AnswersStay
    <3> QED
      BY <2>5, <3>1, <3>2, <3>3
  <2> QED
    BY <1>3, <2>1, <2>6
<1>7. CASE Query!Sort
  BY <1>4, <1>7 DEF Query!Sort, QueryPlaceInv, Loops
<1>8. CASE Query!GraphChanges
  BY <1>4, <1>8 DEF Query!GraphChanges
<1>9. CASE UNCHANGED Query!vars
  BY <1>4, <1>9 DEF Query!vars
<1>10. CASE Query!Resolve \/ Query!ResolveTarget \/ Query!NotFound \/ Query!Fail
  BY <1>10 DEF Query!Resolve, Query!ResolveTarget, Query!NotFound, Query!Fail
<1>11. CASE Query!ListNodes \/ Query!EndSearch \/ Query!EndEnumeration \/ Query!ReadSource \/ Query!ReadTarget
            \/ Query!NextNode
  BY <1>11 DEF Query!ListNodes, Query!EndSearch, Query!EndEnumeration, Query!ReadSource, Query!ReadTarget,
               Query!NextNode
<1>12. ASSUME NEW n \in QueryNodes, Query!StartSearch(n) PROVE FALSE
  BY <1>2, <1>12 DEF Query!StartSearch, QueryPlaceInv
<1> QED
  BY <1>5, <1>6, <1>7, <1>8, <1>9, <1>10, <1>11, <1>12 DEF Query!Next, Query!Step

\* Answers are scored as they deserve, and sorted in the end.
LEMMA RankingStep ==
  ASSUME QueryHistoryInv, QueryPlaceInv, QueryRouteInv, QueryOrderInv, [Query!Next]_Query!vars
  PROVE  QueryOrderInv'
<1>1. request' = request /\ Len(answers) \in Nat
  BY HistoryStep, LenProperties DEF QueryRouteInv
<1>2. ASSUME answers' = answers, queryPc' = "done" => queryPc = "done" PROVE QueryOrderInv'
  <2>1. \A i, j \in 1..Len(answers) : Query!Before(i, j)' <=> Query!Before(i, j)
    BY <1>1, <1>2 DEF Query!Before
  <2> QED
    BY <1>1, <1>2, <2>1 DEF QueryOrderInv
<1>3. ASSUME answers' = <<>> PROVE QueryOrderInv'
  BY <1>3 DEF QueryOrderInv
<1>4. ASSUME NEW a, Explains(a), queryPc' # "done" PROVE QueryOrderInv'
  <2>1. answers \in Seq(AnswerType) /\ Scored(request.op, a) /\ answers' = Append(answers, a)
    BY <1>4 DEF Explains, QueryRouteInv
  <2>2. /\ Len(answers') = Len(answers) + 1 /\ answers'[Len(answers) + 1] = a
        /\ \A i \in 1..Len(answers) : answers'[i] = answers[i]
    BY <2>1, AppendProperties
  <2>3. \A i \in 1..Len(answers') : i \in 1..Len(answers) \/ i = Len(answers) + 1
    BY <1>1, <2>2
  <2>4. \A i \in 1..Len(answers') : Scored(request.op, answers'[i])
    BY <2>1, <2>2, <2>3 DEF QueryOrderInv
  <2> QED
    BY <1>1, <1>4, <2>4 DEF QueryOrderInv
<1>5. CASE Query!Sort
  <2>1. PICK f \in [1..Len(answers) -> 1..Len(answers)] :
          /\ Len(answers') = Len(answers)
          /\ \A k \in 1..Len(answers) : answers'[k] = answers[f[k]]
          /\ \A k, l \in 1..Len(answers) : k < l => ~ Query!Before(f[l], f[k])
    BY <1>5, SortPermutes
  <2>2. \A i \in 1..Len(answers') : f[i] \in 1..Len(answers) /\ answers'[i] = answers[f[i]]
    BY <2>1
  <2>3. \A i, j \in 1..Len(answers') : Query!Before(i, j)' <=> Query!Before(f[i], f[j])
    BY <1>1, <2>2 DEF Query!Before
  <2>4. \A i, j \in 1..Len(answers') : i < j => ~ Query!Before(j, i)'
    BY <2>1, <2>3
  <2>5. \A i \in 1..Len(answers') : Scored(request.op, answers'[i])
    BY <2>2 DEF QueryOrderInv
  <2> QED
    BY <1>1, <2>4, <2>5 DEF QueryOrderInv
<1>6. CASE Query!ReadTarget
  BY <1>4, <1>6, ReadTargetIs DEF Query!ReadTarget
<1>7. CASE Query!ReadExposed
  BY <1>2, <1>4, <1>7, ReadExposedIs DEF Query!ReadExposed
<1>8. CASE Query!Fail
  BY <1>3, <1>8 DEF Query!Fail
<1>9. CASE Query!Resolve
  BY <1>2, <1>9 DEF Query!Resolve
<1>10. CASE Query!ResolveTarget
  BY <1>2, <1>10 DEF Query!ResolveTarget
<1>11. CASE Query!NotFound
  BY <1>2, <1>11 DEF Query!NotFound
<1>12. CASE Query!ListNodes
  BY <1>2, <1>12 DEF Query!ListNodes
<1>13. ASSUME NEW n \in QueryNodes, Query!StartSearch(n) PROVE QueryOrderInv'
  BY <1>2, <1>13 DEF Query!StartSearch
<1>14. CASE Query!EndSearch
  BY <1>2, <1>14 DEF Query!EndSearch
<1>15. CASE Query!EndEnumeration
  BY <1>2, <1>15 DEF Query!EndEnumeration
<1>16. CASE Query!ReadSource
  BY <1>2, <1>16 DEF Query!ReadSource
<1>17. CASE Query!NextNode
  BY <1>2, <1>17 DEF Query!NextNode
<1>18. CASE Query!ListExposure
  BY <1>2, <1>18 DEF Query!ListExposure
<1>19. CASE Query!GraphChanges
  BY <1>2, <1>19 DEF Query!GraphChanges
<1>20. CASE UNCHANGED Query!vars
  BY <1>2, <1>20 DEF Query!vars
<1> QED
  BY <1>5, <1>6, <1>7, <1>8, <1>9, <1>10, <1>11, <1>12, <1>13, <1>14, <1>15, <1>16, <1>17, <1>18, <1>19, <1>20
     DEF Query!Next, Query!Step

\* The invariant holds before a query begins.
LEMMA QueryInit == Query!Init => QueryInv
<1> SUFFICES ASSUME Query!Init PROVE QueryInv
  OBVIOUS
<1>1. links \in Graphs /\ known = QueryNodes /\ request \in Query!Requests
      /\ sometime = [nodes |-> known, links |-> links] /\ always = sometime
      /\ window = [some |-> {}, all |-> {}, met |-> {}, kept |-> {}]
      /\ source = None /\ target = None /\ todo = {} /\ raws = <<>> /\ fromNode = None /\ answers = <<>>
  BY DEF Query!Init
<1>2. links \subseteq QueryEdges
  BY <1>1, QueryingAssumption DEF Query!QueryAssumption
<1>3. queryPc = IF request.op = "exposure" THEN "list" ELSE "resolve"
  BY DEF Query!Init
<1>4. request.op \in {"who", "what", "paths", "exposure"}
  BY <1>1, RequestIs
<1>5. QueryHistoryInv
  BY <1>1, <1>2, <1>3 DEF QueryHistoryInv
<1>6. Len(raws) = 0 /\ Len(answers) = 0 /\ 1..0 = {}
  BY <1>1
<1>7. QueryPlaceInv
  BY <1>1, <1>3, <1>4, <1>6 DEF QueryPlaceInv, Loops, Pending
<1>8. QueryRouteInv
  BY <1>1 DEF QueryRouteInv
<1>9. QueryOnceInv /\ QueryLoopInv
  BY <1>1 DEF QueryOnceInv, QueryLoopInv
<1>10. QueryCoverInv
  BY <1>3, <1>4 DEF QueryCoverInv, LoopCovers, PathsCover, ExposureCovers, Loops
<1>11. QueryOrderInv
  BY <1>1 DEF QueryOrderInv
<1> QED
  BY <1>5, <1>7, <1>8, <1>9, <1>10, <1>11 DEF QueryInv

\* Every step of a query, and of what changes the store meanwhile, keeps the invariant.
LEMMA QueryStep == QueryInv /\ [Query!Next]_Query!vars => QueryInv'
BY HistoryStep, PlaceStep, RouteStep, OnceStep, LoopStep, LoopCoversStep, PathsCoverStep, ExposureCoversStep, RankingStep
   DEF QueryInv, QueryCoverInv

\* The invariant of queries holds in every state.
LEMMA QueryInvariant == Query!Spec => []QueryInv
BY QueryInit, QueryStep, PTL DEF Query!Spec

\* When a query has ended, what covers its pairs and its answers is what the property says.
LEMMA ListedInTheEnd == QueryInv => ReachIsListed
<1> SUFFICES ASSUME QueryInv, queryPc = "done"
             PROVE  /\ \A pair \in Asks(request, sometime.nodes, source, target) : {pair[1], pair[2]} \subseteq always.nodes =>
                         \/ \E i \in 1..Len(answers) : EndsOf(StepsOf(i)) = pair
                         \/ \A p \in Query!Sequences(always.links, DepthOf(request)) :
                              ~ (JoinsFor(request, p, pair, always.links) /\ Query!IsDirect(p))
                         \/ pair[2] \in lost
                         \/ request.op = "paths" /\ Len(answers) = Query!Limit
                    /\ \A i \in 1..Len(answers) :
                         EndsOf(StepsOf(i)) \in Asks(request, sometime.nodes, source, target)
                         /\ JoinsFor(request, StepsOf(i), EndsOf(StepsOf(i)), sometime.links)
                    /\ \A i, j \in 1..Len(answers) : StepsOf(i) = StepsOf(j) => i = j
                    /\ request.op # "paths" =>
                         \A i, j \in 1..Len(answers) : EndsOf(StepsOf(i)) = EndsOf(StepsOf(j)) => i = j
  <2>1. CASE queryPc # "done"
    BY <2>1 DEF ReachIsListed, Query!ReachIsListed
  <2>2. ASSUME QueryInv, queryPc = "done" PROVE DOMAIN answers = 1..Len(answers)
    BY <2>2, LenProperties DEF QueryInv, QueryRouteInv
  <2>3. ASSUME QueryInv, NEW i \in 1..Len(answers) PROVE Query!Ends(answers[i]) = EndsOf(StepsOf(i))
    BY <2>3 DEF QueryInv, QueryRouteInv, Found, JoinsFor, StepsOf, Query!Ends, EndsOf, Query!End
  <2> QED
    BY <2>1, <2>2, <2>3, JoinsIs DEF ReachIsListed, Query!ReachIsListed, StepsOf
<1>1. /\ request \in Query!Requests /\ request.op \in {"who", "what", "paths", "exposure"}
      /\ raws = <<>> /\ todo = {} /\ ~ Pending
  BY RequestIs DEF QueryInv, QueryPlaceInv, Pending
<1>2. \A i \in 1..Len(answers) :
         EndsOf(StepsOf(i)) \in Asks(request, sometime.nodes, source, target)
         /\ JoinsFor(request, StepsOf(i), EndsOf(StepsOf(i)), sometime.links)
         /\ Found(request, sometime.links, StepsOf(i))
  BY DEF QueryInv, QueryRouteInv, Found
<1>3. \A i, j \in 1..Len(answers) : StepsOf(i) = StepsOf(j) => i = j
  BY DEF QueryInv, QueryOnceInv
<1>4. request.op # "paths" =>
        \A i, j \in 1..Len(answers) : EndsOf(StepsOf(i)) = EndsOf(StepsOf(j)) => i = j
  <2>1. CASE Loops
    BY <2>1 DEF QueryInv, QueryLoopInv
  <2>2. CASE request.op = "exposure"
    <3> SUFFICES ASSUME NEW i \in 1..Len(answers), NEW j \in 1..Len(answers), EndsOf(StepsOf(i)) = EndsOf(StepsOf(j))
                 PROVE  i = j
      OBVIOUS
    <3>1. /\ StepsOf(i) = <<StepsOf(i)[1]>> /\ StepsOf(i)[1] \in ReachableFrom
          /\ EndsOf(StepsOf(i)) = <<Internet, QueryTarget[StepsOf(i)[1]]>>
          /\ StepsOf(j) = <<StepsOf(j)[1]>> /\ StepsOf(j)[1] \in ReachableFrom
          /\ EndsOf(StepsOf(j)) = <<Internet, QueryTarget[StepsOf(j)[1]]>>
      BY <1>1, <1>2, <2>2, ExposedIs
    <3>2. QueryTarget[StepsOf(i)[1]] = QueryTarget[StepsOf(j)[1]]
      <4>1. <<Internet, QueryTarget[StepsOf(i)[1]]>> = <<Internet, QueryTarget[StepsOf(j)[1]]>>
        BY <3>1
      <4> QED
        BY <4>1
    <3>3. StepsOf(i)[1] = StepsOf(j)[1]
      BY <3>1, <3>2, QueryingAssumption DEF Query!QueryAssumption
    <3> QED
      BY <1>3, <3>1, <3>3
  <2> QED
    BY <1>1, <2>1, <2>2 DEF Loops
<1>5. ASSUME NEW pair \in Asks(request, sometime.nodes, source, target), {pair[1], pair[2]} \subseteq always.nodes
      PROVE  \/ Answered(pair) \/ Unjoined(pair) \/ pair[2] \in lost
             \/ request.op = "paths" /\ Len(answers) = Query!Limit
             \/ \A p \in Query!Sequences(always.links, DepthOf(request)) :
                  ~ (JoinsFor(request, p, pair, always.links) /\ Query!IsDirect(p))
  <2>1. CASE request.op = "who"
    <3>1. PICK n \in Candidates : pair = <<n, target>>
      BY <2>1 DEF Asks, Candidates
    <3>2. n \in Candidates \cap always.nodes /\ pair = PairOf(n)
      BY <1>5, <2>1, <3>1 DEF PairOf
    <3> QED
      BY <1>1, <2>1, <3>2 DEF QueryInv, QueryCoverInv, LoopCovers, Loops
  <2>2. CASE request.op = "what"
    <3>1. PICK n \in Candidates : pair = <<source, n>>
      BY <2>2 DEF Asks, Candidates
    <3>2. n \in Candidates \cap always.nodes /\ pair = PairOf(n)
      BY <1>5, <2>2, <3>1 DEF PairOf
    <3> QED
      BY <1>1, <2>2, <3>2 DEF QueryInv, QueryCoverInv, LoopCovers, Loops
  <2>3. CASE request.op = "paths"
    <3>1. PICK n \in QueryNodes : pair = <<source, n>> /\ (n = target \/ (WantedBy(request, n) /\ n \in sometime.nodes))
      BY <2>3 DEF Asks
    <3>2. ASSUME n \notin lost, Len(answers) # Query!Limit,
                 NEW p \in Query!Sequences(always.links, DepthOf(request)),
                 JoinsFor(request, p, <<source, n>>, always.links), Query!IsDirect(p)
          PROVE  Answered(<<source, n>>)
      <4>1. p \in Seq(QueryEdges) /\ EndsOf(p) = <<source, n>>
        <5>1. always.links \in SUBSET QueryEdges
          BY DEF QueryInv, QueryHistoryInv
        <5>2. p \in Query!PathsAlong(always.links)
          <6>1. request \in Query!Requests
            BY <1>1
          <6> QED
            BY <3>2, <6>1, SteadyPathOf
        <5>3. p \in Seq(QueryEdges)
          BY <1>1, <2>3, <5>1, <5>2, PathIs
        <5> QED
          BY <3>2, <5>3, JoinedEnds
      <4>2. Due(p)
        <5>1. n \in always.nodes
          BY <1>5, <3>1
        <5>2. n = target \/ (Query!Wanted(n) /\ n \in always.nodes \ lost)
          BY <3>1, <3>2, <5>1 DEF Query!Wanted, WantedBy
        <5>3. \A i \in 1..(Len(p) - 1) : ~ Query!IsSought(QueryTarget[p[i]])
          BY <2>3, <3>2 DEF Query!IsDirect
        <5>4. EndsOf(p)[2] = n
          BY <4>1
        <5> QED
          BY <3>2, <5>2, <5>3, <5>4 DEF Due
      <4>3. Len(answers) + Len(raws) # Query!Limit /\ ~ \E i \in 1..Len(raws) : raws[i] = p
        <5>1. Len(answers) \in Nat /\ Len(raws) = 0
          BY <1>1, LenProperties DEF QueryInv, QueryRouteInv
        <5> QED
          BY <1>1, <3>2, <5>1
      <4>4. \E i \in 1..Len(answers) : StepsOf(i) = p
        BY <2>3, <3>2, <4>2, <4>3 DEF QueryInv, QueryCoverInv, PathsCover
      <4> QED
        BY <4>1, <4>4 DEF Answered
    <3>3. pair[2] = n
      BY <3>1
    <3> QED
      BY <2>3, <3>1, <3>2, <3>3
  <2>4. CASE request.op = "exposure"
    <3>1. PICK n \in QueryNodes : pair = <<Internet, n>>
      BY <2>4 DEF Asks
    <3> SUFFICES ASSUME n \notin lost, ~ Unjoined(pair) PROVE Answered(pair)
      BY <3>1
    <3>2. PICK p \in Query!Sequences(always.links, DepthOf(request)) : JoinsFor(request, p, pair, always.links)
      BY DEF Unjoined, NeverJoined
    <3>3. Len(p) = 1 /\ p[1] \in always.links \cap ReachableFrom /\ QueryTarget[p[1]] = n
      <4>1. request.along = ReachableFrom
        BY <1>1, <2>4, RequestIs
      <4>2. p # <<>> /\ Len(p) = 1 /\ Query!End(Internet, p) = n
            /\ Query!IsWalk(p, Internet, always.links \cap request.along, request.min)
        BY <2>4, <3>1, <3>2 DEF JoinsFor
      <4>3. 1 \in 1..Len(p)
        BY <4>2
      <4>4. p[1] \in always.links \cap request.along
        BY <4>2, <4>3 DEF Query!IsWalk
      <4> QED
        BY <4>1, <4>2, <4>4 DEF Query!End
    <3>4. PICK i \in 1..Len(answers) : StepsOf(i) = <<p[1]>>
      <4>1. n \in always.nodes
        BY <1>5, <3>1
      <4>2. ~ \E i \in 1..Len(raws) : raws[i] = <<p[1]>>
        BY <1>1
      <4> QED
        BY <2>4, <3>3, <4>1, <4>2 DEF QueryInv, QueryCoverInv, ExposureCovers
    <3>5. EndsOf(StepsOf(i)) = <<Internet, QueryTarget[StepsOf(i)[1]]>> /\ StepsOf(i)[1] = p[1]
      BY <1>1, <1>2, <2>4, <3>4, ExposedIs
    <3> QED
      BY <3>1, <3>3, <3>5 DEF Answered
  <2> QED
    BY <1>1, <2>1, <2>2, <2>3, <2>4
<1>6. ASSUME NEW pair, Unjoined(pair)
      PROVE  \A p \in Query!Sequences(always.links, DepthOf(request)) :
               ~ (JoinsFor(request, p, pair, always.links) /\ Query!IsDirect(p))
  BY <1>6 DEF Unjoined, NeverJoined
<1> QED
  BY <1>2, <1>3, <1>4, <1>5, <1>6 DEF Answered

\* What could be reached all the time is in the answer, once, whatever is stored or
\* removed between the reads of a query, and nothing else is (WhoCanReach, WhatCanReach,
\* FindPaths, InternetExposure).
THEOREM ReachIsListedCorrect == Query!Spec => []ReachIsListed
BY QueryInvariant, ListedInTheEnd, PTL

\* When a query has ended, sorted answers with the scores they deserve are ranked as the property says.
LEMMA RankedInTheEnd == QueryInv => RankingIsEarned
<1> SUFFICES ASSUME QueryInv, queryPc = "done"
             PROVE  /\ \A i, j \in 1..Len(answers) : i < j =>
                         IF request.op = "exposure" THEN PlaceOf[answers[i].path.to] <= PlaceOf[answers[j].path.to]
                         ELSE /\ answers[i].score >= answers[j].score
                              /\ Query!Stronger(answers[j].path, answers[i].path) =>
                                   request.op # "paths" /\ answers[i].score = 0
                    /\ \A i \in 1..Len(answers) : answers[i].severity \in {"critical", "high"} =>
                         \A k \in 1..Len(StepsOf(i)) : QueryConfidence[StepsOf(i)[k]] = "definite"
  <2>1. CASE queryPc # "done"
    BY <2>1 DEF RankingIsEarned, Query!RankingIsEarned
  <2>2. ASSUME QueryInv PROVE /\ DOMAIN answers = 1..Len(answers)
                              /\ \A i \in 1..Len(answers) : DOMAIN answers[i].path.steps = 1..Len(StepsOf(i))
    <3>1. answers \in Seq(AnswerType)
      BY <2>2 DEF QueryInv, QueryRouteInv
    <3>2. \A i \in 1..Len(answers) : StepsOf(i) \in Seq(QueryEdges)
      BY <2>2 DEF QueryInv, QueryRouteInv, Found
    <3> QED
      BY <3>1, <3>2, LenProperties DEF StepsOf
  <2> QED
    BY <2>1, <2>2 DEF RankingIsEarned, Query!RankingIsEarned, StepsOf
<1>1. ASSUME NEW i \in 1..Len(answers)
      PROVE  /\ answers[i] \in AnswerType /\ answers[i].score \in Int /\ StepsOf(i) \in Seq(QueryEdges)
             /\ StepsOf(i) # <<>> /\ Len(StepsOf(i)) \in Nat /\ Scored(request.op, answers[i])
  <2>1. answers[i] \in AnswerType
    BY ElementOfSeq DEF QueryInv, QueryRouteInv
  <2>2. StepsOf(i) \in Seq(QueryEdges) /\ StepsOf(i) # <<>>
    BY DEF QueryInv, QueryRouteInv, Found, JoinsFor
  <2>3. answers[i].score \in Int
    BY <2>1 DEF AnswerType
  <2> QED
    BY <2>1, <2>2, <2>3, LenProperties DEF QueryInv, QueryOrderInv
<1>2. \A i, j \in 1..Len(answers) : i < j => ~ Query!Before(j, i)
  BY DEF QueryInv, QueryOrderInv
<1>3. ASSUME NEW i \in 1..Len(answers), NEW j \in 1..Len(answers), i < j, request.op = "exposure"
      PROVE  PlaceOf[answers[i].path.to] <= PlaceOf[answers[j].path.to]
  <2>1. answers[i].path.to \in QueryNodes /\ answers[j].path.to \in QueryNodes
    BY <1>1, <1>3 DEF Scored
  <2>2. PlaceOf[answers[i].path.to] \in Nat /\ PlaceOf[answers[j].path.to] \in Nat
    BY <2>1, QueryingAssumption DEF Query!QueryAssumption
  <2>3. ~ (PlaceOf[answers[j].path.to] < PlaceOf[answers[i].path.to])
    BY <1>2, <1>3 DEF Query!Before
  <2> QED
    BY <2>2, <2>3
<1>4. ASSUME NEW i \in 1..Len(answers), NEW j \in 1..Len(answers), i < j, request.op # "exposure"
      PROVE  /\ answers[i].score >= answers[j].score
             /\ Query!Stronger(answers[j].path, answers[i].path) => request.op # "paths" /\ answers[i].score = 0
  <2>1. ~ (answers[j].score > answers[i].score)
    BY <1>2, <1>4 DEF Query!Before
  <2>2. answers[i].score >= answers[j].score
    BY <1>1, <2>1
  <2>3. ASSUME Query!Stronger(answers[j].path, answers[i].path)
        PROVE  answers[i].score = 0 /\ answers[j].score = 0
    <3> DEFINE p == answers[j].path
               q == answers[i].path
    <3>1. /\ p.steps \in Seq(QueryEdges) /\ q.steps \in Seq(QueryEdges) /\ p.steps # <<>> /\ q.steps # <<>>
          /\ p.confidence = Query!WeakestConfidence(p.steps) /\ q.confidence = Query!WeakestConfidence(q.steps)
          /\ answers[j].score = Query!ScorePath(p) /\ answers[i].score = Query!ScorePath(q)
      BY <1>1, <1>4 DEF Scored, StepsOf
    <3> HIDE DEF p, q
    <3>2. Query!ScorePath(p) > Query!ScorePath(q) \/ (Query!ScorePath(p) = 0 /\ Query!ScorePath(q) = 0)
      BY <2>3, <3>1, StrongerScores DEF p, q
    <3> QED
      BY <1>1, <2>2, <3>1, <3>2
  <2>4. Query!Stronger(answers[j].path, answers[i].path) => request.op # "paths"
    <3> SUFFICES ASSUME Query!Stronger(answers[j].path, answers[i].path), request.op = "paths" PROVE FALSE
      OBVIOUS
    <3>1. answers[j].score = answers[i].score
      BY <2>3
    <3>2. Len(answers[j].path.steps) < Len(answers[i].path.steps)
      BY DEF Query!Stronger
    <3> QED
      BY <1>2, <1>4, <3>1, <3>2 DEF Query!Before
  <2> QED
    BY <2>2, <2>3, <2>4
<1>5. ASSUME NEW i \in 1..Len(answers), answers[i].severity \in {"critical", "high"}
      PROVE  \A k \in 1..Len(StepsOf(i)) : QueryConfidence[StepsOf(i)[k]] = "definite"
  <2>1. request.op # "exposure"
    BY <1>1, <1>5 DEF Scored
  <2> DEFINE p == answers[i].path
  <2>2. /\ p.steps \in Seq(QueryEdges) /\ p.steps # <<>> /\ p.confidence = Query!WeakestConfidence(p.steps)
        /\ Query!SeverityForScore(Query!ScorePath(p)) \in {"critical", "high"} /\ StepsOf(i) = p.steps
    BY <1>1, <1>5, <2>1 DEF Scored, StepsOf
  <2> HIDE DEF p
  <2> QED
    BY <2>2, SevereIsDefinite
<1> QED
  BY <1>3, <1>4, <1>5

\* Of two paths between what was read as the same nodes the better one comes first, and
\* high severity rests on definite edges alone (ScorePath, SeverityForScore, sort.SliceStable).
THEOREM RankingIsEarnedCorrect == Query!Spec => []RankingIsEarned
BY QueryInvariant, RankedInTheEnd, PTL
=============================================================================

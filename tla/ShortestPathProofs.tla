------------------------- MODULE ShortestPathProofs -------------------------
(***************************************************************************)
(* Theorems about ShortestPath, for every graph, every query and any       *)
(* number of changes to the graph while the search runs.                   *)
(***************************************************************************)
EXTENDS Serving, PathLemmas

LEMMA QueryType ==
  ASSUME query \in Queries
  PROVE  /\ query.from \in Nodes /\ query.to \in Nodes
         /\ MaxDepth \in Nat \ {0}
BY QueryAssumption DEF Queries, MaxDepth

\* The queue holds paths of edges and the visited set nodes, at every step.
THEOREM TypeCorrect == Spec => []TypeOK
<1>1. Init => TypeOK
  <2> SUFFICES ASSUME Init PROVE TypeOK
    OBVIOUS
  <2>1. query.from \in Nodes
    BY QueryType DEF Init
  <2> QED
    BY <2>1, QueryAssumption, EmptySeq DEF Init, TypeOK
<1>2. TypeOK /\ [Next]_vars => TypeOK'
  <2> SUFFICES ASSUME TypeOK, [Next]_vars PROVE TypeOK'
    OBVIOUS
  <2> USE DEF TypeOK, history
  <2>1. ASSUME NEW p \in queue, DropDeep(p) PROVE TypeOK'
    BY <2>1 DEF DropDeep, Queries
  <2>2. ASSUME NEW p \in queue, Expand(p) PROVE TypeOK'
    <3>1. \A e \in Leading(Fresh(p)) : Append(p, e) \in Seq(Edges)
      BY AppendProperties DEF Leading, Fresh
    <3>2. visited' \subseteq Nodes
      BY <2>2, GraphAssumption DEF GraphAssumption, Expand, Fresh
    <3>3. queue' \subseteq Seq(Edges)
      BY <2>2, <3>1 DEF Expand
    <3>4. UNCHANGED <<graph, ever, steady, changes, query, result, outcome, Queries>>
      BY <2>2 DEF Expand, Queries
    <3> QED
      BY <3>2, <3>3, <3>4
  <2>3. ASSUME NEW p \in queue, NEW e \in Edges, ReachTarget(p, e) PROVE TypeOK'
    <3>1. result' \in Seq(Edges)
      BY <2>3, AppendProperties DEF ReachTarget
    <3> QED
      BY <2>3, <3>1 DEF ReachTarget, Queries
  <2>4. CASE GiveUp
    BY <2>4 DEF GiveUp, Queries
  <2>5. CASE Cancel
    BY <2>5 DEF Cancel, Queries
  <2>6. CASE GraphChanges
    BY <2>6, QueryAssumption DEF GraphChanges, Queries
  <2>7. CASE UNCHANGED vars
    BY <2>7 DEF vars, Queries
  <2> QED
    BY <2>1, <2>2, <2>3, <2>4, <2>5, <2>6, <2>7 DEF Next, Search
<1> QED
  BY <1>1, <1>2, PTL DEF Spec

-----------------------------------------------------------------------------
\* The edges stored throughout are stored now, and those were seen.
HistoryInv == steady \subseteq graph /\ graph \subseteq ever

\* A path of the queue is what a result must be, except that it may lead
\* anywhere; the nodes it meets are visited, so what extends it is new to it.
QueueInv ==
  /\ query.from \in visited
  /\ \A p \in queue :
       /\ Len(p) <= MaxDepth
       /\ IsWalk(p, query.from, ever, query.min)
       /\ IsSimple(p, query.from)
       /\ Targets(p) \subseteq visited

\* An edge the loop does not skip makes a path of the queue one edge longer.
LEMMA Extended ==
  ASSUME TypeOK, HistoryInv, QueueInv,
         NEW p \in queue, Len(p) < MaxDepth, NEW e \in Fresh(p)
  PROVE  /\ Append(p, e) # <<>> /\ Len(Append(p, e)) <= MaxDepth
         /\ IsWalk(Append(p, e), query.from, ever, query.min)
         /\ IsSimple(Append(p, e), query.from)
         /\ End(query.from, Append(p, e)) = Target[e]
         /\ Targets(Append(p, e)) \subseteq visited \cup {Target[e]}
<1>1. p \in Seq(Edges) /\ e \in Edges /\ e \in ever
  BY DEF TypeOK, HistoryInv, Fresh
<1>2. MaxDepth \in Nat
  BY QueryType DEF TypeOK
<1>3. Append(p, e) # <<>> /\ Len(Append(p, e)) <= MaxDepth
  BY <1>1, <1>2, AppendProperties, LenProperties
<1>4. IsWalk(Append(p, e), query.from, ever, query.min)
  BY <1>1, WalkAppend DEF QueueInv, Fresh
<1>5. IsSimple(Append(p, e), query.from)
  BY <1>1, SimpleAppend DEF QueueInv, Fresh
<1> QED
  BY <1>1, <1>3, <1>4, <1>5, EndOfAppend DEF QueueInv

LEMMA PathsInit == Init => HistoryInv /\ QueueInv /\ FoundIsPath
<1> SUFFICES ASSUME Init PROVE HistoryInv /\ QueueInv /\ FoundIsPath
  OBVIOUS
<1>1. MaxDepth \in Nat
  BY QueryType DEF Init
<1>2. Len(<<>>) = 0 /\ Targets(<<>>) = {}
  BY EmptySeq DEF Targets
<1> QED
  BY <1>1, <1>2 DEF Init, HistoryInv, QueueInv, FoundIsPath, IsWalk, IsSimple

LEMMA PathsStep ==
  TypeOK /\ HistoryInv /\ QueueInv /\ FoundIsPath /\ [Next]_vars
    => HistoryInv' /\ QueueInv' /\ FoundIsPath'
<1> SUFFICES ASSUME TypeOK, HistoryInv, QueueInv, FoundIsPath, [Next]_vars
             PROVE  HistoryInv' /\ QueueInv' /\ FoundIsPath'
  OBVIOUS
<1> USE DEF history
<1>1. ASSUME NEW p \in queue, DropDeep(p) PROVE HistoryInv' /\ QueueInv' /\ FoundIsPath'
  BY <1>1 DEF DropDeep, HistoryInv, QueueInv, FoundIsPath, MaxDepth
<1>2. ASSUME outcome = "searching", NEW p \in queue, Expand(p)
      PROVE  HistoryInv' /\ QueueInv' /\ FoundIsPath'
  <2>1. UNCHANGED <<graph, ever, steady, query, result, outcome, MaxDepth>>
    BY <1>2 DEF Expand, MaxDepth
  <2>2. visited \subseteq visited' /\ \A e \in Fresh(p) : Target[e] \in visited'
    BY <1>2 DEF Expand
  <2>3. ASSUME NEW q \in queue'
        PROVE  /\ Len(q) <= MaxDepth
               /\ IsWalk(q, query.from, ever, query.min)
               /\ IsSimple(q, query.from)
               /\ Targets(q) \subseteq visited'
    <3>1. CASE q \in queue
      BY <2>2, <3>1 DEF QueueInv
    <3>2. CASE q \notin queue
      <4>1. PICK e \in Fresh(p) : q = Append(p, e)
        BY <1>2, <3>2 DEF Expand, Leading
      <4> QED
        BY <1>2, <2>2, <4>1, Extended DEF Expand
    <3> QED
      BY <3>1, <3>2
  <2> QED
    BY <1>2, <2>1, <2>2, <2>3 DEF HistoryInv, QueueInv, FoundIsPath
<1>3. ASSUME NEW p \in queue, NEW e \in Edges, ReachTarget(p, e)
      PROVE  HistoryInv' /\ QueueInv' /\ FoundIsPath'
  <2>1. UNCHANGED <<graph, ever, steady, query, queue, visited, MaxDepth>>
    BY <1>3 DEF ReachTarget, MaxDepth
  <2>2. e \in Fresh(p) /\ Len(p) < MaxDepth /\ result' = Append(p, e) /\ Target[e] = query.to
    BY <1>3 DEF ReachTarget, Leading
  <2> QED
    BY <2>1, <2>2, Extended DEF HistoryInv, QueueInv, FoundIsPath
<1>4. CASE GiveUp \/ Cancel
  BY <1>4 DEF GiveUp, Cancel, HistoryInv, QueueInv, FoundIsPath, MaxDepth
<1>5. CASE GraphChanges
  <2>1. UNCHANGED <<query, queue, visited, result, outcome, MaxDepth>> /\ ever \subseteq ever'
    BY <1>5 DEF GraphChanges, MaxDepth
  <2>2. \A p \in queue : IsWalk(p, query.from, ever', query.min)
    BY <2>1, WalkMonotone DEF QueueInv
  <2> QED
    BY <1>5, <2>1, <2>2 DEF GraphChanges, HistoryInv, QueueInv, FoundIsPath
<1>6. CASE UNCHANGED vars
  BY <1>6 DEF vars, HistoryInv, QueueInv, FoundIsPath, MaxDepth
<1> QED
  BY <1>1, <1>2, <1>3, <1>4, <1>5, <1>6 DEF Next, Search

LEMMA PathsInvariant == Spec => [](TypeOK /\ HistoryInv /\ QueueInv /\ FoundIsPath)
BY TypeCorrect, PathsInit, PathsStep, PTL DEF Spec

\* What ShortestPath returns is a path: connected, of edges it saw and may
\* follow, without a cycle, within MaxDepth, from the source to the target.
THEOREM FoundIsPathCorrect == Spec => []FoundIsPath
BY PathsInvariant, PTL

-----------------------------------------------------------------------------
\* A walk from the source along edges stored throughout.
SteadyWalk(w) == w \in Seq(steady) /\ IsWalk(w, query.from, steady, query.min)

\* The search is at level n: the queue holds paths of n edges and, behind them,
\* of n + 1; what n steady edges reach is visited, and not waiting at the next
\* level; and short of MaxDepth a steady edge out of a visited node leads to a
\* visited node, unless that node is still waiting to be expanded.
Level(n) ==
  /\ \A q \in queue : Len(q) \in {n, n + 1}
  /\ \A w : SteadyWalk(w) /\ Len(w) <= n =>
       /\ End(query.from, w) \in visited
       /\ \A q \in queue : Len(q) = n + 1 => End(query.from, q) # End(query.from, w)
  /\ n < MaxDepth =>
       \A e \in steady : ConfidenceOK(e, query.min) /\ Source[e] \in visited =>
         \/ Target[e] \in visited
         \/ \E q \in queue : End(query.from, q) = Source[e]

LevelInv ==
  outcome = "searching" =>
    /\ \E n \in Nat : Level(n)
    /\ query.from # query.to => query.to \notin visited

\* The level is the length of the head: when the last path of a level has left
\* the queue, the next level holds everything one steady edge further.
LEMMA LevelOfHead ==
  ASSUME TypeOK, QueueInv, NEW n \in Nat, Level(n), NEW p \in queue, IsHead(p)
  PROVE  Len(p) \in Nat /\ Level(Len(p))
<1>1. Len(p) \in Nat /\ Len(p) \in {n, n + 1} /\ \A q \in queue : Len(q) \in Nat
  BY LenProperties DEF TypeOK, Level
<1>2. CASE Len(p) = n
  BY <1>1, <1>2
<1>3. CASE Len(p) = n + 1
  <2>1. \A q \in queue : Len(q) = n + 1
    BY <1>1, <1>3 DEF IsHead, Level
  <2>2. n < MaxDepth
    BY <1>1, <1>3, QueryType DEF TypeOK, QueueInv
  <2>3. ASSUME NEW w, SteadyWalk(w), Len(w) <= n + 1 PROVE End(query.from, w) \in visited
    <3>1. w \in Seq(steady) /\ Len(w) \in Nat
      BY <2>3, LenProperties DEF SteadyWalk
    <3>2. CASE Len(w) <= n
      BY <2>3, <3>2 DEF Level
    <3>3. CASE Len(w) = n + 1
      <4>1. w # <<>>
        BY <3>3, EmptySeq
      <4>2. PICK v \in Seq(steady), e \in steady : w = Append(v, e)
        BY <3>1, <4>1, SequenceEmptyOrAppend
      <4>3. v \in Seq(Edges) /\ e \in Edges
        BY SeqMonotonic DEF TypeOK
      <4>4. Len(v) <= n
        BY <3>3, <4>2, AppendProperties, LenProperties
      <4>5. /\ SteadyWalk(v)
            /\ ConfidenceOK(e, query.min) /\ Source[e] = End(query.from, v)
        BY <2>3, <4>2, <4>3, WalkFront DEF SteadyWalk
      <4>6. /\ Source[e] \in visited
            /\ \A q \in queue : End(query.from, q) # Source[e]
        BY <2>1, <4>4, <4>5 DEF Level
      <4>7. Target[e] \in visited
        BY <2>2, <4>5, <4>6 DEF Level
      <4> QED
        BY <4>2, <4>3, <4>7, EndOfAppend
    <3> QED
      BY <2>3, <3>1, <3>2, <3>3
  <2>4. Level(n + 1)
    BY <2>1, <2>2, <2>3 DEF Level
  <2> QED
    BY <1>1, <1>3, <2>4
<1> QED
  BY <1>1, <1>2, <1>3

\* Of the fresh edges to one node the loop appends the first.
LEMMA LeadingExists ==
  ASSUME TypeOK, NEW p, NEW f \in Fresh(p)
  PROVE  \E e \in Leading(Fresh(p)) : Target[e] = Target[f]
<1> DEFINE rivals == {e \in Fresh(p) : Target[e] = Target[f]}
<1>1. rivals \subseteq Nat /\ rivals # {}
  BY GraphAssumption DEF GraphAssumption, TypeOK, Fresh
<1>2. PICK e \in rivals : \A g \in rivals : e <= g
  BY <1>1, LeastNatural
<1> QED
  BY <1>2 DEF Leading

LEMMA LevelExpand ==
  ASSUME TypeOK, HistoryInv, QueueInv,
         NEW p \in queue, Level(Len(p)), Expand(p)
  PROVE  Level(Len(p))'
<1> DEFINE n == Len(p)
<1>1. UNCHANGED <<steady, query, MaxDepth>> /\ n \in Nat /\ p \in Seq(Edges)
  BY LenProperties DEF Expand, history, MaxDepth, TypeOK
<1>2. /\ visited \subseteq visited'
      /\ \A e \in Fresh(p) : Target[e] \in visited' /\ Target[e] \notin visited /\ e \in Edges
      /\ \A u \in visited' : u \in visited \/ \E e \in Fresh(p) : u = Target[e]
  BY DEF Expand, Fresh, TypeOK
<1>3. \A q \in queue' :
        \/ q \in queue
        \/ \E e \in Fresh(p) : Len(q) = n + 1 /\ End(query.from, q) = Target[e]
  <2> SUFFICES ASSUME NEW q \in queue', q \notin queue
               PROVE  \E e \in Fresh(p) : Len(q) = n + 1 /\ End(query.from, q) = Target[e]
    OBVIOUS
  <2>1. PICK e \in Fresh(p) : q = Append(p, e)
    BY DEF Expand, Leading
  <2> QED
    BY <1>1, <1>2, <2>1, EndOfAppend, AppendProperties
<1>4. \A q \in queue' : Len(q) \in {n, n + 1}
  BY <1>3 DEF Level
<1>5. ASSUME NEW w, SteadyWalk(w), Len(w) <= n
      PROVE  /\ End(query.from, w) \in visited'
             /\ \A q \in queue' : Len(q) = n + 1 => End(query.from, q) # End(query.from, w)
  BY <1>2, <1>3, <1>5 DEF Level
<1>6. ASSUME NEW e \in steady, ConfidenceOK(e, query.min), Source[e] \in visited'
      PROVE  \/ Target[e] \in visited'
             \/ \E q \in queue' : End(query.from, q) = Source[e]
  <2>1. CASE Source[e] \in visited
    <3>1. CASE Target[e] \in visited
      BY <1>2, <3>1
    <3>2. CASE Target[e] \notin visited
      <4>1. PICK q \in queue : End(query.from, q) = Source[e]
        BY <1>6, <2>1, <3>2 DEF Level, Expand
      <4>2. CASE q = p
        <5>1. e \in Fresh(p)
          BY <1>6, <3>2, <4>1, <4>2 DEF Fresh, HistoryInv
        <5> QED
          BY <1>2, <5>1
      <4>3. CASE q # p
        BY <4>1, <4>3 DEF Expand
      <4> QED
        BY <4>2, <4>3
    <3> QED
      BY <3>1, <3>2
  <2>2. CASE Source[e] \notin visited
    <3>1. PICK f \in Fresh(p) : Source[e] = Target[f]
      BY <1>2, <1>6, <2>2
    <3>2. PICK g \in Leading(Fresh(p)) : Target[g] = Source[e]
      BY <3>1, LeadingExists
    <3>3. Append(p, g) \in queue' /\ End(query.from, Append(p, g)) = Source[e]
      BY <1>1, <1>2, <3>2, EndOfAppend DEF Expand, Leading
    <3> QED
      BY <3>3
  <2> QED
    BY <2>1, <2>2
<1> QED
  BY <1>1, <1>4, <1>5, <1>6 DEF Level, SteadyWalk

\* The property in terms of steady walks.
BestFound ==
  outcome \in {"found", "none"} /\ query.from # query.to =>
    \A w : SteadyWalk(w) /\ Len(w) <= MaxDepth /\ End(query.from, w) = query.to
             => outcome = "found" /\ Len(result) <= Len(w)

LEMMA SteadyInit == Init => LevelInv /\ BestFound
<1> SUFFICES ASSUME Init PROVE LevelInv /\ BestFound
  OBVIOUS
<1>1. Len(<<>>) = 0 /\ \A q \in queue : End(query.from, q) = query.from
  BY DEF Init, End
<1>2. ASSUME NEW w, SteadyWalk(w), Len(w) <= 0 PROVE End(query.from, w) = query.from
  BY <1>2, EmptySeq DEF SteadyWalk, End
<1>3. Level(0)
  BY <1>1, <1>2 DEF Init, Level
<1> QED
  BY <1>3 DEF Init, LevelInv, BestFound

LEMMA SteadyStep ==
  TypeOK /\ HistoryInv /\ QueueInv /\ LevelInv /\ BestFound /\ [Next]_vars
    => LevelInv' /\ BestFound'
<1> SUFFICES ASSUME TypeOK, HistoryInv, QueueInv, LevelInv, BestFound, [Next]_vars
             PROVE  LevelInv' /\ BestFound'
  OBVIOUS
<1> USE DEF history
<1>1. ASSUME outcome = "searching", NEW p \in queue, IsHead(p)
      PROVE  Len(p) \in Nat /\ Level(Len(p))
  BY <1>1, LevelOfHead DEF LevelInv
<1>2. ASSUME outcome = "searching", NEW p \in queue, IsHead(p), DropDeep(p)
      PROVE  LevelInv' /\ BestFound'
  <2>1. Len(p) \in Nat /\ Level(Len(p)) /\ MaxDepth \in Nat
    BY <1>1, <1>2, QueryType DEF TypeOK
  <2>2. UNCHANGED <<steady, query, MaxDepth, visited, outcome>> /\ queue' \subseteq queue
    BY <1>2 DEF DropDeep, MaxDepth
  <2>3. Level(Len(p))'
    BY <1>2, <2>1, <2>2 DEF DropDeep, Level, SteadyWalk
  <2> QED
    BY <1>2, <2>1, <2>2, <2>3 DEF LevelInv, BestFound
<1>3. ASSUME outcome = "searching", NEW p \in queue, IsHead(p), Expand(p)
      PROVE  LevelInv' /\ BestFound'
  <2>1. Len(p) \in Nat /\ Level(Len(p))'
    BY <1>1, <1>3, LevelExpand
  <2>2. query.from # query.to => query'.to \notin visited'
    BY <1>3 DEF Expand, LevelInv
  <2> QED
    BY <1>3, <2>1, <2>2 DEF Expand, LevelInv, BestFound
<1>4. ASSUME outcome = "searching", NEW p \in queue, IsHead(p),
             NEW e \in Edges, ReachTarget(p, e)
      PROVE  LevelInv' /\ BestFound'
  <2>1. Len(p) \in Nat /\ Level(Len(p)) /\ p \in Seq(Edges)
    BY <1>1, <1>4 DEF TypeOK
  <2>2. UNCHANGED <<steady, query, MaxDepth>> /\ outcome' = "found" /\ Len(result') = Len(p) + 1
    BY <1>4, <2>1, AppendProperties DEF ReachTarget, MaxDepth
  <2>3. ASSUME query.from # query.to, NEW w, SteadyWalk(w), End(query.from, w) = query.to
        PROVE  Len(p) + 1 <= Len(w)
    <3>1. ~ (Len(w) <= Len(p))
      BY <1>4, <2>1, <2>3 DEF Level, LevelInv
    <3> QED
      BY <2>1, <2>3, <3>1, LenProperties DEF SteadyWalk
  <2> QED
    BY <2>2, <2>3 DEF LevelInv, BestFound, SteadyWalk
<1>5. ASSUME outcome = "searching", GiveUp PROVE LevelInv' /\ BestFound'
  <2>1. PICK n \in Nat : Level(n)
    BY <1>5 DEF LevelInv
  <2>2. ASSUME NEW w, SteadyWalk(w), Len(w) <= MaxDepth PROVE End(query.from, w) \in visited
    <3>1. CASE n < MaxDepth
      <4>1. \A e \in steady : ConfidenceOK(e, query.min) /\ Source[e] \in visited
                                => Target[e] \in visited
        BY <1>5, <2>1, <3>1 DEF GiveUp, Level
      <4> QED
        BY <2>2, <4>1, ClosedUnderWalks DEF TypeOK, QueueInv, SteadyWalk
    <3>2. CASE ~ (n < MaxDepth)
      <4>1. Len(w) <= n
        BY <2>2, <3>2, LenProperties, QueryType DEF TypeOK, SteadyWalk
      <4> QED
        BY <2>1, <2>2, <4>1 DEF Level
    <3> QED
      BY <3>1, <3>2
  <2>3. UNCHANGED <<steady, query, MaxDepth>> /\ outcome' = "none"
    BY <1>5 DEF GiveUp, MaxDepth
  <2> QED
    BY <1>5, <2>2, <2>3 DEF LevelInv, BestFound, SteadyWalk
<1>6. CASE Cancel
  BY <1>6 DEF Cancel, LevelInv, BestFound
<1>7. CASE GraphChanges
  <2>1. /\ UNCHANGED <<query, queue, visited, result, outcome, MaxDepth>>
        /\ steady' \subseteq steady /\ outcome = "searching"
    BY <1>7 DEF GraphChanges, MaxDepth
  <2>2. ASSUME NEW w, SteadyWalk(w)' PROVE SteadyWalk(w)
    BY <2>1, <2>2, SeqMonotonic, WalkMonotone DEF SteadyWalk
  <2>3. ASSUME NEW n \in Nat, Level(n) PROVE Level(n)'
    BY <2>1, <2>2, <2>3 DEF Level
  <2> QED
    BY <2>1, <2>3 DEF LevelInv, BestFound
<1>8. CASE UNCHANGED vars
  BY <1>8 DEF vars, LevelInv, BestFound, Level, SteadyWalk, MaxDepth
<1> QED
  BY <1>2, <1>3, <1>4, <1>5, <1>6, <1>7, <1>8 DEF Next, Search

LEMMA BestIsSteadyPathFound == TypeOK /\ BestFound => SteadyPathFound
<1> SUFFICES ASSUME TypeOK, BestFound,
                    outcome \in {"found", "none"}, query.from # query.to,
                    NEW p \in Sequences(steady, MaxDepth),
                    IsWalk(p, query.from, steady, query.min),
                    End(query.from, p) = query.to
             PROVE  outcome = "found" /\ Len(result) <= Len(p)
  BY DEF SteadyPathFound
<1>1. MaxDepth \in Nat
  BY QueryType DEF TypeOK
<1>2. PICK k \in 1..MaxDepth : p \in [1..k -> steady]
  BY DEF Sequences
<1>3. p \in Seq(steady) /\ Len(p) = k
  BY <1>1, <1>2
<1> QED
  BY <1>1, <1>2, <1>3 DEF BestFound, SteadyWalk

\* A path that is stored from beginning to end of the search is found, or one
\* as short, whatever another process does to the rest of the graph meanwhile.
THEOREM SteadyPathFoundCorrect == Spec => []SteadyPathFound
<1>1. Spec => [](LevelInv /\ BestFound)
  BY PathsInvariant, SteadyInit, SteadyStep, PTL DEF Spec
<1> QED
  BY <1>1, TypeCorrect, BestIsSteadyPathFound, PTL

-----------------------------------------------------------------------------
(* Server *)

ServeTypes ==
  /\ transport \in {"stdio", "http"}
  /\ state \in [Serve!Messages -> {"sent", "active", "left", "answered"}]
  /\ output \in Seq(Serve!Messages)

\* The answers are those of the requests answered, each once.
OutputInv ==
  /\ \A m \in Serve!Messages : state[m] = "answered" <=> \E i \in 1..Len(output) : output[i] = m
  /\ \A i, j \in 1..Len(output) : output[i] = output[j] => i = j
  /\ \A i \in 1..Len(output) : kind[output[i]] = "call"

\* On stdin messages are received in their order, and one is handled at a time, the last
\* that was received; no request is left without an answer.
TurnInv ==
  transport = "stdio" =>
    /\ \A m \in Serve!Messages : \A before \in 1..(m - 1) : state[m] # "sent" => state[before] # "sent"
    /\ \A m \in Serve!Messages : \A before \in 1..(m - 1) : state[before] = "active" => state[m] = "sent"
    /\ \A m \in Serve!Messages : kind[m] = "call" => state[m] # "left"

AnswerOrderInv ==
  transport = "stdio" =>
    /\ \A i, j \in 1..Len(output) : i < j => output[i] < output[j]
    /\ \A i \in 1..Len(output), m \in Serve!Messages :
         kind[m] = "call" /\ m < output[i] => \E j \in 1..i : output[j] = m

ServeInv == ServeTypes /\ OutputInv /\ TurnInv /\ AnswerOrderInv

LEMMA MessagesAre == Count \in Nat /\ Serve!Messages = 1..Count
BY ServingAssumption DEF Serve!ServerAssumption, Serve!Messages

LEMMA ServeInit == Serve!Init => ServeInv
<1> SUFFICES ASSUME Serve!Init PROVE ServeInv
  OBVIOUS
<1>1. /\ transport \in {"stdio", "http"} /\ state = [m \in Serve!Messages |-> "sent"] /\ output = <<>>
  BY DEF Serve!Init
<1>2. Len(output) = 0 /\ output \in Seq(Serve!Messages)
  BY <1>1, EmptySeq
<1>3. \A m \in Serve!Messages : \A before \in 1..(m - 1) : before \in Serve!Messages
  BY MessagesAre
<1> QED
  BY <1>1, <1>2, <1>3 DEF ServeInv, ServeTypes, OutputInv, TurnInv, AnswerOrderInv

\* What leaves messages and answers alone.
LEMMA ServeStays ==
  ASSUME ServeInv, UNCHANGED <<transport, kind, state, output>>
  PROVE  ServeInv'
BY DEF ServeInv, ServeTypes, OutputInv, TurnInv, AnswerOrderInv

LEMMA ReceiveStep ==
  ASSUME ServeInv, NEW m \in Serve!Messages, Serve!Receive(m)
  PROVE  ServeInv'
<1>1. /\ state[m] = "sent" /\ UNCHANGED <<transport, kind, output>>
      /\ state' = [state EXCEPT ![m] = IF Serve!Understood(m) THEN "active" ELSE "left"]
  BY DEF Serve!Receive, Serve!IsTurn, Serve!message
<1>2. /\ ServeTypes' /\ state'[m] \in {"active", "left"}
      /\ kind[m] = "call" => state'[m] = "active"
      /\ \A k \in Serve!Messages \ {m} : state'[k] = state[k]
  BY <1>1 DEF ServeInv, ServeTypes, Serve!Understood
<1>3. OutputInv'
  <2>1. \A k \in Serve!Messages : state'[k] = "answered" <=> state[k] = "answered"
    BY <1>1, <1>2
  <2> QED
    BY <1>1, <2>1 DEF ServeInv, OutputInv
<1>4. ASSUME transport = "stdio"
      PROVE  /\ \A k \in Serve!Messages : state[k] # "active"
             /\ \A before \in 1..(m - 1) : state[before] # "sent"
  BY <1>4 DEF Serve!Receive, Serve!IsTurn, Serve!Active
<1>5. TurnInv'
  <2> SUFFICES ASSUME transport = "stdio", NEW k \in Serve!Messages
               PROVE  /\ \A before \in 1..(k - 1) : state'[k] # "sent" => state'[before] # "sent"
                      /\ \A before \in 1..(k - 1) : state'[before] = "active" => state'[k] = "sent"
                      /\ kind[k] = "call" => state'[k] # "left"
    BY <1>1 DEF TurnInv
  <2>1. \A before \in 1..(k - 1) : before \in Serve!Messages /\ before # k
    BY MessagesAre
  <2>2. \A before \in 1..(k - 1) : state'[k] # "sent" => state'[before] # "sent"
    BY <1>2, <1>4, <2>1 DEF ServeInv, TurnInv
  <2>3. ASSUME NEW before \in 1..(k - 1), state'[before] = "active" PROVE state'[k] = "sent"
    <3>1. before = m
      BY <1>2, <1>4, <2>1, <2>3
    <3>2. state[k] = "sent"
      BY <1>1, <3>1 DEF ServeInv, ServeTypes, TurnInv
    <3> QED
      BY <1>2, <2>1, <3>1, <3>2
  <2>4. kind[k] = "call" => state'[k] # "left"
    BY <1>2 DEF ServeInv, TurnInv
  <2> QED
    BY <2>2, <2>3, <2>4
<1>6. AnswerOrderInv'
  BY <1>1 DEF ServeInv, AnswerOrderInv
<1> QED
  BY <1>2, <1>3, <1>5, <1>6 DEF ServeInv

LEMMA AnswerStep ==
  ASSUME ServeInv, NEW m \in Serve!Messages, Serve!Answer(m)
  PROVE  ServeInv'
<1> DEFINE answers == kind[m] = "call" /\ ~ (transport = "http" /\ ended)
           n == Len(output)
<1>1. /\ state[m] = "active" /\ UNCHANGED <<transport, kind>>
      /\ state' = [state EXCEPT ![m] = IF answers THEN "answered" ELSE "left"]
      /\ output' = IF answers THEN Append(output, m) ELSE output
  BY DEF Serve!Answer, Serve!Active, Serve!message
<1>2. /\ output \in Seq(Serve!Messages) /\ n \in Nat /\ \A i \in 1..n : output[i] \in Serve!Messages
      /\ \A k \in Serve!Messages : state'[k] = IF k = m THEN (IF answers THEN "answered" ELSE "left") ELSE state[k]
  BY <1>1 DEF ServeInv, ServeTypes
<1>3. transport = "stdio" /\ kind[m] = "call" => answers
  OBVIOUS
<1> HIDE DEF answers, n
<1>4. ServeTypes'
  BY <1>1, <1>2, AppendProperties DEF ServeInv, ServeTypes
<1>5. TurnInv'
  <2> SUFFICES ASSUME transport = "stdio", NEW k \in Serve!Messages
               PROVE  /\ \A before \in 1..(k - 1) : state'[k] # "sent" => state'[before] # "sent"
                      /\ \A before \in 1..(k - 1) : state'[before] = "active" => state'[k] = "sent"
                      /\ kind[k] = "call" => state'[k] # "left"
    BY <1>1 DEF TurnInv
  <2>1. \A before \in 1..(k - 1) : before \in Serve!Messages /\ before # k
    BY MessagesAre
  <2>2. /\ \A before \in 1..(k - 1) : state[k] # "sent" => state[before] # "sent"
        /\ \A before \in 1..(k - 1) : state[before] = "active" => state[k] = "sent"
        /\ kind[k] = "call" => state[k] # "left"
    BY DEF ServeInv, TurnInv
  <2> QED
    BY <1>1, <1>2, <1>3, <2>1, <2>2
<1>6. CASE ~ answers
  <2>1. output' = output /\ \A k \in Serve!Messages : state'[k] = "answered" <=> state[k] = "answered"
    BY <1>1, <1>2, <1>6
  <2>2. OutputInv'
    BY <1>1, <2>1 DEF ServeInv, OutputInv
  <2>3. AnswerOrderInv'
    BY <1>1, <2>1 DEF ServeInv, AnswerOrderInv
  <2> QED
    BY <1>4, <1>5, <2>2, <2>3 DEF ServeInv
<1>7. CASE answers
  <2>1. /\ Len(output') = n + 1 /\ output'[n + 1] = m /\ kind[m] = "call"
        /\ \A i \in 1..n : output'[i] = output[i]
    BY <1>1, <1>2, <1>7, AppendProperties DEF answers, n
  <2>2. /\ \A k \in Serve!Messages : state[k] = "answered" <=> \E i \in 1..n : output[i] = k
        /\ \A i, j \in 1..n : output[i] = output[j] => i = j
        /\ \A i \in 1..n : kind[output[i]] = "call" /\ output[i] # m
    BY <1>1, <1>2 DEF ServeInv, OutputInv, n
  <2>3. OutputInv'
    <3>1. \A k \in Serve!Messages : state'[k] = "answered" <=> \E i \in 1..(n + 1) : output'[i] = k
      BY <1>2, <1>7, <2>1, <2>2
    <3>2. \A i, j \in 1..(n + 1) : output'[i] = output'[j] => i = j
      BY <1>2, <2>1, <2>2
    <3>3. \A i \in 1..(n + 1) : kind[output'[i]] = "call"
      BY <1>2, <2>1, <2>2
    <3> QED
      BY <1>1, <2>1, <3>1, <3>2, <3>3 DEF OutputInv
  <2>4. AnswerOrderInv'
    <3> SUFFICES ASSUME transport = "stdio"
                 PROVE  /\ \A i, j \in 1..(n + 1) : i < j => output'[i] < output'[j]
                        /\ \A i \in 1..(n + 1), k \in Serve!Messages :
                             kind[k] = "call" /\ k < output'[i] => \E j \in 1..i : output'[j] = k
      BY <1>1, <2>1 DEF AnswerOrderInv
    <3>1. /\ \A i, j \in 1..n : i < j => output[i] < output[j]
          /\ \A i \in 1..n, k \in Serve!Messages :
               kind[k] = "call" /\ k < output[i] => \E j \in 1..i : output[j] = k
      BY DEF ServeInv, AnswerOrderInv, n
    <3>2. \A i \in 1..n : output[i] < m
      <4> SUFFICES ASSUME NEW i \in 1..n, m < output[i] PROVE FALSE
        BY <1>2, <2>2, MessagesAre
      <4>1. m \in 1..(output[i] - 1) /\ output[i] \in Serve!Messages
        BY <1>2, MessagesAre
      <4>2. state[output[i]] = "sent" /\ state[output[i]] = "answered"
        BY <1>1, <1>2, <2>2, <4>1 DEF ServeInv, TurnInv
      <4> QED
        BY <4>2
    <3>3. ASSUME NEW k \in Serve!Messages, kind[k] = "call", k < m PROVE \E j \in 1..n : output[j] = k
      <4>1. k \in 1..(m - 1)
        BY <3>3, MessagesAre
      <4>2. state[k] # "sent" /\ state[k] # "active" /\ state[k] # "left"
        BY <1>1, <3>3, <4>1 DEF ServeInv, TurnInv
      <4>3. state[k] = "answered"
        BY <4>2 DEF ServeInv, ServeTypes
      <4> QED
        BY <2>2, <4>3
    <3>4. \A i, j \in 1..(n + 1) : i < j => output'[i] < output'[j]
      BY <1>2, <2>1, <3>1, <3>2
    <3>5. ASSUME NEW i \in 1..(n + 1), NEW k \in Serve!Messages, kind[k] = "call", k < output'[i]
          PROVE  \E j \in 1..i : output'[j] = k
      <4>1. CASE i = n + 1
        BY <1>2, <2>1, <3>3, <3>5, <4>1
      <4>2. CASE i # n + 1
        <5>1. i \in 1..n /\ \A j \in 1..i : j \in 1..n
          BY <1>2, <4>2
        <5> QED
          BY <2>1, <3>1, <3>5, <5>1
      <4> QED
        BY <4>1, <4>2
    <3> QED
      BY <3>4, <3>5
  <2> QED
    BY <1>4, <1>5, <2>3, <2>4 DEF ServeInv
<1> QED
  BY <1>6, <1>7

LEMMA ServeInvariant == Serve!Spec => []ServeInv
<1>1. ServeInv /\ [Serve!Next]_(Serve!vars) => ServeInv'
  <2> SUFFICES ASSUME ServeInv, [Serve!Next]_(Serve!vars) PROVE ServeInv'
    OBVIOUS
  <2>1. ASSUME NEW m \in Serve!Messages,
               Serve!Acquire(m) \/ Serve!ReadRows(m) \/ Serve!Error(m)
        PROVE  ServeInv'
    BY <2>1, ServeStays DEF Serve!Acquire, Serve!ReadRows, Serve!Error, Serve!message
  <2>2. CASE Serve!LoopEnds \/ Serve!Interrupt \/ Serve!Close \/ UNCHANGED Serve!vars
    BY <2>2, ServeStays DEF Serve!LoopEnds, Serve!Interrupt, Serve!Close, Serve!vars, Serve!message
  <2> QED
    BY <2>1, <2>2, ReceiveStep, AnswerStep DEF Serve!Next, Serve!Handle
<1> QED
  BY <1>1, ServeInit, PTL DEF Serve!Spec

\* Exactly the requests done with are answered, each once, whatever was interrupted or
\* failed; and line by line in their order, for any number of messages of any kinds.
THEOREM AnswersInOrderCorrect == Serve!Spec => []AnswersInOrder
<1>1. ServeInv => AnswersInOrder
  <2> SUFFICES ASSUME ServeInv PROVE Serve!AnswersInOrder
    BY DEF AnswersInOrder
  <2>1. DOMAIN output = 1..Len(output)
    BY LenProperties DEF ServeInv, ServeTypes
  <2> QED
    BY <2>1 DEF ServeInv, OutputInv, AnswerOrderInv, Serve!AnswersInOrder
<1> QED
  BY <1>1, ServeInvariant, PTL
=============================================================================

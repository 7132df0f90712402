------------------------------- MODULE Paths -------------------------------
(***************************************************************************)
(* Paths through the stored graph: what ShortestPath and AllPaths search   *)
(* for.  An edge is its id; rows are read in id order.  The id determines  *)
(* the endpoints, and Edges holds the edges of the requested types only.   *)
(***************************************************************************)
EXTENDS Naturals, Sequences

CONSTANTS Nodes,
          Edges,        \* ids of the edges that may be stored
          Source,       \* Edges -> Nodes
          Target,       \* Edges -> Nodes
          Confidence    \* Edges -> Confidences

Confidences == {"definite", "possible", "unknown", "", "blocked"}

GraphAssumption ==
  /\ Edges \subseteq Nat
  /\ Source \in [Edges -> Nodes]
  /\ Target \in [Edges -> Nodes]
  /\ Confidence \in [Edges -> Confidences]
ASSUME GraphAssumption

Rank(c) ==
  CASE c = "definite" -> 3
    [] c = "possible" -> 2
    [] c \in {"unknown", ""} -> 1
    [] OTHER -> 0

\* Blocked edges are never followed; no minimum accepts everything else.
ConfidenceOK(e, min) ==
  /\ Confidence[e] # "blocked"
  /\ min = "" \/ Rank(Confidence[e]) >= Rank(min)

\* The node a path that starts at from leads to.
End(from, p) == IF p = <<>> THEN from ELSE Target[p[Len(p)]]

Targets(p) == {Target[p[i]] : i \in 1..Len(p)}

\* A walk that starts at from along stored edges of sufficient confidence.
IsWalk(p, from, stored, min) ==
  \A i \in 1..Len(p) :
    /\ p[i] \in stored
    /\ ConfidenceOK(p[i], min)
    /\ Source[p[i]] = IF i = 1 THEN from ELSE Target[p[i - 1]]

\* It meets no node twice.
IsSimple(p, from) ==
  /\ from \notin Targets(p)
  /\ \A i, j \in 1..Len(p) : Target[p[i]] = Target[p[j]] => i = j

\* The order in which a search that reads edges in id order meets two paths.
Precedes(p, q) ==
  \E i \in 1..Len(p) :
    /\ i <= Len(q) /\ p[i] < q[i]
    /\ \A j \in 1..(i - 1) : p[j] = q[j]

\* Every sequence of at most n of the stored edges, for the references only.
Sequences(stored, n) == UNION {[1..k -> stored] : k \in 1..n}
=============================================================================

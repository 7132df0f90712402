------------------------------ MODULE Querying ------------------------------
(***************************************************************************)
(* The depth-first search, and the queries of service.go, which make       *)
(* searches of the graph while it changes.  A query takes a search as one  *)
(* operation, so the two share no state while they run.                    *)
(***************************************************************************)
EXTENDS AllPaths

CONSTANTS QueryNodes, QueryEdges, QuerySource, QueryTarget, QueryConfidence,
          QueryType, Order, NameOf, PlaceOf, Internet,
          CrossAccount, ReachableFrom, PrivilegeEdges, Graphs,
          Commands, ToolCalls, QueryChanges

VARIABLES known, links, sometime, always, window, queryChanges, request, queryPc,
          source, target, todo, raws, fromNode, answers, lost

Query ==
  INSTANCE Queries WITH
    Nodes <- QueryNodes, Edges <- QueryEdges, Source <- QuerySource, Target <- QueryTarget,
    Confidence <- QueryConfidence, TypeOf <- QueryType, MaxChanges <- QueryChanges,
    nodes <- known, changes <- queryChanges, pc <- queryPc

ASSUME QueryingAssumption == Query!GraphAssumption /\ Query!QueryAssumption

-----------------------------------------------------------------------------
\* What could be reached all the time is listed, and nothing else (service.go).
ReachIsListed == Query!ReachIsListed

\* A better path comes first, and high severity rests on certainty (score.go).
RankingIsEarned == Query!RankingIsEarned
=============================================================================

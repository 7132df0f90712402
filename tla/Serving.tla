------------------------------- MODULE Serving -------------------------------
(***************************************************************************)
(* The MCP server, which runs the requests of its clients, and the breadth-*)
(* first search that several of them come down to.  They share the one     *)
(* connection to the store, which Server models, and no other state.       *)
(***************************************************************************)
EXTENDS ShortestPath

CONSTANTS Count, KindsOf, AskedOf, MaxRows, None

VARIABLES transport, kind, asked, state, statements, holder, output, interrupted, ended

Serve == INSTANCE Server

ASSUME ServingAssumption == Serve!ServerAssumption

-----------------------------------------------------------------------------
\* Requests are answered once, and on stdout in their order (mcp/server.go).
AnswersInOrder == Serve!AnswersInOrder
=============================================================================

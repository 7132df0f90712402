------------------------------ MODULE MCServer ------------------------------
(***************************************************************************)
(* The breadth-first search, and the server that runs queries.  A          *)
(* behaviour runs one of the two, on any of its inputs.                    *)
(*                                                                         *)
(* search: five nodes, with a short and a long way from a to d, a shortcut *)
(* of blocked confidence, a cycle, and confidences of every kind.          *)
(* server: two requests with a message of any kind between them, which ask *)
(* for nothing of the store, for rows, or for edges with their evidence.   *)
(***************************************************************************)
EXTENDS Serving

CONSTANTS a, b, c, d, e

VARIABLE active  \* the part that runs

searchVars == vars
serverVars == <<transport, kind, asked, state, statements, holder, output, interrupted, ended>>
allVars == <<active, searchVars, serverVars>>

-----------------------------------------------------------------------------
(* Inputs of ShortestPath *)

MCNodes == {a, b, c, d, e}
MCAsked == {<<a, d>>, <<a, a>>, <<c, b>>}
MCEdges == 1..7
MCSource == <<a, a, b, e, c, c, b>>
MCTarget == <<b, c, e, d, d, a, c>>
MCConfidence == <<"possible", "", "definite", "definite", "unknown", "definite", "blocked">>

-----------------------------------------------------------------------------
(* Inputs of Server *)

MCKinds == <<{"call"}, {"call", "notification", "blank", "bad", "long"}, {"call"}>>
Calls(tool) == [method |-> "tools/call", name |-> tool]
MCCalls ==
  [m \in 1..3 |-> {Calls("find_internet_exposed_resources")} \cup
     IF m = 2 THEN {[method |-> "ping", name |-> ""]} ELSE {[method |-> "resources/read", name |-> "inventory/summary"]}]

-----------------------------------------------------------------------------
\* The input given to the part that does not run.
NoSearch == graph = {} /\ query = CHOOSE q \in Queries : TRUE
NoServer == transport = "http" /\ kind = [m \in 1..3 |-> "call"] /\ asked = [m \in 1..3 |-> CHOOSE r \in MCCalls[m] : TRUE]

MCInit ==
  \/ active = "search" /\ Init /\ NoServer /\ Serve!Init
  \/ active = "server" /\ NoSearch /\ Init /\ Serve!Init

SearchStep == active = "search" /\ Search /\ UNCHANGED <<active, serverVars>>
SearchDisturbed == active = "search" /\ (Cancel \/ GraphChanges) /\ UNCHANGED <<active, serverVars>>
ServerStep == active = "server" /\ Serve!Next /\ UNCHANGED <<active, searchVars>>
HandleStep == active = "server" /\ Serve!Handle /\ UNCHANGED <<active, searchVars>>

MCSpec ==
  /\ MCInit /\ [][SearchStep \/ SearchDisturbed \/ ServerStep]_allVars
  /\ WF_allVars(SearchStep \/ HandleStep)

\* The search ends (ShortestPath).
SearchTerminates == active = "search" => Terminates

\* No request waits for ever, although all handlers share one connection (store.go).
EveryCallAnswered == Serve!EveryCallAnswered
=============================================================================

------------------------------- MODULE Server -------------------------------
(***************************************************************************)
(* The MCP server: requests that come line by line on stdin, handled one   *)
(* after the other, or by HTTP, each in a goroutine of its own; and the    *)
(* statements they run on the one connection that SetMaxOpenConns(1)       *)
(* leaves to the process.  A query holds the connection until its rows are *)
(* exhausted.  What an answer says is modelled in Queries.                 *)
(*                                                                         *)
(* Messages are numbered in the order of their lines.                      *)
(***************************************************************************)
EXTENDS Naturals, Sequences, FiniteSets

CONSTANTS Count,     \* of the messages a client sends
          KindsOf,   \* messages -> the kinds they may be of
          AskedOf,   \* messages -> the methods they may ask for, with their names
          MaxRows,   \* bound on the edges a query returns
          None

\* Assumed where the constants get their values.
ServerAssumption ==
  /\ Count \in Nat /\ MaxRows \in Nat
  /\ \A m \in 1..Count : KindsOf[m] \subseteq {"call", "notification", "blank", "bad", "long"}
  /\ None \notin 1..Count

Messages == 1..Count

VARIABLES transport,
          kind, asked,  \* of each message
          state,        \* of each message: sent, active, left (unanswered), answered
          statements,   \* what the handler of each message has still to run
          holder,       \* the handler whose rows are open
          output,       \* the answers, in the order they are written
          interrupted,  \* the context is cancelled
          ended         \* the loop has returned, or the HTTP server is closed

message == <<transport, kind, asked>>
vars == <<message, state, statements, holder, output, interrupted, ended>>

\* The queries a tool makes, for paths those of the search of one node.
ToolStatements(name) ==
  CASE name \in {"search_aws_resources", "list_security_findings"} -> <<"rows">>
    [] name \in {"get_security_finding", "export_attack_graph"} -> <<"rows", "rows">>
    [] name \in {"aws_identity", "get_collection_status", "get_aws_resource", "explain_graph_edge"} ->
         <<"rows", "rows", "rows">>
    [] name = "find_internet_exposed_resources" -> <<"edges", "rows">>
    [] name \in {"find_attack_paths", "find_privilege_escalation_paths",
                 "who_can_access_resource", "what_can_principal_access"} -> <<"rows", "edges", "rows">>

ResourceStatements(uri) ==
  CASE uri = "inventory/summary" -> <<"rows", "rows">>
    [] uri \in {"findings/open", "collection/latest"} -> <<"rows">>
    [] uri \in {"graph/schema", "rules"} -> <<>>

\* Other methods, and what is unknown, need no query.
Statements(ask) ==
  CASE ask.method = "tools/call" -> ToolStatements(ask.name)
    [] ask.method = "resources/read" -> ResourceStatements(ask.name)
    [] OTHER -> <<>>

Init ==
  /\ transport \in {"stdio", "http"}
  /\ kind \in [Messages -> UNION {KindsOf[m] : m \in Messages}] /\ \A m \in Messages : kind[m] \in KindsOf[m]
  /\ asked \in [Messages -> UNION {AskedOf[m] : m \in Messages}] /\ \A m \in Messages : asked[m] \in AskedOf[m]
  /\ state = [m \in Messages |-> "sent"]
  /\ statements = [m \in Messages |-> <<>>]
  /\ holder = None /\ output = <<>> /\ interrupted = FALSE /\ ended = FALSE

Active == {m \in Messages : state[m] = "active"}
Understood(m) == kind[m] \in {"call", "notification"}

-----------------------------------------------------------------------------
(* Messages are received *)

\* Fault: a goroutine for every line.
IsTurnOfAny(m) == state[m] = "sent"

\* On stdin the next line is read when the one before is done with.
IsTurn(m) ==
  /\ state[m] = "sent"
  /\ transport = "stdio" => Active = {} /\ \A before \in 1..(m - 1) : state[before] # "sent"

\* What is not understood is left; a request or a notification is dispatched.
Receive(m) ==
  /\ ~ ended /\ IsTurn(m)
  /\ ~ (transport = "stdio" /\ (interrupted \/ kind[m] = "long"))
  /\ state' = [state EXCEPT ![m] = IF Understood(m) THEN "active" ELSE "left"]
  /\ statements' = [statements EXCEPT ![m] = IF Understood(m) THEN Statements(asked[m]) ELSE <<>>]
  /\ UNCHANGED <<message, holder, output, interrupted, ended>>

\* The loop returns: the input ends, a line is too long, or a line is read after
\* the interrupt, which it does not see while it waits for one.
LoopEnds ==
  /\ transport = "stdio" /\ ~ ended /\ Active = {}
  /\ ended' = TRUE
  /\ UNCHANGED <<message, state, statements, holder, output, interrupted>>

Interrupt ==
  /\ ~ interrupted /\ ~ ended
  /\ interrupted' = TRUE
  /\ UNCHANGED <<message, state, statements, holder, output, ended>>

\* serveHTTP closes the server; answers under way are lost.
Close ==
  /\ transport = "http" /\ interrupted /\ ~ ended
  /\ ended' = TRUE
  /\ UNCHANGED <<message, state, statements, holder, output, interrupted>>

-----------------------------------------------------------------------------
(* Statements of a handler *)

Acquire(m) ==
  /\ m \in Active /\ statements[m] # <<>> /\ holder = None /\ ~ interrupted
  /\ holder' = m
  /\ UNCHANGED <<message, state, statements, output, interrupted, ended>>

\* Fault: the evidence of an edge is read while the rows of the edges are open.
ReadEvidenceInLoop(m) ==
  /\ holder = m /\ Head(statements[m]) # "evidence"
  /\ \E rows \in 0..MaxRows :
       LET nested == Head(statements[m]) = "edges" /\ rows > 0
       IN  /\ holder' = IF nested THEN m ELSE None
           /\ statements' = [statements EXCEPT
                ![m] = (IF nested THEN [i \in 1..rows |-> "evidence"] ELSE <<>>) \o Tail(@)]
  /\ UNCHANGED <<message, state, output, interrupted, ended>>

\* The rows are exhausted, which frees the connection.  OutEdges then reads the
\* evidence of each edge.
ReadRows(m) ==
  /\ holder = m
  /\ holder' = None
  /\ \E rows \in 0..MaxRows :
       statements' = [statements EXCEPT
         ![m] = (IF Head(@) = "edges" THEN [i \in 1..rows |-> "rows"] ELSE <<>>) \o Tail(@)]
  /\ UNCHANGED <<message, state, output, interrupted, ended>>

\* A statement fails: the handler goes on without its rows, or returns the error.
Error(m) ==
  /\ m \in Active /\ statements[m] # <<>>
  /\ holder' = IF holder = m THEN None ELSE holder
  /\ \E rest \in {<<>>, Tail(statements[m])} : statements' = [statements EXCEPT ![m] = rest]
  /\ UNCHANGED <<message, state, output, interrupted, ended>>

\* The handler returns a result or an error, which answers a request.
Answer(m) ==
  /\ m \in Active /\ statements[m] = <<>>
  /\ state' = [state EXCEPT ![m] = IF kind[m] = "call" /\ ~ (transport = "http" /\ ended) THEN "answered" ELSE "left"]
  /\ output' = IF kind[m] = "call" /\ ~ (transport = "http" /\ ended) THEN Append(output, m) ELSE output
  /\ UNCHANGED <<message, statements, holder, interrupted, ended>>

-----------------------------------------------------------------------------
\* What handlers do without anybody's help.
Handle ==
  \E m \in Messages : \/ Acquire(m) \/ ReadRows(m) \/ Answer(m)
                      \/ interrupted /\ Error(m)

Next ==
  \/ \E m \in Messages : Receive(m) \/ Error(m)
  \/ Handle \/ LoopEnds \/ Interrupt \/ Close

\* Some handler goes on as long as one can.
Spec == Init /\ [][Next]_vars /\ WF_vars(Handle)

-----------------------------------------------------------------------------
(* Properties *)

\* Exactly the requests that are done with are answered, each once; and those that
\* came line by line in the order of their lines, whatever lies between them.
AnswersInOrder ==
  /\ \A m \in Messages : state[m] = "answered" <=> \E i \in DOMAIN output : output[i] = m
  /\ \A i, j \in DOMAIN output : output[i] = output[j] => i = j
  /\ \A i \in DOMAIN output : kind[output[i]] = "call"
  /\ transport = "stdio" =>
       /\ \A i, j \in DOMAIN output : i < j => output[i] < output[j]
       /\ \A i \in DOMAIN output, m \in Messages :
            kind[m] = "call" /\ m < output[i] => \E j \in 1..i : output[j] = m

\* Every request that was understood is answered, with a result or an error, even
\* after an interrupt, so that in the end none waits; only a closed HTTP server may
\* leave one without.
EveryCallAnswered ==
  <>[](\A m \in Messages : kind[m] = "call" /\ state[m] \in {"active", "left"} => transport = "http" /\ ended)
=============================================================================

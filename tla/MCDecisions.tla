---------------------------- MODULE MCDecisions ----------------------------
(***************************************************************************)
(* The two algorithms of internal/iam that decide a request, which share   *)
(* nothing: a behaviour runs one of them, on any of its inputs.            *)
(*                                                                         *)
(* AllowsAction: two policies of up to two statements, allows and denies   *)
(* with and without a condition, on the resource asked about, on another,  *)
(* on all but one and on none named; an action matched, not matched and    *)
(* excluded.  wildcard: all patterns and names up to a length.             *)
(***************************************************************************)
EXTENDS Decisions

VARIABLE active  \* the algorithm that runs

decisionVars == vars
wildcardVars == <<pattern, name, si, pi, star, ss, match>>
allVars == <<active, decisionVars, wildcardVars>>

St(effect, action, notAction, resource, notResource, gated) ==
  [effect |-> effect, action |-> action, notAction |-> notAction,
   resource |-> resource, notResource |-> notResource, conditional |-> gated]

MCActions == {"PassRole"}
MCResources == {"role", "other"}
All == {MCActions}
Role == {{"role"}}
MCStatements ==
  {St("allow", All, {}, Role, {}, FALSE), St("allow", All, {}, {MCResources}, {}, TRUE),
   St("allow", {}, All, {}, {}, FALSE), St("allow", {}, {{}}, {}, Role, FALSE),
   St("allow", {}, {}, {}, {}, FALSE),
   St("deny", All, {}, {}, {}, FALSE), St("deny", All, {}, Role, {}, TRUE),
   St("other", All, {}, {}, {}, FALSE)}

\* The input given to the algorithm that does not run.
NoSources == sources = << >> /\ request = [action |-> "PassRole", resource |-> "role"]
NoName == pattern = << >> /\ name = << >>

MCInit ==
  \/ active = "decision" /\ Init /\ NoName /\ Wild!Init
  \/ active = "wildcard" /\ NoSources /\ Init /\ Wild!Init

DecisionStep == active = "decision" /\ Next /\ UNCHANGED <<active, wildcardVars>>
WildcardStep == active = "wildcard" /\ Wild!Next /\ UNCHANGED <<active, decisionVars>>

MCSpec == MCInit /\ [][DecisionStep \/ WildcardStep]_allVars /\ WF_allVars(WildcardStep)

\* wildcard ends on every pattern and name, when it is called.
MatchEnds == active = "wildcard" ~> match # "running"
=============================================================================

------------------------------ MODULE Policies ------------------------------
(***************************************************************************)
(* IAM policy documents.  A pattern of a policy ("iam:*") is the set of    *)
(* the names it matches; "*" asked as an action or as a resource is a name *)
(* like the others.  Of a Condition element only its presence matters:     *)
(* evalConditions resolves none.                                           *)
(***************************************************************************)
EXTENDS Naturals, Sequences, FiniteSets

CONSTANTS Actions, Resources,  \* names a request may ask about
          Statements           \* statements that documents may hold

Effects == {"allow", "deny", "other"}

StatementType ==
  [effect : Effects,
   action : SUBSET SUBSET Actions, notAction : SUBSET SUBSET Actions,
   resource : SUBSET SUBSET Resources, notResource : SUBSET SUBSET Resources,
   conditional : BOOLEAN]

ASSUME StatementAssumption ==
  \A st \in Statements :
    /\ st.effect \in Effects /\ st.conditional \in BOOLEAN
    /\ \A p \in st.action \cup st.notAction : p \subseteq Actions
    /\ \A p \in st.resource \cup st.notResource : p \subseteq Resources

Documents == Seq(Statements)
Requests == [action : Actions, resource : Resources]

SomeMatches(patterns, name) == \E p \in patterns : name \in p

MatchesAction(st, action) ==
  \/ st.action # {} /\ SomeMatches(st.action, action)
  \/ st.action = {} /\ st.notAction # {} /\ ~SomeMatches(st.notAction, action)

\* A statement that names no resource, as in a trust policy, matches any.
MatchesResource(st, resource) ==
  \/ st.resource # {} /\ SomeMatches(st.resource, resource)
  \/ st.resource = {} /\ ~SomeMatches(st.notResource, resource)

Matches(st, request) ==
  MatchesAction(st, request.action) /\ MatchesResource(st, request.resource)

-----------------------------------------------------------------------------
(* What a set of documents decides, whatever the order of their statements *)

MatchingIn(docs, request) ==
  {st \in UNION {{docs[d][s] : s \in DOMAIN docs[d]} : d \in DOMAIN docs} : Matches(st, request)}

Denied(docs, request) ==
  \E st \in MatchingIn(docs, request) : st.effect = "deny" /\ ~st.conditional
Granted(docs, request) ==
  \E st \in MatchingIn(docs, request) : st.effect = "allow" /\ ~st.conditional
GrantedPossibly(docs, request) ==
  \E st \in MatchingIn(docs, request) : st.effect = "allow"

Allowed(docs, request) == ~Denied(docs, request) /\ GrantedPossibly(docs, request)
AllowedConfidence(docs, request) ==
  IF Granted(docs, request) THEN "definite" ELSE "possible"
=============================================================================

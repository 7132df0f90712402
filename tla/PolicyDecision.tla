--------------------------- MODULE PolicyDecision ---------------------------
(***************************************************************************)
(* AllowsAction: one evaluation over the documents of all policy sources   *)
(* decides, then one evaluation of each source alone finds the policies to *)
(* cite.  Every evaluation is EvaluateIdentity's loop over documents and   *)
(* statements, which a matching unconditional deny leaves early.           *)
(***************************************************************************)
EXTENDS Policies

CONSTANTS MaxDocuments, MaxStatements  \* bounds on the sources and their documents

ASSUME BoundAssumption == MaxDocuments \in Nat /\ MaxStatements \in Nat

VARIABLES sources,     \* the documents of the policy sources
          request,
          call,        \* 0: all documents; k: source k alone
          doc, stmt,   \* next statement
          allowed, conditional,
          matched,     \* sources to cite
          ok, confidence,
          done

inputs == <<sources, request>>
locals == <<allowed, conditional>>
result == <<ok, confidence, done>>
vars == <<inputs, call, doc, stmt, locals, matched, result>>

SourceLists ==
  UNION {[1..n -> UNION {[1..m -> Statements] : m \in 0..MaxStatements}] : n \in 0..MaxDocuments}

TypeOK ==
  /\ sources \in Seq(Documents) /\ request \in Requests
  /\ call \in 0..Len(sources)
  /\ doc \in 1..(Len(sources) + 1) /\ stmt \in Nat \ {0}
  /\ allowed \in BOOLEAN /\ conditional \in BOOLEAN
  /\ matched \subseteq 1..Len(sources)
  /\ ok \in BOOLEAN /\ confidence \in {"definite", "possible", "blocked"}
  /\ done \in BOOLEAN

Init ==
  /\ sources \in SourceLists /\ request \in Requests
  /\ call = 0 /\ doc = 1 /\ stmt = 1
  /\ allowed = FALSE /\ conditional = FALSE
  /\ matched = {}
  /\ ok = FALSE /\ confidence = "blocked" /\ done = FALSE

\* Documents the running evaluation reads.
LastDocument == IF call = 0 THEN Len(sources) ELSE call

Reading == ~done /\ doc <= LastDocument
Current == sources[doc][stmt]
AtStatement == Reading /\ stmt <= Len(sources[doc])

Finish(answer, conf) ==
  /\ ok' = answer /\ confidence' = conf /\ done' = TRUE
  /\ UNCHANGED <<call, doc, stmt, locals>>

\* Fault: the documents are evaluated as they are gathered, each with those before it.
EvaluateGathered(k) ==
  /\ call' = k /\ doc' = 1 /\ stmt' = 1
  /\ allowed' = FALSE /\ conditional' = FALSE
  /\ UNCHANGED done

\* Evaluate source k alone.
EvaluateAlone(k) ==
  /\ call' = k /\ doc' = k /\ stmt' = 1
  /\ allowed' = FALSE /\ conditional' = FALSE
  /\ UNCHANGED done

\* The evaluation of all documents is over: anything but an allow is final.
DecideAll(allow, conf) ==
  /\ call = 0
  /\ UNCHANGED matched
  /\ IF allow
     THEN EvaluateAlone(1) /\ ok' = TRUE /\ confidence' = conf
     ELSE Finish(FALSE, "blocked")

DecideAlone(allow) ==
  /\ call > 0
  /\ matched' = IF allow THEN matched \cup {call} ELSE matched
  /\ IF call < Len(sources)
     THEN EvaluateAlone(call + 1) /\ UNCHANGED <<ok, confidence>>
     ELSE Finish(ok, confidence)

Return(allow, conf) == DecideAll(allow, conf) \/ DecideAlone(allow)

NextStatement == stmt' = stmt + 1 /\ UNCHANGED <<inputs, call, doc, matched, result>>

SkipStatement ==
  /\ AtStatement
  /\ ~Matches(Current, request) \/ Current.effect = "other"
  /\ NextStatement /\ UNCHANGED locals

\* The deny may or may not apply: it is noted as unknown, and has no effect.
DenyUnresolved ==
  /\ AtStatement /\ Matches(Current, request)
  /\ Current.effect = "deny" /\ Current.conditional
  /\ NextStatement /\ UNCHANGED locals

\* Fault: a deny is overruled by an allow that came before it.
DenyUnlessAllowed ==
  /\ AtStatement /\ Matches(Current, request)
  /\ Current.effect = "deny" /\ ~Current.conditional
  /\ UNCHANGED inputs
  /\ Return(allowed, "definite")

Deny ==
  /\ AtStatement /\ Matches(Current, request)
  /\ Current.effect = "deny" /\ ~Current.conditional
  /\ UNCHANGED inputs
  /\ Return(FALSE, "definite")

Allow ==
  /\ AtStatement /\ Matches(Current, request) /\ Current.effect = "allow"
  /\ allowed' = (allowed \/ ~Current.conditional)
  /\ conditional' = (conditional \/ Current.conditional)
  /\ NextStatement

NextDocument ==
  /\ Reading /\ stmt > Len(sources[doc])
  /\ doc' = doc + 1 /\ stmt' = 1
  /\ UNCHANGED <<inputs, call, locals, matched, result>>

EndOfDocuments ==
  /\ ~done /\ doc > LastDocument
  /\ UNCHANGED inputs
  /\ Return(allowed \/ conditional, IF allowed THEN "definite" ELSE "possible")

Next ==
  \/ SkipStatement \/ DenyUnresolved \/ Deny \/ Allow
  \/ NextDocument \/ EndOfDocuments

Spec == Init /\ [][Next]_vars

-----------------------------------------------------------------------------
(* Properties *)

\* The answer and its confidence do not depend on the order of the policies, or
\* of the statements in them: "Explicit Deny always wins", and otherwise the
\* strongest allow.
DecisionIsOrderFree ==
  done =>
    /\ ok = Allowed(sources, request)
    /\ confidence = IF ok THEN AllowedConfidence(sources, request) ELSE "blocked"

\* The sources that AllowsAction returns for an allowed action are those with a matching
\* allow and no other, at least one of them, and a definite answer names one that grants
\* it unconditionally.  The evaluation of a source alone sees no deny of another source:
\* only because a deny anywhere ends the first evaluation is none named that is overruled.
\* This is the policy of "the exact policy, statement index and API source" (README.md:21),
\* of which the code records no statement index.
CitesGrantingPolicies ==
  done /\ ok =>
    /\ matched = {k \in 1..Len(sources) : GrantedPossibly(<<sources[k]>>, request)}
    /\ matched # {}
    /\ confidence = "definite" => \E k \in matched : Granted(<<sources[k]>>, request)
=============================================================================

------------------------ MODULE PolicyDecisionProofs ------------------------
(***************************************************************************)
(* The two invariants of PolicyDecision hold for any policies.             *)
(***************************************************************************)
EXTENDS Decisions, TLAPS

\* Statements the running evaluation has left behind.
FirstDocument == IF call = 0 THEN 1 ELSE call
Passed(d, s) ==
  /\ d \in FirstDocument..LastDocument /\ s \in 1..Len(sources[d])
  /\ d < doc \/ (d = doc /\ s < stmt)

HasAllow(st, gated) == Matches(st, request) /\ st.effect = "allow" /\ st.conditional = gated
HasDeny(st) == Matches(st, request) /\ st.effect = "deny" /\ ~st.conditional

\* The flags say what the statements passed so far allow; none of them denies.
LoopInv ==
  ~done =>
    /\ doc \in FirstDocument..(LastDocument + 1)
    /\ allowed <=> \E d, s \in Nat : Passed(d, s) /\ HasAllow(sources[d][s], FALSE)
    /\ conditional <=> \E d, s \in Nat : Passed(d, s) /\ HasAllow(sources[d][s], TRUE)
    /\ \A d, s \in Nat : Passed(d, s) => ~HasDeny(sources[d][s])

Cited(n) == {k \in 1..n : GrantedPossibly(<<sources[k]>>, request)}

\* The sources are evaluated alone only after an allow was decided.
CallInv ==
  /\ call = 0 /\ ~done => matched = {}
  /\ call > 0 /\ ~done =>
       /\ ok /\ Allowed(sources, request)
       /\ confidence = AllowedConfidence(sources, request)
       /\ matched = Cited(call - 1)
  /\ done => DecisionIsOrderFree /\ (ok => matched = Cited(Len(sources)))

-----------------------------------------------------------------------------

\* What a list of documents holds, by position.
LEMMA InDocuments ==
  ASSUME NEW docs \in Seq(Documents), NEW r, NEW st
  PROVE  st \in MatchingIn(docs, r) <=>
           \E d \in 1..Len(docs) : \E s \in 1..Len(docs[d]) : st = docs[d][s] /\ Matches(st, r)
<1>1. \A d \in 1..Len(docs) : docs[d] \in Seq(Statements)  BY DEF Documents
<1>2. DOMAIN docs = 1..Len(docs)  OBVIOUS
<1>3. \A d \in 1..Len(docs) : DOMAIN docs[d] = 1..Len(docs[d])  BY <1>1
<1> QED  BY <1>2, <1>3 DEF MatchingIn

\* A source alone allows what one of its own statements allows.
LEMMA AloneAllows ==
  ASSUME NEW docs \in Seq(Documents), NEW k \in 1..Len(docs), NEW r
  PROVE  /\ GrantedPossibly(<<docs[k]>>, r) <=>
              \E s \in 1..Len(docs[k]) : Matches(docs[k][s], r) /\ docs[k][s].effect = "allow"
         /\ Granted(<<docs[k]>>, r) <=>
              \E s \in 1..Len(docs[k]) : /\ Matches(docs[k][s], r)
                                         /\ docs[k][s].effect = "allow" /\ ~docs[k][s].conditional
<1>1. <<docs[k]>> \in Seq(Documents) /\ Len(<<docs[k]>>) = 1 /\ <<docs[k]>>[1] = docs[k]
  BY DEF Documents
<1> DEFINE alone == <<docs[k]>>
<1> HIDE DEF alone
<1>2. alone \in Seq(Documents) /\ Len(alone) = 1 /\ alone[1] = docs[k]  BY <1>1 DEF alone
<1>3. ASSUME NEW st
      PROVE  st \in MatchingIn(alone, r) <=>
               \E s \in 1..Len(docs[k]) : st = docs[k][s] /\ Matches(st, r)
  <2>1. st \in MatchingIn(alone, r) <=>
          \E d \in 1..Len(alone) : \E s \in 1..Len(alone[d]) : st = alone[d][s] /\ Matches(st, r)
    BY <1>2, InDocuments
  <2> QED  BY <2>1, <1>2
<1>4. /\ GrantedPossibly(alone, r) <=>
           \E s \in 1..Len(docs[k]) : Matches(docs[k][s], r) /\ docs[k][s].effect = "allow"
      /\ Granted(alone, r) <=>
           \E s \in 1..Len(docs[k]) : /\ Matches(docs[k][s], r)
                                      /\ docs[k][s].effect = "allow" /\ ~docs[k][s].conditional
  BY <1>3 DEF GrantedPossibly, Granted
<1> QED  BY <1>4 DEF alone

\* The statement at a position of a document.
LEMMA StatementAt ==
  ASSUME NEW docs \in Seq(Documents), NEW d \in 1..Len(docs), NEW s \in 1..Len(docs[d])
  PROVE  docs[d][s] \in Statements /\ docs[d][s].effect \in Effects /\ docs[d][s].conditional \in BOOLEAN
<1>1. docs[d] \in Seq(Statements)  BY DEF Documents
<1> QED  BY <1>1, StatementAssumption

-----------------------------------------------------------------------------

\* Every source list is a sequence of documents.
LEMMA SourceListsAreDocuments == SourceLists \subseteq Seq(Documents)
<1> SUFFICES ASSUME NEW m \in 0..MaxDocuments,
                    NEW f \in [1..m -> UNION {[1..n -> Statements] : n \in 0..MaxStatements}]
             PROVE  f \in Seq(Documents)
  BY DEF SourceLists
<1>1. m \in Nat  BY BoundAssumption
<1>2. \A i \in 1..m : f[i] \in Seq(Statements)
  <2> TAKE i \in 1..m
  <2>0. f[i] \in UNION {[1..n -> Statements] : n \in 0..MaxStatements}  OBVIOUS
  <2>1. PICK n \in 0..MaxStatements : f[i] \in [1..n -> Statements]  BY <2>0
  <2>2. n \in Nat  BY BoundAssumption
  <2> QED  BY <2>1, <2>2
<1> QED  BY <1>1, <1>2 DEF Documents

\* Without sources nothing is allowed.
Bounded == TypeOK /\ (allowed \/ conditional => Len(sources) > 0)

LEMMA BoundedCorrect == Spec => []Bounded
<1>1. Init => Bounded
  <2> SUFFICES ASSUME Init PROVE Bounded  OBVIOUS
  <2>1. sources \in Seq(Documents) /\ Len(sources) \in Nat
    BY SourceListsAreDocuments DEF Init
  <2>2. call \in 0..Len(sources) /\ doc \in 1..(Len(sources) + 1) /\ stmt \in Nat \ {0}
    BY <2>1 DEF Init
  <2>3. ~allowed /\ ~conditional /\ allowed \in BOOLEAN /\ conditional \in BOOLEAN
    BY DEF Init
  <2>4. ok \in BOOLEAN /\ confidence \in {"definite", "possible", "blocked"} /\ done \in BOOLEAN
    BY DEF Init
  <2>5. request \in Requests /\ matched \subseteq 1..Len(sources) BY DEF Init
  <2> QED  BY <2>1, <2>2, <2>3, <2>4, <2>5 DEF TypeOK, Bounded
<1>2. Bounded /\ [Next]_vars => Bounded'
  <2> SUFFICES ASSUME Bounded, [Next]_vars PROVE Bounded'  OBVIOUS
  <2> USE DEF TypeOK, Bounded
  <2>0. Len(sources) \in Nat /\ sources \in Seq(Documents)  OBVIOUS
  <2>a. ASSUME NEW allow \in BOOLEAN, NEW conf \in {"definite", "possible"},
               allow => Len(sources) > 0, Return(allow, conf), UNCHANGED inputs
        PROVE  Bounded'
    <3>0. UNCHANGED <<sources, request>>  BY <2>a DEF inputs
    <3>a. ASSUME NEW k \in 1..Len(sources), EvaluateAlone(k), matched' \subseteq 1..Len(sources),
                 ok' \in BOOLEAN, confidence' \in {"definite", "possible", "blocked"}
          PROVE  Bounded'
      <4>1. /\ call' \in 0..Len(sources) /\ doc' \in 1..(Len(sources) + 1)
            /\ stmt' \in Nat \ {0}
        BY <3>a, <2>0 DEF EvaluateAlone
      <4>2. /\ ~allowed' /\ ~conditional' /\ allowed' \in BOOLEAN /\ conditional' \in BOOLEAN
            /\ done' \in BOOLEAN
        BY <3>a DEF EvaluateAlone
      <4> QED  BY <3>0, <3>a, <4>1, <4>2
    <3>1. CASE DecideAll(allow, conf) /\ allow
      <4>1. 1 \in 1..Len(sources)  BY <2>0, <2>a, <3>1
      <4>2. /\ EvaluateAlone(1) /\ matched' \subseteq 1..Len(sources)
            /\ ok' \in BOOLEAN /\ confidence' \in {"definite", "possible", "blocked"}
        BY <3>1 DEF DecideAll
      <4> QED  BY <3>a, <4>1, <4>2
    <3>2. CASE DecideAll(allow, conf) /\ ~allow
      BY <2>a, <3>2 DEF DecideAll, Finish, inputs, locals
    <3>3. CASE DecideAlone(allow) /\ call < Len(sources)
      <4>1. call + 1 \in 1..Len(sources)  BY <2>0, <3>3
      <4>2. /\ EvaluateAlone(call + 1) /\ ok' \in BOOLEAN
            /\ confidence' \in {"definite", "possible", "blocked"}
        BY <3>3 DEF DecideAlone
      <4>3. matched' \subseteq 1..Len(sources)
        BY <2>0, <3>3 DEF DecideAlone
      <4> QED  BY <3>a, <4>1, <4>2, <4>3
    <3>4. CASE DecideAlone(allow) /\ ~(call < Len(sources))
      BY <2>a, <3>4, <2>0 DEF DecideAlone, Finish, inputs, locals
    <3> QED  BY <2>a, <3>1, <3>2, <3>3, <3>4 DEF Return
  <2>1. CASE SkipStatement
    BY <2>1 DEF SkipStatement, NextStatement, inputs, locals, result
  <2>2. CASE DenyUnresolved
    BY <2>2 DEF DenyUnresolved, NextStatement, inputs, locals, result
  <2>3. CASE Deny
    BY <2>3, <2>a DEF Deny
  <2>4. CASE Allow
    <3>1. Current \in Statements
      BY <2>4, <2>0, StatementAt DEF Allow, AtStatement, Reading, LastDocument, Current
    <3>2. Current.conditional \in BOOLEAN  BY <3>1, StatementAssumption
    <3> QED
      BY <2>4, <3>2, <2>0 DEF Allow, NextStatement, AtStatement, Reading, LastDocument, inputs, result
  <2>5. CASE NextDocument
    BY <2>5, <2>0 DEF NextDocument, Reading, LastDocument, inputs, locals, result
  <2>6. CASE EndOfDocuments
    BY <2>6, <2>a DEF EndOfDocuments
  <2>7. CASE UNCHANGED vars
    BY <2>7 DEF vars, inputs, locals, result
  <2> QED  BY <2>1, <2>2, <2>3, <2>4, <2>5, <2>6, <2>7 DEF Next
<1> QED  BY <1>1, <1>2, PTL DEF Spec

\* Types: the evaluation of sources never leaves the list of documents.
THEOREM TypeCorrect == Spec => []TypeOK
<1>1. Bounded => TypeOK  BY DEF Bounded
<1> QED  BY <1>1, BoundedCorrect, PTL

-----------------------------------------------------------------------------

\* What all documents decide, by position.
LEMMA ByPosition ==
  ASSUME NEW docs \in Seq(Documents), NEW r
  PROVE  /\ Denied(docs, r) <=> \E d \in 1..Len(docs) : \E s \in 1..Len(docs[d]) :
              Matches(docs[d][s], r) /\ docs[d][s].effect = "deny" /\ ~docs[d][s].conditional
         /\ Granted(docs, r) <=> \E d \in 1..Len(docs) : \E s \in 1..Len(docs[d]) :
              Matches(docs[d][s], r) /\ docs[d][s].effect = "allow" /\ ~docs[d][s].conditional
         /\ GrantedPossibly(docs, r) <=> \E d \in 1..Len(docs) : \E s \in 1..Len(docs[d]) :
              Matches(docs[d][s], r) /\ docs[d][s].effect = "allow"
BY InDocuments DEF Denied, Granted, GrantedPossibly

\* An evaluation that starts has passed nothing.
LEMMA StartsFresh ==
  ASSUME Bounded, NEW k \in 1..Len(sources), EvaluateAlone(k), UNCHANGED inputs
  PROVE  LoopInv'
<1>1. Len(sources) \in Nat  BY DEF Bounded, TypeOK
<1>2. ~allowed' /\ ~conditional' /\ call' = k /\ doc' = k /\ stmt' = 1
  BY DEF EvaluateAlone
<1>3. FirstDocument' = k /\ LastDocument' = k
  BY <1>1, <1>2 DEF FirstDocument, LastDocument, inputs
<1>4. \A d, s \in Nat : ~Passed(d, s)'
  BY <1>1, <1>2, <1>3 DEF Passed
<1>5. doc' \in FirstDocument'..(LastDocument' + 1)  BY <1>1, <1>2, <1>3
<1>6. ~allowed' /\ ~conditional'  BY <1>2
<1> QED  BY <1>4, <1>5, <1>6 DEF LoopInv

\* A statement is left behind: the flags follow what it is.
LEMMA PassStatement ==
  ASSUME Bounded, LoopInv, AtStatement, NextStatement,
         allowed' = (allowed \/ HasAllow(Current, FALSE)),
         conditional' = (conditional \/ HasAllow(Current, TRUE)),
         ~HasDeny(Current)
  PROVE  LoopInv'
<1>1. /\ Len(sources) \in Nat /\ stmt \in Nat \ {0} /\ ~done /\ doc \in Nat
      /\ LastDocument \in Nat /\ FirstDocument \in Nat
      /\ stmt \in 1..Len(sources[doc])
  <2>1. doc \in 1..Len(sources)
    BY DEF Bounded, TypeOK, AtStatement, Reading, LastDocument
  <2>2. Len(sources[doc]) \in Nat  BY <2>1 DEF Bounded, TypeOK, Documents
  <2> QED
    BY <2>1, <2>2 DEF Bounded, TypeOK, AtStatement, Reading, LastDocument, FirstDocument
<1>2. /\ UNCHANGED <<sources, request, call, doc, done>> /\ stmt' = stmt + 1
      /\ UNCHANGED <<LastDocument, FirstDocument>>
  BY DEF NextStatement, inputs, result, LastDocument, FirstDocument
<1>3. doc \in FirstDocument..LastDocument
  BY <1>1 DEF LoopInv, AtStatement, Reading
<1>4. \A d, s \in Nat : Passed(d, s)' <=> Passed(d, s) \/ (d = doc /\ s = stmt)
  BY <1>1, <1>2, <1>3 DEF Passed
<1>5. /\ \A d, s \in Nat : HasAllow(sources[d][s], FALSE)' <=> HasAllow(sources[d][s], FALSE)
      /\ \A d, s \in Nat : HasAllow(sources[d][s], TRUE)' <=> HasAllow(sources[d][s], TRUE)
      /\ \A d, s \in Nat : HasDeny(sources[d][s])' <=> HasDeny(sources[d][s])
  BY <1>2 DEF HasAllow, HasDeny
<1>6. Current = sources[doc][stmt]  BY DEF Current
<1>7. /\ (allowed <=> \E d, s \in Nat : Passed(d, s) /\ HasAllow(sources[d][s], FALSE))
      /\ (conditional <=> \E d, s \in Nat : Passed(d, s) /\ HasAllow(sources[d][s], TRUE))
      /\ \A d, s \in Nat : Passed(d, s) => ~HasDeny(sources[d][s])
  BY <1>1 DEF LoopInv
<1>8. allowed' <=> \E d, s \in Nat : Passed(d, s)' /\ HasAllow(sources[d][s], FALSE)'
  BY <1>1, <1>4, <1>5, <1>6, <1>7, ZenonT(60)
<1>9. conditional' <=> \E d, s \in Nat : Passed(d, s)' /\ HasAllow(sources[d][s], TRUE)'
  BY <1>1, <1>4, <1>5, <1>6, <1>7, ZenonT(60)
<1>10. \A d, s \in Nat : Passed(d, s)' => ~HasDeny(sources[d][s])'
  BY <1>1, <1>4, <1>5, <1>6, <1>7
<1>11. doc' \in FirstDocument'..(LastDocument' + 1)  BY <1>1, <1>2, <1>3
<1> QED  BY <1>8, <1>9, <1>10, <1>11 DEF LoopInv

\* The flags at the end of an evaluation.
LEMMA EvaluationEnds ==
  ASSUME Bounded, LoopInv, ~done, doc > LastDocument
  PROVE  /\ call = 0 =>
              /\ ~Denied(sources, request)
              /\ allowed <=> Granted(sources, request)
              /\ (allowed \/ conditional) <=> GrantedPossibly(sources, request)
         /\ call > 0 =>
              ((allowed \/ conditional) <=> GrantedPossibly(<<sources[call]>>, request))
<1>1. /\ sources \in Seq(Documents) /\ Len(sources) \in Nat /\ call \in 0..Len(sources)
      /\ doc \in FirstDocument..(LastDocument + 1) /\ doc = LastDocument + 1
      /\ FirstDocument \in Nat /\ LastDocument \in Nat
  BY DEF Bounded, TypeOK, LoopInv, FirstDocument, LastDocument
<1>2. \A d \in FirstDocument..LastDocument : d \in 1..Len(sources) /\ Len(sources[d]) \in Nat
  BY <1>1 DEF FirstDocument, LastDocument, Documents
<1>3. \A d, s \in Nat :
        Passed(d, s) <=> d \in FirstDocument..LastDocument /\ s \in 1..Len(sources[d])
  BY <1>1, <1>2 DEF Passed
<1>4. \A d \in FirstDocument..LastDocument : \A s \in 1..Len(sources[d]) :
        /\ d \in Nat /\ s \in Nat /\ sources[d][s].conditional \in BOOLEAN
  BY <1>1, <1>2, StatementAt
<1>5. allowed <=> \E d \in FirstDocument..LastDocument : \E s \in 1..Len(sources[d]) :
                    HasAllow(sources[d][s], FALSE)
  BY <1>3, <1>4 DEF LoopInv
<1>6. conditional <=> \E d \in FirstDocument..LastDocument : \E s \in 1..Len(sources[d]) :
                        HasAllow(sources[d][s], TRUE)
  BY <1>3, <1>4 DEF LoopInv
<1>7. \A d \in FirstDocument..LastDocument : \A s \in 1..Len(sources[d]) : ~HasDeny(sources[d][s])
  BY <1>3, <1>4 DEF LoopInv
<1>8. CASE call = 0
  <2>1. FirstDocument = 1 /\ LastDocument = Len(sources)  BY <1>8 DEF FirstDocument, LastDocument
  <2>2. ~Denied(sources, request)  BY <1>1, <1>7, <2>1, ByPosition DEF HasDeny
  <2>3. allowed <=> Granted(sources, request)
    BY <1>1, <1>4, <1>5, <2>1, ByPosition DEF HasAllow
  <2>a. conditional <=> \E d \in 1..Len(sources) : \E s \in 1..Len(sources[d]) :
                          HasAllow(sources[d][s], TRUE)
    BY <1>6, <2>1
  <2>b. GrantedPossibly(sources, request) <=> \E d \in 1..Len(sources) : \E s \in 1..Len(sources[d]) :
          HasAllow(sources[d][s], TRUE) \/ HasAllow(sources[d][s], FALSE)
    BY <1>1, <1>4, <2>1, ByPosition DEF HasAllow
  <2>4. (allowed \/ conditional) <=> GrantedPossibly(sources, request)
    BY <1>5, <2>1, <2>a, <2>b
  <2> QED  BY <1>8, <2>2, <2>3, <2>4
<1>9. CASE call > 0
  <2>1. FirstDocument = call /\ LastDocument = call /\ call \in 1..Len(sources)
    BY <1>1, <1>9 DEF FirstDocument, LastDocument
  <2>a. /\ allowed <=> \E s \in 1..Len(sources[call]) : HasAllow(sources[call][s], FALSE)
        /\ conditional <=> \E s \in 1..Len(sources[call]) : HasAllow(sources[call][s], TRUE)
    <3>1. \A d : d \in FirstDocument..LastDocument <=> d = call  BY <2>1
    <3> QED  BY <1>1, <1>5, <1>6, <3>1, Zenon
  <2>2. (allowed \/ conditional) <=>
          \E s \in 1..Len(sources[call]) : HasAllow(sources[call][s], FALSE) \/ HasAllow(sources[call][s], TRUE)
    BY <2>a, Zenon
  <2>3. \A s \in 1..Len(sources[call]) : sources[call][s].conditional \in BOOLEAN
    BY <1>1, <2>1, <1>4
  <2>4. (allowed \/ conditional) <=>
          \E s \in 1..Len(sources[call]) : /\ Matches(sources[call][s], request)
                                           /\ sources[call][s].effect = "allow"
    BY <2>2, <2>3 DEF HasAllow
  <2> QED  BY <1>1, <1>9, <2>1, <2>4, AloneAllows
<1> QED  BY <1>1, <1>8, <1>9

\* The end of an evaluation, by a deny or after the last statement: it starts
\* the next one, or ends the query with the right answer.
LEMMA ReturnsRight ==
  ASSUME Bounded, CallInv, ~done, UNCHANGED inputs,
         NEW allow \in BOOLEAN, NEW conf, Return(allow, conf),
         allow => Len(sources) > 0,
         call = 0 => /\ allow = Allowed(sources, request)
                     /\ allow => conf = AllowedConfidence(sources, request),
         call > 0 => allow = GrantedPossibly(<<sources[call]>>, request)
  PROVE  LoopInv' /\ CallInv'
<1>1. /\ sources \in Seq(Documents) /\ Len(sources) \in Nat /\ call \in 0..Len(sources)
      /\ UNCHANGED <<sources, request>>
      /\ (Allowed(sources, request)' <=> Allowed(sources, request))
      /\ AllowedConfidence(sources, request)' = AllowedConfidence(sources, request)
      /\ \A n : Cited(n)' = Cited(n)
  BY DEF Bounded, TypeOK, inputs, Cited
<1>a. Cited(0) = {}  BY DEF Cited
<1>b. \A n \in Nat : Cited(n + 1) = IF GrantedPossibly(<<sources[n + 1]>>, request)
                                    THEN Cited(n) \cup {n + 1} ELSE Cited(n)
  BY DEF Cited
<1>2. CASE DecideAll(allow, conf) /\ allow
  <2>1. 1 \in 1..Len(sources) /\ EvaluateAlone(1) /\ call = 0
    BY <1>1, <1>2 DEF DecideAll
  <2>2. LoopInv'  BY <2>1, StartsFresh
  <2>3. call' = 1 /\ ~done' /\ matched' = {} /\ ok' /\ Allowed(sources, request)
        /\ confidence' = AllowedConfidence(sources, request)
    BY <1>2, <2>1 DEF DecideAll, EvaluateAlone, CallInv
  <2> QED  BY <1>1, <1>a, <2>2, <2>3 DEF CallInv
<1>3. CASE DecideAll(allow, conf) /\ ~allow
  <2>1. done' /\ ok' = FALSE /\ confidence' = "blocked"
    BY <1>3 DEF DecideAll, Finish
  <2>2. Allowed(sources, request) = FALSE
    BY <1>3 DEF DecideAll, Allowed
  <2> QED  BY <1>1, <2>1, <2>2 DEF LoopInv, CallInv, DecisionIsOrderFree
<1>4. CASE DecideAlone(allow)
  <2>1. /\ call \in 1..Len(sources) /\ ok /\ Allowed(sources, request)
        /\ confidence = AllowedConfidence(sources, request)
        /\ matched = Cited(call - 1)
        /\ allow = GrantedPossibly(<<sources[call]>>, request)
    BY <1>1, <1>4 DEF DecideAlone, CallInv
  <2>2. matched' = Cited(call)
    <3>1. call - 1 \in Nat /\ (call - 1) + 1 = call  BY <2>1, <1>1
    <3>2. Cited(call) = IF GrantedPossibly(<<sources[call]>>, request)
                        THEN Cited(call - 1) \cup {call} ELSE Cited(call - 1)
      BY <1>b, <3>1
    <3> QED  BY <1>4, <2>1, <3>2 DEF DecideAlone
  <2>3. CASE call < Len(sources)
    <3>1. EvaluateAlone(call + 1) /\ UNCHANGED <<ok, confidence>> /\ call + 1 \in 1..Len(sources)
      BY <1>1, <1>4, <2>1, <2>3 DEF DecideAlone
    <3>2. LoopInv'  BY <3>1, StartsFresh
    <3>3. call' = call + 1 /\ ~done' /\ call' - 1 = call /\ call' # 0
      BY <1>1, <2>1, <3>1 DEF EvaluateAlone, Bounded, TypeOK
    <3> QED  BY <1>1, <2>1, <2>2, <3>1, <3>2, <3>3 DEF CallInv
  <2>4. CASE ~(call < Len(sources))
    <3>1. done' /\ ok' = ok /\ confidence' = confidence /\ call = Len(sources)
      BY <1>1, <1>4, <2>1, <2>4 DEF DecideAlone, Finish
    <3> QED  BY <1>1, <2>1, <2>2, <3>1 DEF LoopInv, CallInv, DecisionIsOrderFree
  <2> QED  BY <2>3, <2>4
<1> QED  BY <1>2, <1>3, <1>4 DEF Return

-----------------------------------------------------------------------------

LEMMA InvInductive == Spec => [](LoopInv /\ CallInv)
<1>1. Init => LoopInv /\ CallInv
  <2> SUFFICES ASSUME Init PROVE LoopInv /\ CallInv  OBVIOUS
  <2>1. Len(sources) \in Nat  BY SourceListsAreDocuments DEF Init
  <2>2. \A d, s \in Nat : ~Passed(d, s)
    BY <2>1 DEF Init, Passed, FirstDocument, LastDocument
  <2>3. ~allowed /\ ~conditional /\ call = 0 /\ doc = 1 /\ ~done /\ matched = {}  BY DEF Init
  <2>4. doc \in FirstDocument..(LastDocument + 1)
    BY <2>1, <2>3 DEF FirstDocument, LastDocument
  <2>5. LoopInv  BY <2>2, <2>3, <2>4 DEF LoopInv
  <2> QED  BY <2>3, <2>5 DEF CallInv
<1>2. Bounded /\ LoopInv /\ CallInv /\ [Next]_vars => (LoopInv /\ CallInv)'
  <2> SUFFICES ASSUME Bounded, LoopInv, CallInv, [Next]_vars PROVE LoopInv' /\ CallInv'
    OBVIOUS
  <2>0. /\ allowed \in BOOLEAN /\ conditional \in BOOLEAN /\ Len(sources) \in Nat
        /\ sources \in Seq(Documents) /\ (allowed \/ conditional => Len(sources) > 0)
    BY DEF Bounded, TypeOK
  <2>a. ASSUME AtStatement
        PROVE  /\ ~done /\ Current \in Statements /\ Current.conditional \in BOOLEAN
               /\ doc \in 1..Len(sources) /\ stmt \in 1..Len(sources[doc])
               /\ Current = sources[doc][stmt]
    <3>1. doc \in 1..Len(sources) /\ stmt \in Nat \ {0} /\ stmt <= Len(sources[doc]) /\ ~done
      BY <2>a DEF Bounded, TypeOK, AtStatement, Reading, LastDocument
    <3>2. Len(sources[doc]) \in Nat  BY <2>0, <3>1 DEF Documents
    <3> QED  BY <2>0, <3>1, <3>2, StatementAt DEF Current
  <2>b. ASSUME UNCHANGED <<inputs, call, matched, result>> PROVE CallInv'
    <3>1. UNCHANGED <<sources, request, call, matched, ok, confidence, done>>
      BY <2>b DEF inputs, result
    <3> QED  BY <3>1 DEF CallInv, DecisionIsOrderFree, Cited
  <2>1. CASE SkipStatement
    <3>1. AtStatement /\ NextStatement /\ UNCHANGED <<allowed, conditional>>
      BY <2>1 DEF SkipStatement, locals
    <3>2. ~HasAllow(Current, FALSE) /\ ~HasAllow(Current, TRUE) /\ ~HasDeny(Current)
      BY <2>1 DEF SkipStatement, HasAllow, HasDeny
    <3>3. LoopInv'  BY <2>0, <3>1, <3>2, PassStatement
    <3> QED  BY <2>b, <3>1, <3>3 DEF NextStatement
  <2>2. CASE DenyUnresolved
    <3>1. AtStatement /\ NextStatement /\ UNCHANGED <<allowed, conditional>>
      BY <2>2 DEF DenyUnresolved, locals
    <3>2. ~HasAllow(Current, FALSE) /\ ~HasAllow(Current, TRUE) /\ ~HasDeny(Current)
      BY <2>2 DEF DenyUnresolved, HasAllow, HasDeny
    <3>3. LoopInv'  BY <2>0, <3>1, <3>2, PassStatement
    <3> QED  BY <2>b, <3>1, <3>3 DEF NextStatement
  <2>3. CASE Deny
    <3>1. /\ AtStatement /\ UNCHANGED inputs /\ Return(FALSE, "definite")
          /\ HasDeny(Current)
      BY <2>3 DEF Deny, HasDeny
    <3>2. Denied(sources, request)
      BY <2>0, <2>a, <3>1, ByPosition DEF HasDeny
    <3>3. Allowed(sources, request) = FALSE  BY <3>2 DEF Allowed
    <3>4. call = 0
      BY <2>a, <3>1, <3>3 DEF CallInv, Bounded, TypeOK
    <3>5. call = 0 => FALSE = Allowed(sources, request)  BY <3>3
    <3>6. call > 0 => FALSE = GrantedPossibly(<<sources[call]>>, request)  BY <3>4
    <3>7. FALSE \in BOOLEAN /\ ~done  BY <2>a, <3>1
    <3> QED  BY <3>1, <3>5, <3>6, <3>7, ReturnsRight
  <2>4. CASE Allow
    <3>1. AtStatement /\ NextStatement  BY <2>4 DEF Allow
    <3>2. ~HasDeny(Current)  BY <2>4 DEF Allow, HasDeny
    <3>3. /\ HasAllow(Current, FALSE) = ~Current.conditional
          /\ HasAllow(Current, TRUE) = Current.conditional
      BY <2>4, <2>a, <3>1 DEF Allow, HasAllow
    <3>4. LoopInv'  BY <2>4, <3>1, <3>2, <3>3, PassStatement DEF Allow
    <3> QED  BY <2>b, <3>1, <3>4 DEF NextStatement
  <2>5. CASE NextDocument
    <3>1. /\ doc' = doc + 1 /\ stmt' = 1 /\ ~done /\ doc <= LastDocument
          /\ UNCHANGED <<sources, request, call, allowed, conditional, matched, ok, confidence, done>>
          /\ doc \in Nat /\ stmt > Len(sources[doc]) /\ stmt \in Nat
      BY <2>5 DEF NextDocument, Reading, inputs, locals, result, Bounded, TypeOK
    <3>2. /\ FirstDocument' = FirstDocument /\ LastDocument' = LastDocument
          /\ FirstDocument \in Nat /\ LastDocument \in 0..Len(sources)
          /\ doc \in 1..Len(sources) /\ Len(sources[doc]) \in Nat
      BY <2>0, <3>1 DEF FirstDocument, LastDocument, Bounded, TypeOK, Documents
    <3>3. \A d \in 1..Len(sources) : Len(sources[d]) \in Nat  BY <2>0 DEF Documents
    <3>4. doc \in FirstDocument..LastDocument  BY <3>1, <3>2 DEF LoopInv
    <3>5. \A d, s \in Nat : Passed(d, s)' <=> Passed(d, s)
      <4> SUFFICES ASSUME NEW d \in Nat, NEW s \in Nat PROVE Passed(d, s)' <=> Passed(d, s)
        OBVIOUS
      <4>1. CASE d = doc  BY <3>1, <3>2, <3>4, <4>1 DEF Passed
      <4>2. CASE d # doc  BY <3>1, <3>2, <4>2 DEF Passed
      <4> QED  BY <4>1, <4>2
    <3>6. \A d, s \in Nat :
            /\ HasAllow(sources[d][s], FALSE)' <=> HasAllow(sources[d][s], FALSE)
            /\ HasAllow(sources[d][s], TRUE)' <=> HasAllow(sources[d][s], TRUE)
            /\ HasDeny(sources[d][s])' <=> HasDeny(sources[d][s])
      BY <3>1 DEF HasAllow, HasDeny
    <3>7. doc' \in FirstDocument'..(LastDocument' + 1)  BY <3>1, <3>2, <3>4
    <3>8. LoopInv'  BY <3>1, <3>5, <3>6, <3>7 DEF LoopInv
    <3> QED  BY <2>b, <3>1, <3>8 DEF inputs, result
  <2>6. CASE EndOfDocuments
    <3>1. /\ ~done /\ doc > LastDocument /\ UNCHANGED inputs
          /\ Return(allowed \/ conditional, IF allowed THEN "definite" ELSE "possible")
      BY <2>6 DEF EndOfDocuments
    <3>2. /\ call = 0 => /\ ~Denied(sources, request) /\ (allowed <=> Granted(sources, request))
                         /\ ((allowed \/ conditional) <=> GrantedPossibly(sources, request))
          /\ call > 0 => ((allowed \/ conditional) <=> GrantedPossibly(<<sources[call]>>, request))
      BY <3>1, EvaluationEnds
    <3>3. call = 0 => (allowed \/ conditional) = Allowed(sources, request)
      BY <2>0, <3>2 DEF Allowed
    <3>4. call = 0 => (IF allowed THEN "definite" ELSE "possible") = AllowedConfidence(sources, request)
      BY <2>0, <3>2 DEF AllowedConfidence
    <3>5. call > 0 => (allowed \/ conditional) = GrantedPossibly(<<sources[call]>>, request)
      BY <2>0, <3>2 DEF GrantedPossibly
    <3>6. (allowed \/ conditional) \in BOOLEAN  BY <2>0
    <3> QED  BY <2>0, <3>1, <3>3, <3>4, <3>5, <3>6, ReturnsRight
  <2>7. CASE UNCHANGED vars
    <3>1. UNCHANGED <<sources, request, call, doc, stmt, allowed, conditional, matched, ok, confidence, done>>
      BY <2>7 DEF vars, inputs, locals, result
    <3>2. UNCHANGED <<FirstDocument, LastDocument>>
      BY <3>1 DEF FirstDocument, LastDocument
    <3>3. LoopInv'  BY <3>1, <3>2 DEF LoopInv, Passed, HasAllow, HasDeny
    <3> QED  BY <2>b, <2>7, <3>3 DEF vars
  <2> QED  BY <2>1, <2>2, <2>3, <2>4, <2>5, <2>6, <2>7 DEF Next
<1> QED  BY <1>1, <1>2, BoundedCorrect, PTL DEF Spec

\* AllowsAction: deny wins, then the strongest allow, in any order.
THEOREM DecisionIsOrderFreeCorrect == Spec => []DecisionIsOrderFree
<1>1. LoopInv /\ CallInv => DecisionIsOrderFree
  BY DEF CallInv, DecisionIsOrderFree
<1> QED  BY <1>1, InvInductive, PTL

\* The policies that AllowsAction cites are those that grant the action, and a
\* definite answer rests on one that grants it unconditionally.
THEOREM CitesGrantingPoliciesCorrect == Spec => []CitesGrantingPolicies
<1>1. TypeOK /\ CallInv => CitesGrantingPolicies
  <2> SUFFICES ASSUME TypeOK, CallInv, done, ok = TRUE PROVE CitesGrantingPolicies!2
    BY DEF CitesGrantingPolicies, TypeOK
  <2>1. sources \in Seq(Documents)  BY DEF TypeOK
  <2>2. matched = Cited(Len(sources)) /\ DecisionIsOrderFree  BY DEF CallInv
  <2>3. GrantedPossibly(sources, request) /\ confidence = AllowedConfidence(sources, request)
    BY <2>2 DEF DecisionIsOrderFree, Allowed
  <2>4. matched # {}
    <3>1. PICK d \in 1..Len(sources) : \E s \in 1..Len(sources[d]) :
                 Matches(sources[d][s], request) /\ sources[d][s].effect = "allow"
      BY <2>1, <2>3, ByPosition
    <3>2. GrantedPossibly(<<sources[d]>>, request)  BY <2>1, <3>1, AloneAllows
    <3> QED  BY <2>2, <3>2 DEF Cited
  <2>5. confidence = "definite" => \E k \in matched : Granted(<<sources[k]>>, request)
    <3> SUFFICES ASSUME Granted(sources, request)
                 PROVE  \E k \in matched : Granted(<<sources[k]>>, request)
      BY <2>3 DEF AllowedConfidence
    <3>1. PICK d \in 1..Len(sources) : \E s \in 1..Len(sources[d]) :
                 /\ Matches(sources[d][s], request) /\ sources[d][s].effect = "allow"
                 /\ ~sources[d][s].conditional
      BY <2>1, ByPosition
    <3>2. GrantedPossibly(<<sources[d]>>, request) /\ Granted(<<sources[d]>>, request)
      BY <2>1, <3>1, AloneAllows
    <3> QED  BY <2>2, <3>2 DEF Cited
  <2> QED  BY <2>2, <2>4, <2>5 DEF Cited
<1> QED  BY <1>1, TypeCorrect, InvInductive, PTL

-----------------------------------------------------------------------------
(* Wildcard *)

\* The ends of the parts of the name that the pattern stands for.
AllEnds == {ends \in [0..Len(pattern) -> 0..Len(name)] :
              ends[Len(pattern)] = Len(name) /\ Wild!Aligns(ends, pattern, Len(pattern), name)}

\* The first n characters of the pattern stand for the first m of the name.
FrontAligns(n, m) ==
  \E ends \in [0..n -> 0..m] : ends[n] = m /\ Wild!Aligns(ends, pattern, n, name)

WildTypes ==
  /\ \E n \in Nat : pattern \in [1..n -> Letters \cup {"*", "?"}]
  /\ \E n \in Nat : name \in [1..n -> Letters]
  /\ si \in 1..(Len(name) + 1) /\ pi \in 1..(Len(pattern) + 1)
  /\ star \in 0..(pi - 1) /\ ss \in 1..si
  /\ match \in {"running", "match", "mismatch"}

\* What is behind is matched, also when the last star stands for what it is tried with.
MatchedInv ==
  /\ FrontAligns(pi - 1, si - 1)
  /\ star # 0 => pattern[star] = "*" /\ FrontAligns(star, ss - 1)
  /\ star = 0 => ss = 1

\* However the pattern stands for the name, the last star ends no earlier than where it
\* is tried, nor does what follows it; and they end together.
EarliestInv ==
  \A ends \in AllEnds :
    /\ ends[star] >= ss - 1 /\ ends[pi - 1] >= si - 1
    /\ si <= Len(name) /\ ends[star] = ss - 1 => ends[pi - 1] = si - 1

ResultInv ==
  /\ match = "match" => AllEnds # {}
  /\ match = "mismatch" => AllEnds = {}

NoStar == \A i \in DOMAIN name : name[i] # "*"

WildInv == WildTypes /\ (NoStar => MatchedInv /\ EarliestInv /\ ResultInv)

LEMMA WildLengths ==
  ASSUME WildTypes
  PROVE  /\ Len(pattern) \in Nat /\ DOMAIN pattern = 1..Len(pattern)
         /\ Len(name) \in Nat /\ DOMAIN name = 1..Len(name)
         /\ \A i \in 1..Len(pattern) : pattern[i] \in Letters \cup {"*", "?"}
         /\ si \in Nat /\ pi \in Nat /\ star \in Nat /\ ss \in Nat
         /\ 1 <= si /\ si <= Len(name) + 1 /\ 1 <= pi /\ pi <= Len(pattern) + 1
         /\ star < pi /\ 1 <= ss /\ ss <= si
BY DEF WildTypes

\* The ends do not depend on where the loop is.
LEMMA EndsAre ==
  ASSUME WildTypes, NEW ends \in AllEnds
  PROVE  /\ \A i \in 0..Len(pattern) : ends[i] \in Nat /\ ends[i] <= Len(name)
         /\ ends[0] = 0 /\ ends[Len(pattern)] = Len(name)
         /\ \A i \in 1..Len(pattern) : pattern[i] = "*" => ends[i - 1] <= ends[i]
         /\ \A i \in 1..Len(pattern) : pattern[i] # "*" =>
              ends[i] = ends[i - 1] + 1 /\ pattern[i] \in {"?", name[ends[i]]}
<1>1. ends \in [0..Len(pattern) -> 0..Len(name)]
  BY DEF AllEnds
<1>2. ends[Len(pattern)] = Len(name) /\ Wild!Aligns(ends, pattern, Len(pattern), name)
  BY DEF AllEnds
<1>3. Len(name) \in Nat
  BY WildLengths
<1>4. ends[0] = 0 /\ \A i \in 1..Len(pattern) : pattern[i] = "*" => ends[i - 1] <= ends[i]
  BY <1>2 DEF Wild!Aligns
<1>5. \A i \in 1..Len(pattern) : pattern[i] # "*" =>
        ends[i] = ends[i - 1] + 1 /\ pattern[i] \in {"?", name[ends[i]]}
  BY <1>2 DEF Wild!Aligns
<1> QED
  BY <1>1, <1>2, <1>3, <1>4, <1>5

\* One more character of the pattern, which stands for the name up to m.
LEMMA FrontGrows ==
  ASSUME WildTypes, NEW n \in Nat, n < Len(pattern), NEW k \in Nat, FrontAligns(n, k), NEW m \in Nat,
         IF pattern[n + 1] = "*" THEN k <= m ELSE m = k + 1 /\ pattern[n + 1] \in {"?", name[m]}
  PROVE  FrontAligns(n + 1, m)
<1>1. PICK ends \in [0..n -> 0..k] : ends[n] = k /\ Wild!Aligns(ends, pattern, n, name)
  BY DEF FrontAligns
<1> DEFINE more == [i \in 0..(n + 1) |-> IF i = n + 1 THEN m ELSE ends[i]]
<1>2. more \in [0..(n + 1) -> 0..m] /\ more[n + 1] = m
  OBVIOUS
<1>3. \A i \in 0..n : more[i] = ends[i]
  OBVIOUS
<1> HIDE DEF more
<1>4. more[0] = 0
  BY <1>1, <1>3 DEF Wild!Aligns
<1>5. ASSUME NEW i \in 1..(n + 1)
      PROVE  IF pattern[i] = "*" THEN more[i - 1] <= more[i]
             ELSE more[i] = more[i - 1] + 1 /\ pattern[i] \in {"?", name[more[i]]}
  <2>1. CASE i = n + 1
    <3>1. more[i - 1] = k /\ more[i] = m
      BY <1>1, <1>2, <1>3, <2>1
    <3> QED
      BY <2>1, <3>1
  <2>2. CASE i # n + 1
    <3>1. i \in 1..n /\ more[i] = ends[i] /\ more[i - 1] = ends[i - 1]
      BY <1>3, <2>2
    <3> QED
      BY <1>1, <3>1 DEF Wild!Aligns
  <2> QED
    BY <2>1, <2>2
<1>6. Wild!Aligns(more, pattern, n + 1, name)
  BY <1>4, <1>5 DEF Wild!Aligns
<1> QED
  BY <1>2, <1>6 DEF FrontAligns

\* A star may stand for one character more.
LEMMA StarGrows ==
  ASSUME WildTypes, NEW n \in 1..Len(pattern), pattern[n] = "*", NEW m \in Nat, FrontAligns(n, m)
  PROVE  FrontAligns(n, m + 1)
<1>1. PICK ends \in [0..n -> 0..m] : ends[n] = m /\ Wild!Aligns(ends, pattern, n, name)
  BY DEF FrontAligns
<1> DEFINE more == [ends EXCEPT ![n] = m + 1]
<1>2. n \in Nat \ {0}
  BY WildLengths
<1>3. more \in [0..n -> 0..(m + 1)] /\ more[n] = m + 1 /\ \A i \in 0..n : i # n => more[i] = ends[i]
  BY <1>2
<1> HIDE DEF more
<1>4. more[0] = 0
  BY <1>1, <1>2, <1>3 DEF Wild!Aligns
<1>5. ASSUME NEW i \in 1..n
      PROVE  IF pattern[i] = "*" THEN more[i - 1] <= more[i]
             ELSE more[i] = more[i - 1] + 1 /\ pattern[i] \in {"?", name[more[i]]}
  <2>1. more[i - 1] = ends[i - 1] /\ ends[i - 1] \in Nat
    BY <1>2, <1>3
  <2>2. CASE i = n
    BY <1>1, <1>3, <2>1, <2>2 DEF Wild!Aligns
  <2>3. CASE i # n
    BY <1>1, <1>3, <2>1, <2>3, SMTT(30) DEF Wild!Aligns
  <2> QED
    BY <2>2, <2>3
<1>6. Wild!Aligns(more, pattern, n, name)
  BY <1>4, <1>5 DEF Wild!Aligns
<1> QED
  BY <1>3, <1>6 DEF FrontAligns

\* A step that leaves the words alone leaves what they allow alone.
LEMMA WordsStay ==
  ASSUME UNCHANGED <<pattern, name>>
  PROVE  /\ AllEnds' = AllEnds /\ NoStar' = NoStar
         /\ \A n, m : FrontAligns(n, m)' = FrontAligns(n, m)
BY DEF AllEnds, NoStar, FrontAligns

LEMMA WildInit == Wild!Init => WildInv
<1> SUFFICES ASSUME Wild!Init PROVE WildInv
  OBVIOUS
<1>1. /\ pattern \in Wild!Words(Letters \cup {"*", "?"}, MaxPattern) /\ name \in Wild!Words(Letters, MaxName)
      /\ si = 1 /\ pi = 1 /\ star = 0 /\ ss = 1 /\ match = "running"
  BY DEF Wild!Init
<1>2. MaxPattern \in Nat /\ MaxName \in Nat
  BY WildcardAssumption DEF Wild!BoundAssumption
<1>3. WildTypes
  <2>1. \E n \in Nat : pattern \in [1..n -> Letters \cup {"*", "?"}]
    BY <1>1, <1>2 DEF Wild!Words
  <2>2. \E n \in Nat : name \in [1..n -> Letters]
    BY <1>1, <1>2 DEF Wild!Words
  <2>3. Len(pattern) \in Nat /\ Len(name) \in Nat
    BY <2>1, <2>2
  <2> QED
    BY <1>1, <2>1, <2>2, <2>3 DEF WildTypes
<1>4. FrontAligns(0, 0)
  <2> DEFINE ends == [i \in 0..0 |-> 0]
  <2>1. ends \in [0..0 -> 0..0] /\ ends[0] = 0 /\ Wild!Aligns(ends, pattern, 0, name)
    BY DEF Wild!Aligns
  <2> QED
    BY <2>1 DEF FrontAligns
<1>5. MatchedInv
  BY <1>1, <1>4 DEF MatchedInv
<1>6. EarliestInv
  BY <1>1, <1>3, EndsAre DEF EarliestInv
<1>7. ResultInv
  BY <1>1 DEF ResultInv
<1> QED
  BY <1>3, <1>5, <1>6, <1>7 DEF WildInv

LEMMA MatchOneStep == ASSUME WildInv, Wild!MatchOne PROVE WildInv'
<1>1. /\ match = "running" /\ si <= Len(name) /\ pi <= Len(pattern) /\ pattern[pi] \in {"?", name[si]}
      /\ si' = si + 1 /\ pi' = pi + 1 /\ UNCHANGED <<pattern, name, star, ss, match>>
  BY DEF Wild!MatchOne, Wild!InName, Wild!AtPattern
<1>2. WildTypes /\ WildTypes'
  <2>1. WildTypes
    BY DEF WildInv
  <2>2. /\ si' \in 1..(Len(name) + 1) /\ pi' \in 1..(Len(pattern) + 1)
        /\ star' \in 0..(pi' - 1) /\ ss' \in 1..si'
    BY <1>1, <2>1, WildLengths
  <2> QED
    BY <1>1, <2>1, <2>2 DEF WildTypes
<1>3. /\ Len(pattern) \in Nat /\ Len(name) \in Nat /\ DOMAIN name = 1..Len(name)
      /\ si \in Nat \ {0} /\ pi \in Nat \ {0} /\ star \in Nat /\ ss \in Nat /\ star < pi
  BY <1>2, WildLengths
<1> SUFFICES ASSUME NoStar, MatchedInv, EarliestInv, ResultInv
             PROVE  MatchedInv' /\ EarliestInv' /\ ResultInv'
  BY <1>1, <1>2, WordsStay DEF WildInv
<1>4. pattern[pi] # "*"
  BY <1>1, <1>3 DEF NoStar
<1>5. FrontAligns(pi, si)
  <2>1. FrontAligns(pi - 1, si - 1) /\ pi - 1 \in Nat /\ si - 1 \in Nat /\ si - 1 + 1 = si /\ pi - 1 + 1 = pi
    BY <1>3 DEF MatchedInv
  <2> QED
    BY <1>1, <1>2, <1>3, <1>4, <2>1, FrontGrows
<1>6. MatchedInv'
  <2>1. pi' - 1 = pi /\ si' - 1 = si
    BY <1>1, <1>3
  <2> QED
    BY <1>1, <1>5, <2>1, WordsStay DEF MatchedInv
<1>7. EarliestInv'
  <2>1. ASSUME NEW ends \in AllEnds
        PROVE  /\ ends[star] >= ss - 1 /\ ends[pi] >= si
               /\ ends[star] = ss - 1 => ends[pi] = si
    <3>1. ends[pi] = ends[pi - 1] + 1 /\ ends[pi - 1] \in Nat /\ ends[star] \in Nat
      BY <1>1, <1>2, <1>3, <1>4, EndsAre
    <3> QED
      BY <1>1, <1>3, <3>1 DEF EarliestInv
  <2>2. pi' - 1 = pi /\ si' - 1 = si
    BY <1>1, <1>3
  <2> QED
    BY <1>1, <2>1, <2>2, WordsStay DEF EarliestInv
<1> QED
  BY <1>1, <1>6, <1>7, WordsStay DEF ResultInv

LEMMA MeetStarStep == ASSUME WildInv, Wild!MeetStar PROVE WildInv'
<1>1. /\ match = "running" /\ si <= Len(name) /\ pi <= Len(pattern) /\ pattern[pi] = "*"
      /\ star' = pi /\ ss' = si /\ pi' = pi + 1 /\ UNCHANGED <<pattern, name, si, match>>
  BY DEF Wild!MeetStar, Wild!InName, Wild!AtPattern
<1>2. WildTypes /\ WildTypes'
  <2>1. WildTypes
    BY DEF WildInv
  <2>2. /\ si' \in 1..(Len(name) + 1) /\ pi' \in 1..(Len(pattern) + 1)
        /\ star' \in 0..(pi' - 1) /\ ss' \in 1..si'
    BY <1>1, <2>1, WildLengths
  <2> QED
    BY <1>1, <2>1, <2>2 DEF WildTypes
<1>3. /\ Len(pattern) \in Nat /\ Len(name) \in Nat
      /\ si \in Nat \ {0} /\ pi \in Nat \ {0} /\ star \in Nat /\ ss \in Nat /\ star < pi
  BY <1>2, WildLengths
<1> SUFFICES ASSUME NoStar, MatchedInv, EarliestInv, ResultInv
             PROVE  MatchedInv' /\ EarliestInv' /\ ResultInv'
  BY <1>1, <1>2, WordsStay DEF WildInv
<1>4. FrontAligns(pi, si - 1)
  <2>1. FrontAligns(pi - 1, si - 1) /\ pi - 1 \in Nat /\ si - 1 \in Nat /\ pi - 1 + 1 = pi
    BY <1>3 DEF MatchedInv
  <2> QED
    BY <1>1, <1>2, <1>3, <2>1, FrontGrows
<1>5. pi' - 1 = pi
  BY <1>1, <1>3
<1>6. MatchedInv'
  BY <1>1, <1>3, <1>4, <1>5, WordsStay DEF MatchedInv
<1>7. EarliestInv'
  <2>1. ASSUME NEW ends \in AllEnds PROVE ends[pi] >= si - 1
    <3>1. ends[pi] >= ends[pi - 1] /\ ends[pi - 1] \in Nat /\ ends[pi] \in Nat
      BY <1>1, <1>2, <1>3, EndsAre
    <3>2. ends[pi - 1] >= si - 1
      BY DEF EarliestInv
    <3> QED
      BY <1>3, <3>1, <3>2
  <2> QED
    BY <1>1, <1>5, <2>1, WordsStay DEF EarliestInv
<1> QED
  BY <1>1, <1>6, <1>7, WordsStay DEF ResultInv

\* Where neither the pattern nor a star goes on, the last star does not end where it is
\* tried.
LEMMA Stuck ==
  ASSUME WildInv, NoStar, Wild!InName, ~ Wild!AtPattern({"?", name[si], "*"}), NEW ends \in AllEnds
  PROVE  ends[star] >= ss
<1>1. WildTypes /\ EarliestInv
  BY DEF WildInv
<1>2. /\ Len(pattern) \in Nat /\ Len(name) \in Nat
      /\ si \in Nat \ {0} /\ pi \in Nat \ {0} /\ star \in Nat /\ ss \in Nat /\ star < pi /\ pi <= Len(pattern) + 1
  BY <1>1, WildLengths
<1>3. si <= Len(name) /\ (pi <= Len(pattern) => pattern[pi] \notin {"?", name[si], "*"})
  BY DEF Wild!InName, Wild!AtPattern
<1>4. ends[star] \in Nat /\ ends[star] >= ss - 1
  BY <1>1, <1>2, EndsAre DEF EarliestInv
<1>5. ASSUME ends[star] = ss - 1 PROVE FALSE
  <2>1. ends[pi - 1] = si - 1
    BY <1>1, <1>3, <1>5 DEF EarliestInv
  <2>2. CASE pi <= Len(pattern)
    <3>1. ends[pi] = ends[pi - 1] + 1 /\ pattern[pi] \in {"?", name[ends[pi]]}
      BY <1>1, <1>2, <1>3, <2>2, EndsAre
    <3>2. ends[pi] = si
      BY <1>2, <2>1, <3>1
    <3> QED
      BY <1>3, <2>2, <3>1, <3>2
  <2>3. CASE ~ (pi <= Len(pattern))
    <3>1. pi - 1 = Len(pattern)
      BY <1>2, <2>3
    <3>2. ends[pi - 1] = Len(name)
      BY <1>1, <3>1, EndsAre
    <3> QED
      BY <1>2, <1>3, <2>1, <3>2
  <2> QED
    BY <2>2, <2>3
<1> QED
  BY <1>2, <1>4, <1>5

LEMMA BackToStarStep == ASSUME WildInv, Wild!BackToStar PROVE WildInv'
<1>1. /\ Wild!InName /\ ~ Wild!AtPattern({"?", name[si], "*"}) /\ star # 0
      /\ pi' = star + 1 /\ ss' = ss + 1 /\ si' = ss + 1 /\ UNCHANGED <<pattern, name, star, match>>
  BY DEF Wild!BackToStar
<1>2. match = "running" /\ si <= Len(name)
  BY <1>1 DEF Wild!InName
<1>3. WildTypes /\ WildTypes'
  <2>1. WildTypes
    BY DEF WildInv
  <2>2. /\ si' \in 1..(Len(name) + 1) /\ pi' \in 1..(Len(pattern) + 1)
        /\ star' \in 0..(pi' - 1) /\ ss' \in 1..si'
    BY <1>1, <1>2, <2>1, WildLengths
  <2> QED
    BY <1>1, <2>1, <2>2 DEF WildTypes
<1>4. /\ Len(pattern) \in Nat /\ Len(name) \in Nat /\ star \in 1..Len(pattern) /\ ss \in Nat \ {0}
      /\ pi' - 1 = star /\ si' - 1 = ss /\ ss' - 1 = ss
  BY <1>1, <1>3, WildLengths, SMTT(30)
<1> SUFFICES ASSUME NoStar, MatchedInv, EarliestInv, ResultInv
             PROVE  MatchedInv' /\ EarliestInv' /\ ResultInv'
  BY <1>1, <1>3, WordsStay DEF WildInv
<1>5. pattern[star] = "*" /\ FrontAligns(star, ss)
  <2>1. pattern[star] = "*" /\ FrontAligns(star, ss - 1) /\ ss - 1 \in Nat /\ ss - 1 + 1 = ss
    BY <1>1, <1>4 DEF MatchedInv
  <2> QED
    BY <1>3, <1>4, <2>1, StarGrows
<1>6. MatchedInv'
  BY <1>1, <1>4, <1>5, WordsStay DEF MatchedInv
<1>7. \A ends \in AllEnds : ends[star] >= ss
  BY <1>1, Stuck
<1>8. EarliestInv'
  BY <1>1, <1>4, <1>7, WordsStay DEF EarliestInv
<1> QED
  BY <1>1, <1>2, <1>6, <1>8, WordsStay DEF ResultInv

LEMMA MismatchStep == ASSUME WildInv, Wild!Mismatch PROVE WildInv'
<1>1. /\ Wild!InName /\ ~ Wild!AtPattern({"?", name[si], "*"}) /\ star = 0
      /\ match' = "mismatch" /\ UNCHANGED <<pattern, name, si, pi, star, ss>>
  BY DEF Wild!Mismatch
<1>2. WildTypes /\ WildTypes'
  BY <1>1 DEF WildInv, WildTypes
<1> SUFFICES ASSUME NoStar, MatchedInv, EarliestInv, ResultInv
             PROVE  MatchedInv' /\ EarliestInv' /\ ResultInv'
  BY <1>1, <1>2, WordsStay DEF WildInv
<1>3. MatchedInv' /\ EarliestInv'
  BY <1>1, WordsStay DEF MatchedInv, EarliestInv
<1>4. AllEnds = {}
  <2> SUFFICES ASSUME NEW ends \in AllEnds PROVE FALSE
    OBVIOUS
  <2>1. ends[star] >= ss
    BY <1>1, Stuck
  <2>2. ends[0] = 0 /\ ss = 1
    BY <1>1, <1>2, EndsAre DEF MatchedInv
  <2> QED
    BY <1>1, <2>1, <2>2
<1> QED
  BY <1>1, <1>3, <1>4, WordsStay DEF ResultInv

LEMMA SkipTrailingStarStep == ASSUME WildInv, Wild!SkipTrailingStar PROVE WildInv'
<1>1. /\ match = "running" /\ si > Len(name) /\ pi <= Len(pattern) /\ pattern[pi] = "*"
      /\ pi' = pi + 1 /\ UNCHANGED <<pattern, name, si, star, ss, match>>
  BY DEF Wild!SkipTrailingStar, Wild!AtPattern
<1>2. WildTypes /\ WildTypes'
  <2>1. WildTypes
    BY DEF WildInv
  <2>2. /\ si' \in 1..(Len(name) + 1) /\ pi' \in 1..(Len(pattern) + 1)
        /\ star' \in 0..(pi' - 1) /\ ss' \in 1..si'
    BY <1>1, <2>1, WildLengths
  <2> QED
    BY <1>1, <2>1, <2>2 DEF WildTypes
<1>3. /\ Len(pattern) \in Nat /\ Len(name) \in Nat /\ si \in Nat \ {0} /\ pi \in Nat \ {0} /\ pi' - 1 = pi
      /\ ~ (si <= Len(name))
  BY <1>1, <1>2, WildLengths
<1> SUFFICES ASSUME NoStar, MatchedInv, EarliestInv, ResultInv
             PROVE  MatchedInv' /\ EarliestInv' /\ ResultInv'
  BY <1>1, <1>2, WordsStay DEF WildInv
<1>4. FrontAligns(pi, si - 1)
  <2>1. FrontAligns(pi - 1, si - 1) /\ pi - 1 \in Nat /\ si - 1 \in Nat /\ pi - 1 + 1 = pi
    BY <1>3 DEF MatchedInv
  <2> QED
    BY <1>1, <1>2, <1>3, <2>1, FrontGrows
<1>5. MatchedInv'
  BY <1>1, <1>3, <1>4, WordsStay DEF MatchedInv
<1>6. EarliestInv'
  <2>1. ASSUME NEW ends \in AllEnds PROVE ends[star] >= ss - 1 /\ ends[pi] >= si - 1
    <3>1. ends[pi] >= ends[pi - 1] /\ ends[pi - 1] \in Nat /\ ends[pi] \in Nat
      BY <1>1, <1>2, <1>3, EndsAre
    <3>2. ends[pi - 1] >= si - 1 /\ ends[star] >= ss - 1
      BY DEF EarliestInv
    <3> QED
      BY <1>3, <3>1, <3>2
  <2> QED
    BY <1>1, <1>3, <2>1, WordsStay DEF EarliestInv
<1> QED
  BY <1>1, <1>5, <1>6, WordsStay DEF ResultInv

LEMMA EndStep == ASSUME WildInv, Wild!End PROVE WildInv'
<1>1. /\ match = "running" /\ si > Len(name) /\ ~ Wild!AtPattern({"*"})
      /\ match' = (IF pi = Len(pattern) + 1 THEN "match" ELSE "mismatch")
      /\ UNCHANGED <<pattern, name, si, pi, star, ss>>
  BY DEF Wild!End
<1>2. WildTypes /\ WildTypes'
  BY <1>1 DEF WildInv, WildTypes
<1>3. /\ Len(pattern) \in Nat /\ Len(name) \in Nat /\ pi \in 1..(Len(pattern) + 1) /\ si = Len(name) + 1
  BY <1>1, <1>2, WildLengths
<1> SUFFICES ASSUME NoStar, MatchedInv, EarliestInv, ResultInv
             PROVE  MatchedInv' /\ EarliestInv' /\ ResultInv'
  BY <1>1, <1>2, WordsStay DEF WildInv
<1>4. MatchedInv' /\ EarliestInv'
  BY <1>1, WordsStay DEF MatchedInv, EarliestInv
<1>5. ASSUME pi = Len(pattern) + 1 PROVE AllEnds # {}
  <2>1. FrontAligns(Len(pattern), Len(name))
    BY <1>3, <1>5 DEF MatchedInv
  <2>2. PICK ends \in [0..Len(pattern) -> 0..Len(name)] :
               ends[Len(pattern)] = Len(name) /\ Wild!Aligns(ends, pattern, Len(pattern), name)
    BY <2>1 DEF FrontAligns
  <2> QED
    BY <2>2 DEF AllEnds
<1>6. ASSUME pi # Len(pattern) + 1 PROVE AllEnds = {}
  <2> SUFFICES ASSUME NEW ends \in AllEnds PROVE FALSE
    OBVIOUS
  <2>1. pi <= Len(pattern) /\ pattern[pi] # "*"
    BY <1>1, <1>3, <1>6 DEF Wild!AtPattern
  <2>2. /\ ends[pi] = ends[pi - 1] + 1 /\ ends[pi - 1] \in Nat /\ ends[pi] <= Len(name)
    BY <1>2, <1>3, <2>1, EndsAre
  <2>3. ends[pi - 1] >= si - 1
    BY DEF EarliestInv
  <2> QED
    BY <1>3, <2>2, <2>3
<1> QED
  BY <1>1, <1>4, <1>5, <1>6, WordsStay DEF ResultInv

LEMMA WildInvariant == Wild!Spec => []WildInv
<1>1. WildInv /\ [Wild!Next]_(Wild!vars) => WildInv'
  <2> SUFFICES ASSUME WildInv, [Wild!Next]_(Wild!vars) PROVE WildInv'
    OBVIOUS
  <2>1. CASE UNCHANGED Wild!vars
    <3>1. UNCHANGED <<pattern, name, si, pi, star, ss, match>>
      BY <2>1 DEF Wild!vars
    <3> QED
      <4>1. WildTypes /\ WildTypes'
        BY <3>1 DEF WildInv, WildTypes
      <4>2. NoStar' = NoStar /\ AllEnds' = AllEnds
        BY <3>1, WordsStay
      <4>3. FrontAligns(pi - 1, si - 1)' = FrontAligns(pi - 1, si - 1) /\ FrontAligns(star, ss - 1)' = FrontAligns(star, ss - 1)
        BY <3>1 DEF FrontAligns
      <4>4. MatchedInv' = MatchedInv
        BY <3>1, <4>3 DEF MatchedInv
      <4>5. EarliestInv' = EarliestInv
        BY <3>1, <4>2 DEF EarliestInv
      <4>6. ResultInv' = ResultInv
        BY <3>1, <4>2 DEF ResultInv
      <4> QED
        BY <4>1, <4>2, <4>4, <4>5, <4>6 DEF WildInv
  <2> QED
    BY <2>1, MatchOneStep, MeetStarStep, BackToStarStep, MismatchStep, SkipTrailingStarStep, EndStep
    DEF Wild!Next
<1> QED
  BY <1>1, WildInit, PTL DEF Wild!Spec

\* The loop, which only ever tries another length for the last star, matches exactly the
\* names without a star that the pattern stands for, for patterns and names of any length.
THEOREM MatchIsGlobCorrect == Wild!Spec => []MatchIsGlob
<1>1. WildInv => MatchIsGlob
  <2> SUFFICES ASSUME WildInv, match # "running", NoStar
               PROVE  match = "match" <=> Wild!Glob(pattern, name)
    BY DEF MatchIsGlob, Wild!MatchIsGlob, NoStar
  <2>1. match \in {"match", "mismatch"} /\ ResultInv
    BY DEF WildInv, WildTypes
  <2>2. AllEnds # {} <=> Wild!Glob(pattern, name)
    BY DEF AllEnds, Wild!Glob
  <2> QED
    BY <2>1, <2>2 DEF ResultInv
<1> QED
  BY <1>1, WildInvariant, PTL
=============================================================================

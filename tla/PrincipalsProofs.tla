-------------------------- MODULE PrincipalsProofs --------------------------
(***************************************************************************)
(* Theorems about what principals may do, for every account, every policy  *)
(* and every interleaving of the reads with changes to the graph.          *)
(***************************************************************************)
EXTENDS Principals, FiniteSetTheorems, TLAPS

-----------------------------------------------------------------------------
(* PrincipalPolicies *)

Fields == {"attached", "memberOf", "stored"}

\* What is stored now was so at some time, and what was so all the time is stored now.
HistoryInv ==
  /\ DOMAIN ever = Fields /\ DOMAIN steady = Fields
  /\ attached \subseteq ever.attached /\ memberOf \subseteq ever.memberOf /\ stored \subseteq ever.stored
  /\ steady.attached \subseteq attached /\ steady.memberOf \subseteq memberOf /\ steady.stored \subseteq stored
  /\ ever.memberOf \subseteq ReaderGroups /\ stored \subseteq ReaderPolicies

\* The place of the reads: whose policies are visited, and whose are to come.
PlaceInv ==
  /\ sources \in Seq(ReaderPolicies) /\ rows \subseteq ReaderPolicies
  /\ owner = None => rows = {}
  /\ owner # None => /\ owner \in {Reader} \cup ever.memberOf
                     /\ \A p \in rows : <<owner, p>> \in ever.attached
  /\ groups \subseteq ever.memberOf
  /\ status = "done" => owner = None /\ joined /\ groups = {}

\* What the steady policies of an owner, once it is read, are among.
OfOwner(o) == \A p \in steady.stored : <<o, p>> \in steady.attached => p \in seen \cup rows

\* Nothing that was there all the time is passed over.
ReadInv ==
  /\ owner = Reader \/ joined => OfOwner(Reader)
  /\ joined => \A g \in steady.memberOf : g \in groups \/ OfOwner(g)
  /\ status # "error" =>
       \A p \in (seen \cap steady.stored) \ unread : \E k \in 1..Len(sources) : sources[k] = p

\* What is read was the principal's, and each policy is read once.
SourcesInv ==
  /\ \A k \in 1..Len(sources) : sources[k] \in seen /\ sources[k] \in Reads!Effective(ever)
  /\ \A k, l \in 1..Len(sources) : sources[k] = sources[l] => k = l

ReadsInv == HistoryInv /\ PlaceInv /\ ReadInv /\ SourcesInv

LEMMA ReadsInit == Reads!Init => ReadsInv
<1> SUFFICES ASSUME Reads!Init PROVE ReadsInv
  OBVIOUS
<1>1. /\ stored \subseteq ReaderPolicies /\ memberOf \subseteq ReaderGroups
      /\ ever = [attached |-> attached, memberOf |-> memberOf, stored |-> stored] /\ steady = ever
      /\ owner = None /\ rows = {} /\ groups = {} /\ joined = FALSE /\ seen = {} /\ sources = <<>>
      /\ status = "reading"
  BY DEF Reads!Init, Reads!Now
<1>2. None # Reader
  BY PrincipalsAssumption DEF Reads!PolicyAssumption
<1>3. HistoryInv
  BY <1>1 DEF HistoryInv, Fields
<1> QED
  BY <1>1, <1>2, <1>3 DEF ReadsInv, PlaceInv, ReadInv, SourcesInv

LEMMA NoOwner == None # Reader /\ None \notin ReaderGroups
BY PrincipalsAssumption DEF Reads!PolicyAssumption

\* While the graph does not change, its history does not.
LEMMA HistoryStays ==
  ASSUME HistoryInv, UNCHANGED <<attached, memberOf, stored, ever, steady>>
  PROVE  HistoryInv'
BY DEF HistoryInv

LEMMA CollectOwnStep == ASSUME ReadsInv, status = "reading", Reads!CollectOwn PROVE ReadsInv'
<1>1. /\ owner = None /\ ~ joined /\ owner' = Reader
      /\ rows' = {p \in ReaderPolicies : <<Reader, p>> \in attached}
      /\ UNCHANGED <<attached, memberOf, stored, ever, steady, changes, groups, joined, seen, unread, sources, status>>
  BY DEF Reads!CollectOwn, Reads!CollectOf, Reads!PoliciesOf, Reads!graph, Reads!history
<1>2. HistoryInv'
  BY <1>1, HistoryStays DEF ReadsInv
<1>3. PlaceInv'
  BY <1>1, NoOwner DEF ReadsInv, HistoryInv, PlaceInv
<1>4. ReadInv'
  BY <1>1 DEF ReadsInv, HistoryInv, PlaceInv, ReadInv, OfOwner
<1>5. SourcesInv'
  BY <1>1 DEF ReadsInv, SourcesInv, Reads!Effective
<1> QED
  BY <1>2, <1>3, <1>4, <1>5 DEF ReadsInv

LEMMA CollectGroupStep == ASSUME ReadsInv, status = "reading", Reads!CollectGroup PROVE ReadsInv'
<1>1. PICK g \in groups :
        /\ owner = None /\ joined /\ owner' = g /\ groups' = groups \ {g}
        /\ rows' = {p \in ReaderPolicies : <<g, p>> \in attached}
        /\ UNCHANGED <<attached, memberOf, stored, ever, steady, changes, joined, seen, unread, sources, status>>
  BY DEF Reads!CollectGroup, Reads!CollectOf, Reads!PoliciesOf, Reads!graph, Reads!history
<1>2. HistoryInv'
  BY <1>1, HistoryStays DEF ReadsInv
<1>3. PlaceInv'
  BY <1>1, NoOwner DEF ReadsInv, HistoryInv, PlaceInv
<1>4. ReadInv'
  <2>1. OfOwner(g)'
    BY <1>1 DEF ReadsInv, HistoryInv, OfOwner
  <2>2. rows = {}
    BY <1>1 DEF ReadsInv, PlaceInv
  <2>3. \A o : OfOwner(o) => OfOwner(o)'
    BY <1>1, <2>2 DEF OfOwner
  <2> QED
    BY <1>1, <2>1, <2>3 DEF ReadsInv, ReadInv
<1>5. SourcesInv'
  BY <1>1 DEF ReadsInv, SourcesInv, Reads!Effective
<1> QED
  BY <1>2, <1>3, <1>4, <1>5 DEF ReadsInv

LEMMA VisitSeenStep == ASSUME ReadsInv, status = "reading", Reads!VisitSeen PROVE ReadsInv'
<1>1. PICK p \in rows \cap seen :
        /\ rows' = rows \ {p}
        /\ UNCHANGED <<attached, memberOf, stored, ever, steady, owner, groups, joined, seen, unread, sources, status>>
  BY DEF Reads!VisitSeen, Reads!graph, Reads!history
<1>2. HistoryInv'
  BY <1>1, HistoryStays DEF ReadsInv
<1>3. PlaceInv'
  BY <1>1 DEF ReadsInv, PlaceInv
<1>4. ReadInv'
  BY <1>1 DEF ReadsInv, ReadInv, OfOwner
<1>5. SourcesInv'
  BY <1>1 DEF ReadsInv, SourcesInv, Reads!Effective
<1> QED
  BY <1>2, <1>3, <1>4, <1>5 DEF ReadsInv

LEMMA VisitStep == ASSUME ReadsInv, status = "reading", Reads!Visit PROVE ReadsInv'
<1>1. PICK p \in rows \ seen :
        /\ rows' = rows \ {p} /\ seen' = seen \cup {p}
        /\ \/ sources' = (IF p \in stored THEN Append(sources, p) ELSE sources) /\ unread' = unread
           \/ sources' = sources /\ unread' = unread \cup {p}
        /\ UNCHANGED <<attached, memberOf, stored, ever, steady, owner, groups, joined, status>>
  BY DEF Reads!Visit, Reads!graph, Reads!history
<1>2. HistoryInv'
  BY <1>1, HistoryStays DEF ReadsInv
<1>3. sources \in Seq(ReaderPolicies) /\ p \in ReaderPolicies /\ owner # None
      /\ owner \in {Reader} \cup ever.memberOf /\ <<owner, p>> \in ever.attached
  BY <1>1 DEF ReadsInv, PlaceInv
<1>4. PlaceInv'
  <2>1. sources' \in Seq(ReaderPolicies)
    BY <1>1, <1>3
  <2> QED
    BY <1>1, <2>1 DEF ReadsInv, PlaceInv
<1> DEFINE Added == /\ p \in stored /\ Len(sources') = Len(sources) + 1 /\ sources'[Len(sources) + 1] = p
                    /\ \A k \in 1..Len(sources) : sources'[k] = sources[k]
<1>5. Len(sources) \in Nat /\ (Added \/ (sources' = sources /\ (p \in stored => p \in unread'))) /\ unread \subseteq unread'
  BY <1>1, <1>3
<1>6. ReadInv'
  <2>1. \A o : OfOwner(o) => OfOwner(o)'
    BY <1>1 DEF OfOwner
  <2>2. ASSUME NEW q \in (seen' \cap steady.stored) \ unread'
        PROVE  \E k \in 1..Len(sources') : sources'[k] = q
    <3>1. steady.stored \subseteq stored
      BY DEF ReadsInv, HistoryInv
    <3>2. CASE q = p
      BY <1>5, <2>2, <3>1, <3>2
    <3>3. CASE q # p
      <4>1. PICK k \in 1..Len(sources) : sources[k] = q
        BY <1>1, <1>5, <2>2, <3>3 DEF ReadsInv, ReadInv
      <4>2. k \in 1..Len(sources') /\ sources'[k] = q
        BY <1>5, <4>1
      <4> QED
        BY <4>2
    <3> QED
      BY <3>2, <3>3
  <2> QED
    BY <1>1, <2>1, <2>2 DEF ReadsInv, ReadInv
<1>7. SourcesInv'
  <2>1. CASE Added
    <3>1. p \in Reads!Effective(ever)
      BY <1>3, <2>1 DEF Reads!Effective, ReadsInv, HistoryInv
    <3>2. \A k \in 1..Len(sources') : k \in 1..Len(sources) \/ (k = Len(sources) + 1 /\ sources'[k] = p)
      BY <1>5, <2>1
    <3>3. \A k \in 1..Len(sources) : sources'[k] \in seen /\ sources'[k] # p /\ sources'[k] \in Reads!Effective(ever)
      BY <1>1, <1>5, <2>1 DEF ReadsInv, SourcesInv
    <3>4. \A k, l \in 1..Len(sources) : sources'[k] = sources'[l] => k = l
      BY <1>5, <2>1 DEF ReadsInv, SourcesInv
    <3>5. Reads!Effective(ever)' = Reads!Effective(ever)
      BY <1>1 DEF Reads!Effective
    <3> QED
      BY <1>1, <3>1, <3>2, <3>3, <3>4, <3>5 DEF SourcesInv
  <2>2. CASE sources' = sources
    BY <1>1, <2>2 DEF ReadsInv, SourcesInv, Reads!Effective
  <2> QED
    BY <1>5, <2>1, <2>2
<1> QED
  BY <1>2, <1>4, <1>6, <1>7 DEF ReadsInv

LEMMA OtherReadsStep ==
  ASSUME ReadsInv, status = "reading", Reads!ReadGroups \/ Reads!EndGroup \/ Reads!Finish PROVE ReadsInv'
<1>1. /\ UNCHANGED <<attached, memberOf, stored, ever, steady, rows, seen, unread, sources>>
      /\ owner' = None /\ rows = {}
      /\ \/ owner = Reader /\ joined' = TRUE /\ groups' = memberOf /\ status' = status
         \/ owner \in ReaderGroups /\ UNCHANGED <<joined, groups, status>>
         \/ owner = None /\ joined /\ groups = {} /\ UNCHANGED <<joined, groups>> /\ status' = "done"
  BY DEF Reads!ReadGroups, Reads!EndGroup, Reads!Finish, Reads!graph, Reads!history, ReadsInv, PlaceInv
<1>2. HistoryInv'
  BY <1>1, HistoryStays DEF ReadsInv
<1>3. PlaceInv'
  BY <1>1 DEF ReadsInv, HistoryInv, PlaceInv
<1>4. ReadInv'
  <2>1. \A o : OfOwner(o)' <=> OfOwner(o)
    BY <1>1 DEF OfOwner
  <2> QED
    BY <1>1, <2>1, NoOwner DEF ReadsInv, HistoryInv, ReadInv
<1>5. SourcesInv'
  BY <1>1 DEF ReadsInv, SourcesInv, Reads!Effective
<1> QED
  BY <1>2, <1>3, <1>4, <1>5 DEF ReadsInv

LEMMA FailReadStep == ASSUME ReadsInv, Reads!Fail PROVE ReadsInv'
<1>1. /\ status' = "error" /\ sources' = <<>>
      /\ UNCHANGED <<attached, memberOf, stored, ever, steady, owner, rows, groups, joined, seen, unread>>
  BY DEF Reads!Fail, Reads!graph, Reads!history
<1>2. HistoryInv'
  BY <1>1, HistoryStays DEF ReadsInv
<1>3. PlaceInv'
  BY <1>1 DEF ReadsInv, PlaceInv
<1>4. ReadInv'
  BY <1>1 DEF ReadsInv, ReadInv, OfOwner
<1>5. SourcesInv'
  BY <1>1 DEF SourcesInv
<1> QED
  BY <1>2, <1>3, <1>4, <1>5 DEF ReadsInv

\* What was stored at some time grows, what was so all the time shrinks.
LEMMA GraphChangesStep == ASSUME ReadsInv, Reads!GraphChanges PROVE ReadsInv'
<1>1. /\ ever' = [f \in DOMAIN ever |-> ever[f] \cup Reads!Now'[f]]
      /\ steady' = [f \in DOMAIN steady |-> steady[f] \cap Reads!Now'[f]]
      /\ UNCHANGED <<owner, rows, groups, joined, seen, unread, sources, status>>
  BY DEF Reads!GraphChanges
<1>2. stored' \subseteq ReaderPolicies /\ memberOf' \subseteq ReaderGroups
  BY DEF Reads!GraphChanges, Reads!Toggle, ReadsInv, HistoryInv
<1>3. /\ Reads!Now'["attached"] = attached' /\ Reads!Now'["memberOf"] = memberOf'
      /\ Reads!Now'["stored"] = stored'
  BY DEF Reads!Now
<1>4. DOMAIN ever = Fields /\ DOMAIN steady = Fields
  BY DEF ReadsInv, HistoryInv
<1>5. /\ ever'.attached = ever.attached \cup attached' /\ ever'.memberOf = ever.memberOf \cup memberOf'
      /\ ever'.stored = ever.stored \cup stored'
      /\ steady'.attached = steady.attached \cap attached'
      /\ steady'.memberOf = steady.memberOf \cap memberOf'
      /\ steady'.stored = steady.stored \cap stored'
      /\ DOMAIN ever' = Fields /\ DOMAIN steady' = Fields
  BY <1>1, <1>3, <1>4 DEF Fields
<1>6. HistoryInv'
  BY <1>2, <1>5 DEF ReadsInv, HistoryInv
<1>7. PlaceInv'
  BY <1>1, <1>5 DEF ReadsInv, PlaceInv
<1>8. ReadInv'
  <2>1. \A o : OfOwner(o) => OfOwner(o)'
    BY <1>1, <1>5 DEF OfOwner
  <2> QED
    BY <1>1, <1>5, <2>1 DEF ReadsInv, ReadInv
<1>9. SourcesInv'
  <2>1. Reads!Effective(ever) \subseteq Reads!Effective(ever)'
    BY <1>5 DEF Reads!Effective
  <2> QED
    BY <1>1, <2>1 DEF ReadsInv, SourcesInv
<1> QED
  BY <1>6, <1>7, <1>8, <1>9 DEF ReadsInv

LEMMA ReadsInvariant == Reads!Spec => []ReadsInv
<1>1. ReadsInv /\ [Reads!Next]_(Reads!vars) => ReadsInv'
  <2> SUFFICES ASSUME ReadsInv, [Reads!Next]_(Reads!vars) PROVE ReadsInv'
    OBVIOUS
  <2>1. CASE Reads!Read
    BY <2>1, CollectOwnStep, CollectGroupStep, VisitSeenStep, VisitStep, OtherReadsStep DEF Reads!Read
  <2>2. CASE UNCHANGED Reads!vars
    BY <2>2 DEF Reads!vars, Reads!graph, Reads!history, ReadsInv, HistoryInv, PlaceInv, ReadInv, OfOwner,
                SourcesInv, Reads!Effective
  <2> QED
    BY <2>1, <2>2, FailReadStep, GraphChangesStep DEF Reads!Next
<1> QED
  BY <1>1, ReadsInit, PTL DEF Reads!Spec

\* Of the policies that PrincipalPolicies reads while the graph changes: one that the
\* principal had all the time, of its own or by a group, is read, unless the read of its
\* node failed, which is no error.
THEOREM SteadyPolicyReadCorrect == Reads!Spec => []SteadyPolicyRead
<1>1. ReadsInv => Reads!SteadyPolicyRead
  <2> SUFFICES ASSUME ReadsInv, status = "done", NEW p \in Reads!Effective(steady) \ unread
               PROVE  \E k \in DOMAIN sources : sources[k] = p
    BY DEF Reads!SteadyPolicyRead
  <2>1. DOMAIN sources = 1..Len(sources)
    BY DEF ReadsInv, PlaceInv
  <2>2. rows = {} /\ joined /\ groups = {}
    BY DEF ReadsInv, PlaceInv
  <2>3. p \in seen /\ p \in steady.stored
    BY <2>2 DEF ReadsInv, ReadInv, OfOwner, Reads!Effective
  <2> QED
    BY <2>1, <2>3 DEF ReadsInv, ReadInv
<1> QED
  BY <1>1, ReadsInvariant, PTL DEF SteadyPolicyRead

\* Every policy read was the principal's, or its pieces were stored at some time, and
\* it is read once, through however many edges it is reached.
THEOREM ReadPolicyWasEffectiveCorrect == Reads!Spec => []ReadPolicyWasEffective
<1>1. ReadsInv => Reads!ReadPolicyWasEffective
  <2> SUFFICES ASSUME ReadsInv PROVE Reads!ReadPolicyWasEffective
    OBVIOUS
  <2>1. DOMAIN sources = 1..Len(sources)
    BY DEF ReadsInv, PlaceInv
  <2> QED
    BY <2>1 DEF Reads!ReadPolicyWasEffective, ReadsInv, SourcesInv
<1> QED
  BY <1>1, ReadsInvariant, PTL DEF ReadPolicyWasEffective

-----------------------------------------------------------------------------
(* IamCollector *)

InlineId(o, name) == Collects!InlinePolicyNodeID(Collects!OwnerId(o), name)

\* The edges that an item of a page gives.
EdgesOf(x) ==
  (IF x \in Collects!Owners THEN Collects!PolicyEdges(x) ELSE {})
  \cup (IF x \in Users
        THEN {Collects!Edge(Collects!OwnerId(x), "member-of", Collects!groupARN(g)) : g \in aws.memberOf[x]}
        ELSE {})
  \cup (IF x \in IamRoles
        THEN {Collects!Edge(<<"profile", p>>, "runs-as", Collects!OwnerId(x)) : p \in aws.profiles[x]}
        ELSE {})

\* The policy nodes are those of the items that came, with the documents in force.
NodesInv ==
  /\ \A m \in Managed :
       /\ Collects!ManagedId(m) \in DOMAIN nodes <=> m \notin left
       /\ m \notin left => nodes[Collects!ManagedId(m)] = <<m, aws.default[m]>>
  /\ \A o \in Collects!Owners, name \in Names :
       /\ InlineId(o, name) \in DOMAIN nodes <=> o \notin left /\ <<o, name>> \in aws.inline
       /\ InlineId(o, name) \in DOMAIN nodes => nodes[InlineId(o, name)] = <<o, name>>

CollectInv ==
  /\ aws \in AwsOptions /\ left \subseteq Collects!Items
  /\ edges = UNION {EdgesOf(x) : x \in Collects!Items \ left}
  /\ NodesInv
  /\ pages = "done" /\ left # {} => warned

LEMMA AwsIsTyped ==
  ASSUME aws \in AwsOptions
  PROVE  /\ \A u \in Users : aws.memberOf[u] \subseteq Groups
         /\ \A o \in Collects!Owners : aws.attached[o] \subseteq Managed
         /\ aws.inline \subseteq Collects!Owners \X Names
         /\ \A m \in Managed : /\ aws.default[m] \in 1..aws.versions[m] /\ aws.versions[m] \in Nat
                               /\ <<m, aws.default[m]>> # None
         /\ \A o \in Collects!Owners, name \in Names : <<o, name>> # None
         /\ Users \cap IamRoles = {} /\ (Users \cup IamRoles) \cap Groups = {}
         /\ Collects!Owners \cap Managed = {}
<1>1. Collects!CollectorAssumption
  BY PrincipalsAssumption
<1>2. /\ aws.memberOf \in [Users -> SUBSET Groups] /\ aws.attached \in [Collects!Owners -> SUBSET Managed]
      /\ aws.inline \subseteq Collects!Owners \X Names /\ aws.versions \in [Managed -> Nat]
      /\ aws.default \in [Managed -> Nat]
  BY <1>1 DEF Collects!CollectorAssumption, Collects!AwsType
<1>3. /\ Users \cap IamRoles = {} /\ (Users \cup IamRoles) \cap Groups = {}
      /\ Collects!Owners \cap Managed = {}
      /\ None \notin (Managed \X Nat) \cup (Collects!Owners \X Names)
      /\ \A m \in Managed : aws.default[m] \in 1..aws.versions[m]
  BY <1>1 DEF Collects!CollectorAssumption, Collects!Holders
<1>4. \A m \in Managed : <<m, aws.default[m]>> # None
  <2> SUFFICES ASSUME NEW m \in Managed PROVE <<m, aws.default[m]>> # None
    OBVIOUS
  <2>1. <<m, aws.default[m]>> \in Managed \X Nat
    BY <1>2
  <2> QED
    BY <1>3, <2>1
<1>5. \A o \in Collects!Owners, name \in Names : <<o, name>> # None
  <2> SUFFICES ASSUME NEW o \in Collects!Owners, NEW name \in Names PROVE <<o, name>> # None
    OBVIOUS
  <2>1. <<o, name>> \in Collects!Owners \X Names
    OBVIOUS
  <2> QED
    BY <1>3, <2>1
<1> QED
  BY <1>2, <1>3, <1>4, <1>5

\* Owners have ids of their own, and so do their policies.
LEMMA IdsDiffer ==
  /\ \A o, w : Collects!OwnerId(o) = Collects!OwnerId(w) => o = w
  /\ \A o, name, w, title : InlineId(o, name) = InlineId(w, title) => o = w /\ name = title
  /\ \A m, l : Collects!ManagedId(m) = Collects!ManagedId(l) => m = l
  /\ \A m, o, name : /\ Collects!ManagedId(m) # InlineId(o, name) /\ Collects!ManagedId(m) # Collects!OwnerId(o)
                     /\ \A p : Collects!ManagedId(m) # <<"profile", p>>
                     /\ Collects!ManagedId(m) # <<"account">>
  /\ \A o, w, name : /\ InlineId(o, name) # Collects!OwnerId(w)
                     /\ \A p : InlineId(o, name) # <<"profile", p>>
                     /\ InlineId(o, name) # <<"account">>
  /\ \A g, o : Collects!groupARN(g) = Collects!OwnerId(o) => o = g /\ o \in Groups
<1>1. \A o, w : Collects!OwnerId(o) = Collects!OwnerId(w) => o = w
  BY DEF Collects!OwnerId, Collects!GroupId
<1>2. \A o, name, w, title : InlineId(o, name) = InlineId(w, title) => o = w /\ name = title
  BY <1>1 DEF InlineId, Collects!InlinePolicyNodeID
<1>3. \A g, o : Collects!groupARN(g) = Collects!OwnerId(o) => o = g /\ o \in Groups
  BY DEF Collects!OwnerId, Collects!GroupId, Collects!groupARN
<1>4. /\ \A m : Collects!ManagedId(m)[1] = "policy"
      /\ \A o, name : InlineId(o, name)[1] = "inline"
      /\ \A o : Collects!OwnerId(o)[1] \in {"group", "principal"}
      /\ \A p : <<"profile", p>>[1] = "profile"
      /\ <<"account">>[1] = "account"
  BY DEF Collects!ManagedId, InlineId, Collects!InlinePolicyNodeID, Collects!OwnerId, Collects!GroupId
<1>5. \A m, l : Collects!ManagedId(m) = Collects!ManagedId(l) => m = l
  BY DEF Collects!ManagedId
<1> QED
  BY <1>1, <1>2, <1>3, <1>4, <1>5

\* The inline policies of an owner, by their ids.
LEMMA InlineNodesAre ==
  ASSUME aws \in AwsOptions, NEW o \in Collects!Owners
  PROVE  /\ \A id : id \in DOMAIN Collects!InlineNodes(o) <=>
                      \E name \in Names : id = InlineId(o, name) /\ <<o, name>> \in aws.inline
         /\ \A name \in Names : <<o, name>> \in aws.inline =>
              Collects!InlineNodes(o)[InlineId(o, name)] = <<o, name>>
<1> DEFINE own == {i \in aws.inline : i[1] = o}
           ids == {Collects!InlinePolicyNodeID(Collects!OwnerId(o), i[2]) : i \in own}
<1>1. \A i \in own : i = <<o, i[2]>> /\ i[2] \in Names /\ <<o, i[2]>> \in aws.inline
  BY AwsIsTyped
<1>2. \A name \in Names : <<o, name>> \in aws.inline => <<o, name>> \in own /\ <<o, name>>[2] = name
  OBVIOUS
<1>3. \A i \in own : Collects!InlinePolicyNodeID(Collects!OwnerId(o), i[2]) = InlineId(o, i[2])
  BY DEF InlineId
<1>4. Collects!InlineNodes(o) =
        [id \in ids |-> CHOOSE i \in own : Collects!InlinePolicyNodeID(Collects!OwnerId(o), i[2]) = id]
  BY DEF Collects!InlineNodes
<1>5. \A id : id \in ids <=> \E i \in own : id = InlineId(o, i[2])
  BY <1>3
<1> HIDE DEF own, ids
<1>6. \A id : id \in DOMAIN Collects!InlineNodes(o) <=>
                \E name \in Names : id = InlineId(o, name) /\ <<o, name>> \in aws.inline
  BY <1>1, <1>2, <1>4, <1>5
<1>7. ASSUME NEW name \in Names, <<o, name>> \in aws.inline
      PROVE  Collects!InlineNodes(o)[InlineId(o, name)] = <<o, name>>
  <2>1. InlineId(o, name) \in ids /\ <<o, name>> \in own
    BY <1>2, <1>5, <1>7
  <2>2. \A i \in own : Collects!InlinePolicyNodeID(Collects!OwnerId(o), i[2]) = InlineId(o, name) => i = <<o, name>>
    <3> SUFFICES ASSUME NEW i \in own,
                        Collects!InlinePolicyNodeID(Collects!OwnerId(o), i[2]) = InlineId(o, name)
                 PROVE  i = <<o, name>>
      OBVIOUS
    <3>1. InlineId(o, i[2]) = InlineId(o, name)
      BY <1>3
    <3>2. i[2] = name
      BY <3>1, IdsDiffer
    <3> QED
      BY <1>1, <3>2
  <2>3. Collects!InlinePolicyNodeID(Collects!OwnerId(o), <<o, name>>[2]) = InlineId(o, name)
    BY DEF InlineId
  <2> QED
    BY <1>4, <2>1, <2>2, <2>3
<1> QED
  BY <1>6, <1>7

LEMMA CollectInit == Collects!Init => CollectInv
<1> SUFFICES ASSUME Collects!Init PROVE CollectInv
  OBVIOUS
<1>1. /\ aws \in AwsOptions /\ left = Collects!Items /\ DOMAIN nodes = {<<"account">>} /\ edges = {}
      /\ pages = "aliases"
  BY DEF Collects!Init, Collects!Row
<1>2. NodesInv
  BY <1>1, IdsDiffer DEF NodesInv, Collects!Items
<1> QED
  BY <1>1, <1>2 DEF CollectInv

\* While the account and what was collected stay, so does what is known of them.
LEMMA CollectionStays ==
  ASSUME CollectInv, UNCHANGED <<aws, left, nodes, edges>>
  PROVE  /\ aws' \in AwsOptions /\ left' \subseteq Collects!Items
         /\ edges' = UNION {EdgesOf(x)' : x \in Collects!Items \ left'}
         /\ NodesInv'
<1>1. \A x : EdgesOf(x)' = EdgesOf(x)
  BY DEF EdgesOf, Collects!PolicyEdges, Collects!InlineNodes, Collects!OwnerId
<1>2. NodesInv'
  BY DEF CollectInv, NodesInv, InlineId, Collects!OwnerId
<1> QED
  BY <1>1, <1>2 DEF CollectInv

\* An item is collected: its own policy nodes are added, and no other.
LEMMA AddItem ==
  ASSUME CollectInv, pages = "pages", NEW x \in left, left' = left \ {x}, NEW N,
         nodes' = Collects!Upsert(nodes, N), edges' = edges \cup EdgesOf(x), UNCHANGED <<aws, warned, pages>>,
         \A m \in Managed : /\ Collects!ManagedId(m) \in DOMAIN N <=> m = x
                            /\ m = x => N[Collects!ManagedId(m)] = <<m, aws.default[m]>>,
         \A o \in Collects!Owners, name \in Names :
           /\ InlineId(o, name) \in DOMAIN N <=> o = x /\ <<o, name>> \in aws.inline
           /\ InlineId(o, name) \in DOMAIN N => N[InlineId(o, name)] = <<o, name>>
  PROVE  CollectInv'
<1>1. /\ \A y : EdgesOf(y)' = EdgesOf(y)
      /\ \A o, name : InlineId(o, name)' = InlineId(o, name)
      /\ Collects!Owners' = Collects!Owners
  BY DEF EdgesOf, Collects!PolicyEdges, Collects!InlineNodes, Collects!OwnerId, InlineId
<1>2. /\ DOMAIN nodes' = DOMAIN nodes \cup DOMAIN N
      /\ \A id \in DOMAIN N : nodes'[id] = N[id]
      /\ \A id \in DOMAIN nodes : id \notin DOMAIN N => nodes'[id] = nodes[id]
  BY DEF Collects!Upsert
<1>3. NodesInv'
  <2>1. ASSUME NEW m \in Managed
        PROVE  /\ Collects!ManagedId(m) \in DOMAIN nodes' <=> m \notin left'
               /\ m \notin left' => nodes'[Collects!ManagedId(m)] = <<m, aws.default[m]>>
    BY <1>2 DEF CollectInv, NodesInv
  <2>2. ASSUME NEW o \in Collects!Owners, NEW name \in Names
        PROVE  /\ InlineId(o, name) \in DOMAIN nodes' <=> o \notin left' /\ <<o, name>> \in aws.inline
               /\ InlineId(o, name) \in DOMAIN nodes' => nodes'[InlineId(o, name)] = <<o, name>>
    BY <1>2 DEF CollectInv, NodesInv
  <2> QED
    BY <1>1, <2>1, <2>2 DEF NodesInv
<1>4. edges' = UNION {EdgesOf(y)' : y \in Collects!Items \ left'}
  <2>1. edges = UNION {EdgesOf(y) : y \in Collects!Items \ left} /\ x \in Collects!Items
    BY DEF CollectInv
  <2>2. Collects!Items \ left' = (Collects!Items \ left) \cup {x}
    BY <2>1
  <2>3. edges' = UNION {EdgesOf(y) : y \in Collects!Items \ left'}
    BY <2>1, <2>2
  <2> QED
    BY <1>1, <2>3
<1> QED
  BY <1>3, <1>4 DEF CollectInv

LEMMA ProcessPageStep == ASSUME CollectInv, Collects!ProcessPage PROVE CollectInv'
<1>1. PICK x \in left :
        /\ pages = "pages" /\ left' = left \ {x} /\ UNCHANGED pages
        /\ \/ x \in Managed /\ Collects!AddManagedPolicy(x)
           \/ x \in Users /\ Collects!AddUser(x)
           \/ x \in Groups /\ Collects!AddGroup(x)
           \/ x \in IamRoles /\ Collects!AddRole(x)
  BY DEF Collects!ProcessPage
<1>2. aws \in AwsOptions
  BY DEF CollectInv
<1> DEFINE Kept(N) ==
      /\ \A m \in Managed : /\ Collects!ManagedId(m) \in DOMAIN N <=> m = x
                            /\ m = x => N[Collects!ManagedId(m)] = <<m, aws.default[m]>>
      /\ \A o \in Collects!Owners, name \in Names :
           /\ InlineId(o, name) \in DOMAIN N <=> o = x /\ <<o, name>> \in aws.inline
           /\ InlineId(o, name) \in DOMAIN N => N[InlineId(o, name)] = <<o, name>>
<1>3. /\ Users \cap IamRoles = {} /\ (Users \cup IamRoles) \cap Groups = {}
      /\ Collects!Owners \cap Managed = {} /\ Collects!Owners = Users \cup Groups \cup IamRoles
  BY <1>2, AwsIsTyped DEF Collects!Owners
<1>4. ASSUME NEW M, x \in Collects!Owners,
             Collects!OwnerId(x) \in DOMAIN M,
             \A id \in DOMAIN M : id = Collects!OwnerId(x) \/ \E p : id = <<"profile", p>>
      PROVE  Kept(Collects!Upsert(Collects!InlineNodes(x), M))
  <2> DEFINE N == Collects!Upsert(Collects!InlineNodes(x), M)
  <2>0. \A id : id \in DOMAIN Collects!InlineNodes(x) <=>
                  \E name \in Names : id = InlineId(x, name) /\ <<x, name>> \in aws.inline
    BY <1>2, <1>4, InlineNodesAre
  <2>1. /\ \A id : id \in DOMAIN N <=> id \in DOMAIN Collects!InlineNodes(x) \/ id \in DOMAIN M
        /\ \A id \in DOMAIN N : id \notin DOMAIN M => N[id] = Collects!InlineNodes(x)[id]
    BY DEF Collects!Upsert
  <2> HIDE DEF N
  <2>2. \A m \in Managed : m # x /\ Collects!ManagedId(m) \notin DOMAIN N
    <3> SUFFICES ASSUME NEW m \in Managed PROVE m # x /\ Collects!ManagedId(m) \notin DOMAIN N
      OBVIOUS
    <3>1. m # x
      BY <1>3, <1>4
    <3>2. Collects!ManagedId(m) \notin DOMAIN M
      BY <1>4, IdsDiffer
    <3>3. Collects!ManagedId(m) \notin DOMAIN Collects!InlineNodes(x)
      <4>1. \A name : Collects!ManagedId(m) # InlineId(x, name)
        BY IdsDiffer
      <4> QED
        BY <2>0, <4>1
    <3> QED
      BY <2>1, <3>1, <3>2, <3>3
  <2>3. ASSUME NEW o \in Collects!Owners, NEW name \in Names
        PROVE  /\ InlineId(o, name) \notin DOMAIN M
               /\ InlineId(o, name) \in DOMAIN Collects!InlineNodes(x) <=> o = x /\ <<o, name>> \in aws.inline
               /\ o = x /\ <<o, name>> \in aws.inline =>
                    Collects!InlineNodes(x)[InlineId(o, name)] = <<o, name>>
    <3>1. InlineId(o, name) \notin DOMAIN M
      BY <1>4, IdsDiffer
    <3>2. InlineId(o, name) \in DOMAIN Collects!InlineNodes(x) <=> o = x /\ <<o, name>> \in aws.inline
      <4>1. \A title \in Names : InlineId(o, name) = InlineId(x, title) => o = x /\ title = name
        BY IdsDiffer
      <4> QED
        BY <2>0, <4>1
    <3>3. o = x /\ <<o, name>> \in aws.inline => Collects!InlineNodes(x)[InlineId(o, name)] = <<o, name>>
      BY <1>2, <1>4, InlineNodesAre
    <3> QED
      BY <3>1, <3>2, <3>3
  <2>4. Kept(N)
    BY <2>1, <2>2, <2>3
  <2> QED
    BY <2>4 DEF N
<1>5. CASE x \in Managed /\ Collects!AddManagedPolicy(x)
  <2>1. PICK N : N = Collects!Row(Collects!ManagedId(x), <<x, aws.default[x]>>)
    OBVIOUS
  <2>2. Collects!DefaultVersion(x) = aws.default[x] /\ aws.default[x] # 0
    BY <1>2, <1>5, AwsIsTyped DEF Collects!DefaultVersion
  <2>3. nodes' = Collects!Upsert(nodes, N) /\ edges' = edges /\ UNCHANGED <<aws, warned>>
    BY <1>5, <2>1, <2>2 DEF Collects!AddManagedPolicy, Collects!Add
  <2>4. EdgesOf(x) = {}
    BY <1>3, <1>5 DEF EdgesOf
  <2>5. DOMAIN N = {Collects!ManagedId(x)} /\ N[Collects!ManagedId(x)] = <<x, aws.default[x]>>
    BY <2>1 DEF Collects!Row
  <2>6. Kept(N)
    BY <1>3, <1>5, <2>5, IdsDiffer
  <2> QED
    BY <1>1, <2>3, <2>4, <2>6, AddItem
<1>6. CASE x \in Users /\ Collects!AddUser(x)
  <2>1. PICK M : M = Collects!Row(Collects!OwnerId(x), None)
    OBVIOUS
  <2>2. PICK N : N = Collects!Upsert(Collects!InlineNodes(x), M)
    OBVIOUS
  <2>3. nodes' = Collects!Upsert(nodes, N) /\ UNCHANGED <<aws, warned>>
    BY <1>6, <2>1, <2>2 DEF Collects!AddUser, Collects!Add
  <2>4. edges' = edges \cup EdgesOf(x)
    BY <1>3, <1>6 DEF Collects!AddUser, Collects!Add, EdgesOf
  <2>5. Kept(N)
    BY <1>3, <1>4, <1>6, <2>1, <2>2 DEF Collects!Row
  <2> QED
    BY <1>1, <2>3, <2>4, <2>5, AddItem
<1>7. CASE x \in Groups /\ Collects!AddGroup(x)
  <2>1. PICK M : M = Collects!Row(Collects!OwnerId(x), None)
    OBVIOUS
  <2>2. PICK N : N = Collects!Upsert(Collects!InlineNodes(x), M)
    OBVIOUS
  <2>3. nodes' = Collects!Upsert(nodes, N) /\ UNCHANGED <<aws, warned>>
    BY <1>7, <2>1, <2>2 DEF Collects!AddGroup, Collects!Add
  <2>4. edges' = edges \cup EdgesOf(x)
    BY <1>3, <1>7 DEF Collects!AddGroup, Collects!Add, EdgesOf
  <2>5. Kept(N)
    BY <1>3, <1>4, <1>7, <2>1, <2>2 DEF Collects!Row
  <2> QED
    BY <1>1, <2>3, <2>4, <2>5, AddItem
<1>8. CASE x \in IamRoles /\ Collects!AddRole(x)
  <2>1. PICK M : M = [id \in {Collects!OwnerId(x)} \cup {<<"profile", p>> : p \in aws.profiles[x]} |-> None]
    OBVIOUS
  <2>2. PICK N : N = Collects!Upsert(Collects!InlineNodes(x), M)
    OBVIOUS
  <2>3. nodes' = Collects!Upsert(nodes, N) /\ UNCHANGED <<aws, warned>>
    BY <1>8, <2>1, <2>2 DEF Collects!AddRole, Collects!Add
  <2>4. edges' = edges \cup EdgesOf(x)
    BY <1>3, <1>8 DEF Collects!AddRole, Collects!Add, EdgesOf
  <2>5. Kept(N)
    BY <1>3, <1>4, <1>8, <2>1, <2>2
  <2> QED
    BY <1>1, <2>3, <2>4, <2>5, AddItem
<1> QED
  BY <1>1, <1>5, <1>6, <1>7, <1>8

LEMMA CollectInvariant == Collects!Spec => []CollectInv
<1>1. CollectInv /\ [Collects!Next]_(Collects!vars) => CollectInv'
  <2> SUFFICES ASSUME CollectInv, [Collects!Next]_(Collects!vars) PROVE CollectInv'
    OBVIOUS
  <2>1. CASE Collects!ListAliases
    BY <2>1, CollectionStays DEF Collects!ListAliases, CollectInv
  <2>2. CASE Collects!FailPage
    BY <2>2, CollectionStays DEF Collects!FailPage, CollectInv
  <2>3. CASE Collects!EndPages
    BY <2>3, CollectionStays DEF Collects!EndPages, CollectInv
  <2>4. CASE UNCHANGED Collects!vars
    BY <2>4, CollectionStays DEF Collects!vars, CollectInv
  <2> QED
    BY <2>1, <2>2, <2>3, <2>4, ProcessPageStep DEF Collects!Next
<1> QED
  BY <1>1, CollectInit, PTL DEF Collects!Spec

\* Which edges an item gives, by their types.
LEMMA EdgesOfItem ==
  ASSUME aws \in AwsOptions, NEW x, NEW e \in EdgesOf(x)
  PROVE  /\ e.type = "attached-policy" =>
              /\ x \in Collects!Owners /\ e.from = Collects!OwnerId(x)
              /\ \E m \in aws.attached[x] : e.to = Collects!ManagedId(m)
         /\ e.type = "inline-policy" =>
              /\ x \in Collects!Owners /\ e.from = Collects!OwnerId(x)
              /\ \E name \in Names : <<x, name>> \in aws.inline /\ e.to = InlineId(x, name)
         /\ e.type = "member-of" =>
              /\ x \in Users /\ e.from = Collects!OwnerId(x)
              /\ \E g \in aws.memberOf[x] : e.to = Collects!groupARN(g)
         /\ e.type = "runs-as" =>
              /\ x \in IamRoles /\ e.to = Collects!OwnerId(x)
              /\ \E p \in aws.profiles[x] : e.from = <<"profile", p>>
<1>1. \A from, type, to : LET f == Collects!Edge(from, type, to) IN f.from = from /\ f.type = type /\ f.to = to
  BY DEF Collects!Edge
<1>2. CASE x \in Collects!Owners /\ e \in Collects!PolicyEdges(x)
  <2>1. CASE e \in {Collects!Edge(Collects!OwnerId(x), "attached-policy", Collects!ManagedId(m)) : m \in aws.attached[x]}
    BY <1>1, <1>2, <2>1
  <2>2. CASE e \in {Collects!Edge(Collects!OwnerId(x), "inline-policy", id) : id \in DOMAIN Collects!InlineNodes(x)}
    <3>1. PICK id \in DOMAIN Collects!InlineNodes(x) : e = Collects!Edge(Collects!OwnerId(x), "inline-policy", id)
      BY <2>2
    <3>2. \E name \in Names : id = InlineId(x, name) /\ <<x, name>> \in aws.inline
      BY <1>2, <3>1, InlineNodesAre
    <3> QED
      BY <1>1, <1>2, <3>1, <3>2
  <2> QED
    BY <1>2, <2>1, <2>2 DEF Collects!PolicyEdges
<1>3. CASE x \in Users /\ e \in {Collects!Edge(Collects!OwnerId(x), "member-of", Collects!groupARN(g)) :
                                   g \in aws.memberOf[x]}
  BY <1>1, <1>3
<1>4. CASE x \in IamRoles /\ e \in {Collects!Edge(<<"profile", p>>, "runs-as", Collects!OwnerId(x)) :
                                      p \in aws.profiles[x]}
  <2>1. PICK p \in aws.profiles[x] : e = Collects!Edge(<<"profile", p>>, "runs-as", Collects!OwnerId(x))
    BY <1>4
  <2>2. e.type = "runs-as" /\ e.from = <<"profile", p>> /\ e.to = Collects!OwnerId(x)
    BY <1>1, <2>1
  <2> QED
    BY <1>4, <2>2
<1> QED
  BY <1>2, <1>3, <1>4 DEF EdgesOf

\* The edges that are there for an owner that came.
LEMMA EdgesAreThere ==
  ASSUME CollectInv, NEW x \in Collects!Owners \ left
  PROVE  /\ \A m \in aws.attached[x] :
              Collects!Edge(Collects!OwnerId(x), "attached-policy", Collects!ManagedId(m)) \in edges
         /\ \A name \in Names : <<x, name>> \in aws.inline =>
              Collects!Edge(Collects!OwnerId(x), "inline-policy", InlineId(x, name)) \in edges
         /\ x \in Users => \A g \in aws.memberOf[x] :
              Collects!Edge(Collects!OwnerId(x), "member-of", Collects!groupARN(g)) \in edges
         /\ x \in IamRoles => \A p \in aws.profiles[x] :
              Collects!Edge(<<"profile", p>>, "runs-as", Collects!OwnerId(x)) \in edges
<1>1. EdgesOf(x) \subseteq edges
  BY DEF CollectInv, Collects!Items
<1>2. \A name \in Names : <<x, name>> \in aws.inline => InlineId(x, name) \in DOMAIN Collects!InlineNodes(x)
  BY InlineNodesAre DEF CollectInv
<1>3. Collects!PolicyEdges(x) \subseteq EdgesOf(x)
  BY DEF EdgesOf
<1>4. /\ \A m \in aws.attached[x] :
           Collects!Edge(Collects!OwnerId(x), "attached-policy", Collects!ManagedId(m)) \in Collects!PolicyEdges(x)
      /\ \A id \in DOMAIN Collects!InlineNodes(x) :
           Collects!Edge(Collects!OwnerId(x), "inline-policy", id) \in Collects!PolicyEdges(x)
  BY DEF Collects!PolicyEdges
<1>5. x \in Users => \A g \in aws.memberOf[x] :
        Collects!Edge(Collects!OwnerId(x), "member-of", Collects!groupARN(g)) \in EdgesOf(x)
  BY DEF EdgesOf
<1>6. x \in IamRoles => \A p \in aws.profiles[x] :
        Collects!Edge(<<"profile", p>>, "runs-as", Collects!OwnerId(x)) \in EdgesOf(x)
  BY DEF EdgesOf
<1> QED
  BY <1>1, <1>2, <1>3, <1>4, <1>5, <1>6

\* An edge is there only for an item that came.
LEMMA EdgesAreOfItems ==
  ASSUME CollectInv, NEW e \in edges
  PROVE  /\ e.type = "attached-policy" =>
              \E x \in Collects!Owners \ left : /\ e.from = Collects!OwnerId(x)
                                                /\ \E m \in aws.attached[x] : e.to = Collects!ManagedId(m)
         /\ e.type = "inline-policy" =>
              \E x \in Collects!Owners \ left :
                /\ e.from = Collects!OwnerId(x)
                /\ \E name \in Names : <<x, name>> \in aws.inline /\ e.to = InlineId(x, name)
         /\ e.type = "member-of" =>
              \E x \in Users \ left : /\ e.from = Collects!OwnerId(x)
                                      /\ \E g \in aws.memberOf[x] : e.to = Collects!groupARN(g)
         /\ e.type = "runs-as" =>
              \E x \in IamRoles \ left : /\ e.to = Collects!OwnerId(x)
                                         /\ \E p \in aws.profiles[x] : e.from = <<"profile", p>>
<1>1. PICK x \in Collects!Items \ left : e \in EdgesOf(x)
  BY DEF CollectInv
<1>2. aws \in AwsOptions
  BY DEF CollectInv
<1> QED
  BY <1>1, <1>2, EdgesOfItem

\* The owners that PrincipalPolicies finds for a principal, and what it finds for each.
OwnerIdsOf(p) == {Collects!OwnerId(p)} \cup Collects!To(Collects!OwnerId(p), {"member-of"})
OwnersOf(p) == {p} \cup (IF p \in Users THEN aws.memberOf[p] ELSE {})
PoliciesOf(o) == Collects!To(o, {"attached-policy", "inline-policy"})

LEMMA FoundIsEffective ==
  ASSUME CollectInv, NEW p \in Users \cup IamRoles, NEW id \in OwnerIdsOf(p),
         NEW policy \in PoliciesOf(id), policy \in DOMAIN nodes
  PROVE  nodes[policy] \in Collects!Effective(p)
<1>1. ASSUME NEW x, id = Collects!OwnerId(x)
      PROVE  x \in OwnersOf(p)
  <2>1. CASE id = Collects!OwnerId(p)
    BY <1>1, <2>1, IdsDiffer DEF OwnersOf
  <2>2. CASE id \in Collects!To(Collects!OwnerId(p), {"member-of"})
    <3>1. PICK e \in edges : e.from = Collects!OwnerId(p) /\ e.type = "member-of" /\ e.to = id
      BY <2>2 DEF Collects!To
    <3>2. PICK u \in Users : /\ e.from = Collects!OwnerId(u)
                             /\ \E g \in aws.memberOf[u] : e.to = Collects!groupARN(g)
      BY <3>1, EdgesAreOfItems
    <3>3. u = p
      BY <3>1, <3>2, IdsDiffer
    <3>4. PICK g \in aws.memberOf[p] : Collects!OwnerId(x) = Collects!groupARN(g)
      BY <1>1, <3>1, <3>2, <3>3
    <3>5. x = g
      BY <3>4, IdsDiffer
    <3> QED
      BY <3>2, <3>3, <3>4, <3>5 DEF OwnersOf
  <2> QED
    BY <2>1, <2>2 DEF OwnerIdsOf
<1>2. PICK e \in edges : e.from = id /\ e.type \in {"attached-policy", "inline-policy"} /\ e.to = policy
  BY DEF PoliciesOf, Collects!To
<1>3. Collects!Effective(p) = {<<m, aws.default[m]>> : m \in UNION {aws.attached[o] : o \in OwnersOf(p)}}
                              \cup {i \in aws.inline : i[1] \in OwnersOf(p)}
  BY DEF Collects!Effective, OwnersOf
<1>4. CASE e.type = "attached-policy"
  <2>1. PICK x \in Collects!Owners : /\ e.from = Collects!OwnerId(x)
                                     /\ \E m \in aws.attached[x] : e.to = Collects!ManagedId(m)
    BY <1>4, EdgesAreOfItems
  <2>2. PICK m \in aws.attached[x] : policy = Collects!ManagedId(m)
    BY <1>2, <2>1
  <2>3. m \in Managed
    BY AwsIsTyped DEF CollectInv
  <2>4. nodes[policy] = <<m, aws.default[m]>>
    BY <2>2, <2>3 DEF CollectInv, NodesInv
  <2>5. x \in OwnersOf(p)
    BY <1>1, <1>2, <2>1
  <2> QED
    BY <1>3, <2>4, <2>5
<1>5. CASE e.type = "inline-policy"
  <2>1. PICK x \in Collects!Owners :
          /\ e.from = Collects!OwnerId(x)
          /\ \E name \in Names : <<x, name>> \in aws.inline /\ e.to = InlineId(x, name)
    BY <1>5, EdgesAreOfItems
  <2>2. PICK name \in Names : <<x, name>> \in aws.inline /\ policy = InlineId(x, name)
    BY <1>2, <2>1
  <2>3. nodes[policy] = <<x, name>>
    BY <2>2 DEF CollectInv, NodesInv
  <2>4. x \in OwnersOf(p)
    BY <1>1, <1>2, <2>1
  <2>5. <<x, name>> \in {i \in aws.inline : i[1] \in OwnersOf(p)}
    BY <2>2, <2>4
  <2> QED
    BY <1>3, <2>3, <2>5
<1> QED
  BY <1>2, <1>4, <1>5

LEMMA EffectiveIsFound ==
  ASSUME CollectInv, left = {}, NEW p \in Users \cup IamRoles, NEW document \in Collects!Effective(p),
         p \in Users => \A g \in aws.memberOf[p] : aws.path[g] = Root
  PROVE  /\ document # None
         /\ \E id \in OwnerIdsOf(p) : \E policy \in PoliciesOf(id) :
              policy \in DOMAIN nodes /\ nodes[policy] = document
<1>1. Collects!Effective(p) = {<<m, aws.default[m]>> : m \in UNION {aws.attached[o] : o \in OwnersOf(p)}}
                              \cup {i \in aws.inline : i[1] \in OwnersOf(p)}
  BY DEF Collects!Effective, OwnersOf
<1>2. aws \in AwsOptions
  BY DEF CollectInv
<1>3. p \in Collects!Owners
  BY DEF Collects!Owners
<1>4. ASSUME NEW x \in OwnersOf(p)
      PROVE  x \in Collects!Owners /\ Collects!OwnerId(x) \in OwnerIdsOf(p)
  <2>1. CASE x = p
    BY <1>3, <2>1 DEF OwnerIdsOf
  <2>2. CASE p \in Users /\ x \in aws.memberOf[p]
    <3>1. x \in Groups /\ x \in Collects!Owners
      BY <1>2, <2>2, AwsIsTyped DEF Collects!Owners
    <3>2. Collects!OwnerId(x) = Collects!groupARN(x)
      BY <2>2, <3>1 DEF Collects!OwnerId, Collects!groupARN
    <3>3. Collects!Edge(Collects!OwnerId(p), "member-of", Collects!groupARN(x)) \in edges
      BY <1>3, <2>2, EdgesAreThere
    <3>4. Collects!OwnerId(x) \in Collects!To(Collects!OwnerId(p), {"member-of"})
      <4> DEFINE e == Collects!Edge(Collects!OwnerId(p), "member-of", Collects!groupARN(x))
      <4>1. e.from = Collects!OwnerId(p) /\ e.type = "member-of" /\ e.to = Collects!OwnerId(x)
        BY <3>2 DEF Collects!Edge
      <4> HIDE DEF e
      <4>2. e \in edges
        BY <3>3 DEF e
      <4> QED
        BY <4>1, <4>2 DEF Collects!To
    <3> QED
      BY <3>1, <3>4 DEF OwnerIdsOf
  <2> QED
    BY <2>1, <2>2 DEF OwnersOf
<1>5. CASE document \in {<<m, aws.default[m]>> : m \in UNION {aws.attached[o] : o \in OwnersOf(p)}}
  <2>1. PICK x \in OwnersOf(p) : \E l \in aws.attached[x] : document = <<l, aws.default[l]>>
    BY <1>5
  <2>2. PICK m \in aws.attached[x] : document = <<m, aws.default[m]>>
    BY <2>1
  <2>3. x \in Collects!Owners /\ m \in Managed /\ document # None
    BY <1>2, <1>4, <2>2, AwsIsTyped
  <2> DEFINE e == Collects!Edge(Collects!OwnerId(x), "attached-policy", Collects!ManagedId(m))
  <2>4. e.from = Collects!OwnerId(x) /\ e.type = "attached-policy" /\ e.to = Collects!ManagedId(m)
    BY DEF Collects!Edge
  <2>5. e \in edges
    BY <2>2, <2>3, EdgesAreThere
  <2> HIDE DEF e
  <2>6. Collects!ManagedId(m) \in PoliciesOf(Collects!OwnerId(x))
    BY <2>4, <2>5 DEF PoliciesOf, Collects!To
  <2>7. Collects!ManagedId(m) \in DOMAIN nodes /\ nodes[Collects!ManagedId(m)] = document
    BY <2>2, <2>3 DEF CollectInv, NodesInv
  <2> QED
    BY <1>4, <2>3, <2>6, <2>7
<1>6. CASE document \in {i \in aws.inline : i[1] \in OwnersOf(p)}
  <2>1. PICK x \in Collects!Owners, name \in Names : document = <<x, name>>
    BY <1>2, <1>6, AwsIsTyped
  <2>2. x \in OwnersOf(p) /\ <<x, name>> \in aws.inline /\ document # None
    BY <1>2, <1>6, <2>1, AwsIsTyped
  <2> DEFINE e == Collects!Edge(Collects!OwnerId(x), "inline-policy", InlineId(x, name))
  <2>3. e.from = Collects!OwnerId(x) /\ e.type = "inline-policy" /\ e.to = InlineId(x, name)
    BY DEF Collects!Edge
  <2>4. e \in edges
    BY <2>1, <2>2, EdgesAreThere
  <2> HIDE DEF e
  <2>5. InlineId(x, name) \in PoliciesOf(Collects!OwnerId(x))
    BY <2>3, <2>4 DEF PoliciesOf, Collects!To
  <2>6. InlineId(x, name) \in DOMAIN nodes /\ nodes[InlineId(x, name)] = document
    BY <2>1, <2>2 DEF CollectInv, NodesInv
  <2> QED
    BY <1>4, <2>2, <2>5, <2>6
<1> QED
  BY <1>1, <1>5, <1>6

\* Of the result of IAMCollector, for every account, every order of the pages and every
\* page that fails: a principal is given no document that is not in force for it, and
\* all of them when the pages came and its groups have no path.
THEOREM CollectedPoliciesAreEffectiveCorrect == Collects!Spec => []CollectedPoliciesAreEffective
<1>1. ASSUME NEW p, NEW document
      PROVE  document \in Collects!Readable(p) <=>
               /\ document # None
               /\ \E id \in OwnerIdsOf(p) : \E policy \in PoliciesOf(id) :
                    policy \in DOMAIN nodes /\ nodes[policy] = document
  <2> DEFINE theirs == UNION {PoliciesOf(id) : id \in OwnerIdsOf(p)}
  <2>1. Collects!Readable(p) = {nodes[policy] : policy \in theirs \cap DOMAIN nodes} \ {None}
    BY DEF Collects!Readable, PoliciesOf, OwnerIdsOf
  <2>2. \A policy : policy \in theirs <=> \E id \in OwnerIdsOf(p) : policy \in PoliciesOf(id)
    OBVIOUS
  <2> HIDE DEF theirs
  <2> QED
    BY <2>1, <2>2
<1>2. ASSUME CollectInv, NEW p \in Users \cup IamRoles
      PROVE  Collects!Readable(p) \subseteq Collects!Effective(p)
  <2> SUFFICES ASSUME NEW document \in Collects!Readable(p) PROVE document \in Collects!Effective(p)
    OBVIOUS
  <2>1. PICK id \in OwnerIdsOf(p) : \E policy \in PoliciesOf(id) :
          policy \in DOMAIN nodes /\ nodes[policy] = document
    BY <1>1
  <2> QED
    BY <1>2, <2>1, FoundIsEffective
<1>3. ASSUME CollectInv, left = {}, NEW p \in Users \cup IamRoles,
             p \in Users => \A g \in aws.memberOf[p] : aws.path[g] = Root
      PROVE  Collects!Readable(p) = Collects!Effective(p)
  <2>1. Collects!Effective(p) \subseteq Collects!Readable(p)
    <3> SUFFICES ASSUME NEW document \in Collects!Effective(p) PROVE document \in Collects!Readable(p)
      OBVIOUS
    <3>1. /\ document # None
          /\ \E id \in OwnerIdsOf(p) : \E policy \in PoliciesOf(id) :
               policy \in DOMAIN nodes /\ nodes[policy] = document
      BY <1>3, EffectiveIsFound
    <3> QED
      BY <1>1, <3>1
  <2> QED
    BY <1>2, <1>3, <2>1
<1>4. ASSUME CollectInv, left = {}, NEW r \in IamRoles
      PROVE  {e.from : e \in {x \in edges : x.type = "runs-as" /\ x.to = Collects!OwnerId(r)}}
               = {<<"profile", i>> : i \in aws.profiles[r]}
  <2>1. ASSUME NEW e \in edges, e.type = "runs-as", e.to = Collects!OwnerId(r)
        PROVE  \E i \in aws.profiles[r] : e.from = <<"profile", i>>
    <3>1. PICK x \in IamRoles : /\ e.to = Collects!OwnerId(x)
                                /\ \E i \in aws.profiles[x] : e.from = <<"profile", i>>
      BY <1>4, <2>1, EdgesAreOfItems
    <3>2. x = r
      BY <2>1, <3>1, IdsDiffer
    <3> QED
      BY <3>1, <3>2
  <2>2. ASSUME NEW i \in aws.profiles[r]
        PROVE  \E e \in edges : e.type = "runs-as" /\ e.to = Collects!OwnerId(r) /\ e.from = <<"profile", i>>
    <3> DEFINE e == Collects!Edge(<<"profile", i>>, "runs-as", Collects!OwnerId(r))
    <3>1. e.type = "runs-as" /\ e.to = Collects!OwnerId(r) /\ e.from = <<"profile", i>>
      BY DEF Collects!Edge
    <3>2. r \in Collects!Owners \ left
      BY <1>4 DEF Collects!Owners
    <3>3. e \in edges
      BY <1>4, <3>2, EdgesAreThere
    <3> HIDE DEF e
    <3> QED
      BY <3>1, <3>3
  <2> QED
    BY <2>1, <2>2
<1>5. CollectInv => Collects!CollectedPoliciesAreEffective
  <2> SUFFICES ASSUME CollectInv PROVE Collects!CollectedPoliciesAreEffective
    OBVIOUS
  <2>1. pages = "done" /\ left # {} => warned
    BY DEF CollectInv
  <2> QED
    BY <1>2, <1>3, <1>4, <2>1 DEF Collects!CollectedPoliciesAreEffective, Collects!Holders
<1> QED
  BY <1>5, CollectInvariant, PTL DEF CollectedPoliciesAreEffective

-----------------------------------------------------------------------------
(* Trust *)

\* A set of numbers that is not empty has a least member.
LEMMA HasLeast ==
  ASSUME NEW S \in SUBSET Nat, S # {}
  PROVE  \E k \in S : \A m \in S : k <= m
<1> DEFINE T == {0..k : k \in S}
           R == StrictSubsetOrdering(Nat)
<1>1. T \subseteq FiniteSubsetsOf(Nat) /\ T # {}
  <2>1. \A k \in S : IsFiniteSet(0..k) /\ 0..k \in SUBSET Nat
    BY FS_Interval
  <2> QED
    BY <2>1 DEF FiniteSubsetsOf
<1>2. IsWellFoundedOn(R, FiniteSubsetsOf(Nat))
  BY FS_StrictSubsetOrderingWellFounded
<1>3. PICK x \in T : \A y \in T : <<y, x>> \notin R
  <2> HIDE DEF T, R
  <2> QED
    BY <1>1, <1>2, WFMin
<1>4. PICK k \in S : x = 0..k
  OBVIOUS
<1>5. ASSUME NEW m \in S, m < k
      PROVE  FALSE
  <2>1. 0..m \in T
    OBVIOUS
  <2>2. 0..m \in SUBSET Nat /\ 0..k \in SUBSET Nat /\ 0..m \subseteq 0..k
    BY <1>5
  <2>3. k \in 0..k /\ k \notin 0..m
    BY <1>5
  <2>4. <<0..m, 0..k>> \in R
    BY <2>2, <2>3 DEF StrictSubsetOrdering
  <2> QED
    BY <1>3, <1>4, <2>1, <2>4
<1> QED
  BY <1>5

\* The least and the greatest of positions are among them.
LEMMA ExtremesAreMembers ==
  ASSUME NEW n \in Nat, NEW S \in SUBSET (1..n), S # {}
  PROVE  Trusts!Min(S) \in S /\ Trusts!Max(S) \in S
<1>1. S \in SUBSET Nat
  OBVIOUS
<1>2. \E k \in S : \A m \in S : k <= m
  BY <1>1, HasLeast
<1>3. \E k \in S : \A m \in S : k >= m
  <2> DEFINE T == {n - k : k \in S}
  <2>1. T \in SUBSET Nat /\ T # {}
    <3>1. \A k \in S : n - k \in Nat
      OBVIOUS
    <3> QED
      BY <3>1
  <2>2. PICK l \in T : \A m \in T : l <= m
    <3> HIDE DEF T
    <3> QED
      BY <2>1, HasLeast
  <2>3. PICK k \in S : l = n - k
    OBVIOUS
  <2>4. ASSUME NEW m \in S PROVE k >= m
    <3>1. n - m \in T
      OBVIOUS
    <3>2. n - k <= n - m
      BY <2>2, <2>3, <3>1
    <3> QED
      BY <3>2
  <2> QED
    BY <2>4
<1> QED
  BY <1>2, <1>3 DEF Trusts!Min, Trusts!Max

\* The edges derived for a role.
RoleTrust(r) ==
  Trusts!Upsert(Trusts!ServiceTrust(r), Trusts!Upsert(Trusts!ExternalTrust(r), Trusts!InternalTrust(r)))

\* The roles that the derivation has reached.
Reached == IF trustPhase = "derive" THEN TrustRoles \ trustTodo ELSE TrustRoles

OutsideTypes == {"external-trust", "cross-account-access"}

TrustInv ==
  /\ trust \in [TrustRoles -> Trusts!TrustPolicies]
  /\ trustPhase \in {"derive", "scan", "done", "error"}
  /\ trustPhase # "error" =>
       /\ DOMAIN trustDerived = UNION {DOMAIN RoleTrust(r) : r \in Reached}
       /\ \A r \in Reached : \A e \in DOMAIN RoleTrust(r) : trustDerived[e] = RoleTrust(r)[e]
  /\ trustPhase \in {"derive", "error"} => DOMAIN trustGraph = {}
  /\ trustPhase \in {"scan", "done"} => trustGraph = trustDerived
  /\ trustPhase = "done" => trustTodo = {}
  /\ trustPhase \in {"scan", "done"} =>
       \A r \in TrustRoles \ trustTodo : Trusts!InEdges(r, OutsideTypes) # {} => r \in reported

\* A trust policy is a sequence of statements, which hold sequences of entries.
LEMMA TrustIsTyped ==
  ASSUME trust \in [TrustRoles -> Trusts!TrustPolicies], NEW r \in TrustRoles
  PROVE  /\ \E n \in Nat : DOMAIN trust[r] = 1..n
         /\ \A k \in DOMAIN trust[r] : /\ \E n \in Nat : DOMAIN trust[r][k].aws = 1..n
                                       /\ trust[r][k].services \subseteq TrustServices
<1>1. PICK n \in Nat : trust[r] \in [1..n -> TrustStatements]
  BY PrincipalsAssumption DEF Trusts!TrustPolicies, Trusts!TrustAssumption
<1>2. \A st \in TrustStatements : st.aws \in Seq(Trusts!Entries) /\ st.services \subseteq TrustServices
  BY PrincipalsAssumption DEF Trusts!TrustAssumption
<1>3. \A st \in TrustStatements : \E m \in Nat : DOMAIN st.aws = 1..m
  <2> SUFFICES ASSUME NEW st \in TrustStatements PROVE \E m \in Nat : DOMAIN st.aws = 1..m
    OBVIOUS
  <2>1. st.aws \in Seq(Trusts!Entries)
    BY <1>2
  <2>2. Len(st.aws) \in Nat /\ DOMAIN st.aws = 1..Len(st.aws)
    BY <2>1
  <2> QED
    BY <2>2
<1> QED
  BY <1>1, <1>2, <1>3

\* What the edges of a role are.
LEMMA RoleTrustIs ==
  ASSUME trust \in [TrustRoles -> Trusts!TrustPolicies], NEW r \in TrustRoles
  PROVE  /\ \A e \in DOMAIN RoleTrust(r) : e.to = r
         /\ \A e \in DOMAIN RoleTrust(r) : e.type = "assume-role" /\ e.from \in Trusts!Trustees =>
              e.from # r /\ Trusts!Trusting(r, e.from) # {} /\ RoleTrust(r)[e] = Trusts!TrustConfidence(r, e.from)
         /\ \A p \in Trusts!Trustees \ {r} : Trusts!Trusting(r, p) # {} =>
              Trusts!Edge(p, "assume-role", r) \in DOMAIN RoleTrust(r)
         /\ \A st \in Trusts!StatementsOf(r) : st.wildcard =>
              Trusts!Edge(Anonymous, "external-trust", r) \in DOMAIN RoleTrust(r)
         /\ \A st \in Trusts!StatementsOf(r) : \A a : ~ st.wildcard /\ a \in Trusts!ExternalAccounts(st) =>
              Trusts!Edge(a, "cross-account-access", r) \in DOMAIN RoleTrust(r)
<1> DEFINE I == Trusts!InternalTrust(r)
           E == Trusts!ExternalTrust(r)
           S == Trusts!ServiceTrust(r)
<1>1. \A from, type, to : LET e == Trusts!Edge(from, type, to) IN e.from = from /\ e.type = type /\ e.to = to
  BY DEF Trusts!Edge
<1>2. /\ \A e \in DOMAIN I : /\ e.to = r /\ e.type = "assume-role" /\ e.from # r
                             /\ Trusts!Trusting(r, e.from) # {} /\ I[e] = Trusts!TrustConfidence(r, e.from)
      /\ \A p \in Trusts!Trustees \ {r} : Trusts!Trusting(r, p) # {} => Trusts!Edge(p, "assume-role", r) \in DOMAIN I
  BY <1>1 DEF Trusts!InternalTrust
<1>3. /\ \A e \in DOMAIN E : e.to = r /\ e.type \in OutsideTypes
      /\ \A st \in Trusts!StatementsOf(r) : st.wildcard => Trusts!Edge(Anonymous, "external-trust", r) \in DOMAIN E
      /\ \A st \in Trusts!StatementsOf(r) : \A a : ~ st.wildcard /\ a \in Trusts!ExternalAccounts(st) =>
           Trusts!Edge(a, "cross-account-access", r) \in DOMAIN E
  BY <1>1 DEF Trusts!ExternalTrust, Trusts!StatementsOf, OutsideTypes
<1>4. \A e \in DOMAIN S : e.to = r /\ e.from \notin Trusts!Trustees
  <2>1. TrustServices \cap Trusts!Trustees = {}
    BY PrincipalsAssumption DEF Trusts!TrustAssumption
  <2>2. \A e \in DOMAIN S : e.to = r /\ e.from \in UNION {trust[r][k].services : k \in DOMAIN trust[r]}
    BY <1>1 DEF Trusts!ServiceTrust
  <2>3. UNION {trust[r][k].services : k \in DOMAIN trust[r]} \subseteq TrustServices
    BY TrustIsTyped
  <2> QED
    BY <2>1, <2>2, <2>3
<1> HIDE DEF I, E, S
<1>5. RoleTrust(r) = Trusts!Upsert(S, Trusts!Upsert(E, I))
  BY DEF RoleTrust, I, E, S
<1>6. /\ DOMAIN RoleTrust(r) = DOMAIN S \cup DOMAIN E \cup DOMAIN I
      /\ \A e \in DOMAIN I : RoleTrust(r)[e] = I[e]
  BY <1>5 DEF Trusts!Upsert
<1>7. \A e \in DOMAIN RoleTrust(r) : e.type = "assume-role" /\ e.from \in Trusts!Trustees => e \in DOMAIN I
  BY <1>3, <1>4, <1>6 DEF OutsideTypes
<1> QED
  BY <1>2, <1>3, <1>4, <1>6, <1>7

\* The edges of a role rest on its trust policy.
LEMMA TrustStays ==
  ASSUME UNCHANGED trust
  PROVE  \A r : RoleTrust(r)' = RoleTrust(r)
BY DEF RoleTrust, Trusts!ServiceTrust, Trusts!ExternalTrust, Trusts!InternalTrust, Trusts!TrustConfidence, Trusts!Trusting

LEMMA DeriveRoleStep == ASSUME TrustInv, NEW r \in TrustRoles, Trusts!DeriveRole(r) PROVE TrustInv'
<1>1. /\ trustPhase = "derive" /\ r \in trustTodo /\ trustTodo' = trustTodo \ {r}
      /\ trustDerived' = Trusts!Upsert(trustDerived, RoleTrust(r))
      /\ UNCHANGED <<trust, trustGraph, reported, trustPhase>>
  BY DEF Trusts!DeriveRole, RoleTrust
<1>2. Reached' = Reached \cup {r}
  BY <1>1 DEF Reached
<1>3. /\ DOMAIN trustDerived' = DOMAIN trustDerived \cup DOMAIN RoleTrust(r)
      /\ \A e \in DOMAIN RoleTrust(r) : trustDerived'[e] = RoleTrust(r)[e]
      /\ \A e \in DOMAIN trustDerived : e \notin DOMAIN RoleTrust(r) => trustDerived'[e] = trustDerived[e]
  BY <1>1 DEF Trusts!Upsert
<1>4. \A q \in TrustRoles : \A e \in DOMAIN RoleTrust(q) : e.to = q
  BY RoleTrustIs DEF TrustInv
<1>5. /\ DOMAIN trustDerived = UNION {DOMAIN RoleTrust(q) : q \in Reached}
      /\ \A q \in Reached : \A e \in DOMAIN RoleTrust(q) : trustDerived[e] = RoleTrust(q)[e]
      /\ Reached \subseteq TrustRoles
  BY <1>1 DEF TrustInv, Reached
<1>6. DOMAIN trustDerived' = UNION {DOMAIN RoleTrust(q) : q \in Reached'}
  BY <1>2, <1>3, <1>5
<1>7. \A q \in Reached' : \A e \in DOMAIN RoleTrust(q) : trustDerived'[e] = RoleTrust(q)[e]
  BY <1>2, <1>3, <1>4, <1>5
<1> QED
  BY <1>1, <1>6, <1>7, TrustStays DEF TrustInv

LEMMA ImportTrustStep == ASSUME TrustInv, Trusts!ImportEdges PROVE TrustInv'
<1>1. /\ trustPhase = "derive" /\ trustTodo = {} /\ trustTodo' = TrustRoles
      /\ trustGraph' = trustDerived /\ trustPhase' = "scan"
      /\ UNCHANGED <<trust, trustDerived, reported>>
  BY DEF Trusts!ImportEdges
<1>2. Reached' = Reached
  BY <1>1 DEF Reached
<1> QED
  BY <1>1, <1>2, TrustStays DEF TrustInv

LEMMA ReportRoleStep == ASSUME TrustInv, NEW r \in TrustRoles, Trusts!ReportRole(r) PROVE TrustInv'
<1>1. /\ trustPhase = "scan" /\ trustTodo' = trustTodo \ {r}
      /\ reported' = IF Trusts!InEdges(r, OutsideTypes) # {} THEN reported \cup {r} ELSE reported
      /\ trustPhase' = IF trustTodo' = {} THEN "done" ELSE "scan"
      /\ UNCHANGED <<trust, trustDerived, trustGraph>>
  BY DEF Trusts!ReportRole, OutsideTypes
<1>2. Reached' = Reached /\ trustPhase' \in {"scan", "done"}
  BY <1>1 DEF Reached
<1>3. \A q : Trusts!InEdges(q, OutsideTypes)' = Trusts!InEdges(q, OutsideTypes)
  BY <1>1 DEF Trusts!InEdges, OutsideTypes
<1>4. \A q \in TrustRoles \ trustTodo' : Trusts!InEdges(q, OutsideTypes) # {} => q \in reported'
  BY <1>1 DEF TrustInv
<1> QED
  BY <1>1, <1>2, <1>3, <1>4, TrustStays DEF TrustInv

LEMMA TrustInvariant == Trusts!Spec => []TrustInv
<1>1. Trusts!Init => TrustInv
  BY DEF Trusts!Init, TrustInv, Reached
<1>2. TrustInv /\ [Trusts!Next]_(Trusts!vars) => TrustInv'
  <2> SUFFICES ASSUME TrustInv, [Trusts!Next]_(Trusts!vars) PROVE TrustInv'
    OBVIOUS
  <2>1. CASE Trusts!Fail
    BY <2>1, TrustStays DEF Trusts!Fail, TrustInv
  <2>2. CASE UNCHANGED Trusts!vars
    <3>1. UNCHANGED <<trust, trustTodo, trustDerived, trustGraph, reported, trustPhase>>
      BY <2>2 DEF Trusts!vars
    <3>2. Reached' = Reached /\ \A r : Trusts!InEdges(r, OutsideTypes)' = Trusts!InEdges(r, OutsideTypes)
      BY <3>1 DEF Reached, Trusts!InEdges, OutsideTypes
    <3>3. \A r : RoleTrust(r)' = RoleTrust(r)
      BY <3>1, TrustStays
    <3>4. (trustPhase # "error" =>
             /\ DOMAIN trustDerived = UNION {DOMAIN RoleTrust(r) : r \in Reached}
             /\ \A r \in Reached : \A e \in DOMAIN RoleTrust(r) : trustDerived[e] = RoleTrust(r)[e])'
      <4> SUFFICES ASSUME trustPhase # "error"
                   PROVE  /\ DOMAIN trustDerived' = UNION {DOMAIN RoleTrust(r)' : r \in Reached'}
                          /\ \A r \in Reached' : \A e \in DOMAIN RoleTrust(r)' : trustDerived'[e] = RoleTrust(r)'[e]
        BY <3>1
      <4>1. /\ DOMAIN trustDerived = UNION {DOMAIN RoleTrust(r) : r \in Reached}
            /\ \A r \in Reached : \A e \in DOMAIN RoleTrust(r) : trustDerived[e] = RoleTrust(r)[e]
        BY DEF TrustInv
      <4>2. {DOMAIN RoleTrust(r)' : r \in Reached'} = {DOMAIN RoleTrust(r) : r \in Reached}
        BY <3>2, <3>3
      <4> QED
        BY <3>1, <3>2, <3>3, <4>1, <4>2
    <3> QED
      BY <3>1, <3>2, <3>4 DEF TrustInv
  <2> QED
    BY <2>1, <2>2, DeriveRoleStep, ImportTrustStep, ReportRoleStep DEF Trusts!Next
<1> QED
  BY <1>1, <1>2, PTL DEF Trusts!Spec

\* What is stored once the derivation is done.
LEMMA StoredTrust ==
  ASSUME TrustInv, trustPhase \in {"scan", "done"}
  PROVE  /\ DOMAIN trustGraph = UNION {DOMAIN RoleTrust(r) : r \in TrustRoles}
         /\ \A r \in TrustRoles : \A e \in DOMAIN RoleTrust(r) : trustGraph[e] = RoleTrust(r)[e]
BY DEF TrustInv, Reached

LEMMA TrustingIs ==
  \A r, p : Trusts!Trusting(r, p) # {} <=>
              \E st \in Trusts!StatementsOf(r) : Trusts!Grants(st) /\ Trusts!Mentions(st, p)
BY DEF Trusts!Trusting, Trusts!StatementsOf, Trusts!Grants

\* The assume-role edges between principals are exactly what the trust policies of the
\* roles allow: none is lost, none is of a service or of a role to itself.
THEOREM AssumeEdgesAreTrustCorrect == Trusts!Spec => []AssumeEdgesAreTrust
<1>1. TrustInv => Trusts!AssumeEdgesAreTrust
  <2> SUFFICES ASSUME TrustInv, trustPhase \in {"scan", "done"}
               PROVE  {<<e.from, e.to>> : e \in Trusts!AssumeEdges} =
                        {x \in Trusts!Trustees \X TrustRoles : Trusts!Trusted(x[1], x[2])}
    BY DEF Trusts!AssumeEdgesAreTrust
  <2>1. ASSUME NEW e \in Trusts!AssumeEdges
        PROVE  e.from \in Trusts!Trustees /\ e.to \in TrustRoles /\ Trusts!Trusted(e.from, e.to)
    <3>1. PICK r \in TrustRoles : e \in DOMAIN RoleTrust(r)
      BY StoredTrust DEF Trusts!AssumeEdges
    <3>2. e.to = r /\ e.from \in Trusts!Trustees /\ e.from # r /\ Trusts!Trusting(r, e.from) # {}
      BY <3>1, RoleTrustIs DEF Trusts!AssumeEdges, TrustInv
    <3> QED
      BY <3>2, TrustingIs DEF Trusts!Trusted
  <2>2. ASSUME NEW p \in Trusts!Trustees, NEW r \in TrustRoles, Trusts!Trusted(p, r)
        PROVE  \E e \in Trusts!AssumeEdges : e.from = p /\ e.to = r
    <3> DEFINE e == Trusts!Edge(p, "assume-role", r)
    <3>1. e.from = p /\ e.type = "assume-role" /\ e.to = r
      BY DEF Trusts!Edge
    <3>2. p # r /\ Trusts!Trusting(r, p) # {}
      BY <2>2, TrustingIs DEF Trusts!Trusted
    <3>3. e \in DOMAIN trustGraph
      BY <3>2, RoleTrustIs, StoredTrust DEF TrustInv
    <3> HIDE DEF e
    <3> QED
      BY <3>1, <3>3 DEF Trusts!AssumeEdges
  <2> QED
    BY <2>1, <2>2
<1> QED
  BY <1>1, TrustInvariant, PTL DEF AssumeEdgesAreTrust

\* An edge without a condition or a wildcard rests on a statement that has neither, and
\* no statement that trusts the principal has a condition.
THEOREM DefiniteTrustIsUnconditionalCorrect == Trusts!Spec => []DefiniteTrustIsUnconditional
<1>1. TrustInv => Trusts!DefiniteTrustIsUnconditional
  <2> SUFFICES ASSUME TrustInv, NEW e \in Trusts!AssumeEdges, trustGraph[e] = "definite"
               PROVE  /\ \E st \in Trusts!StatementsOf(e.to) :
                           /\ Trusts!Grants(st) /\ ~ st.conditional
                           /\ \E k \in DOMAIN st.aws : ~ st.aws[k].any /\ Trusts!Meets(st.aws[k], e.from)
                      /\ \A st \in Trusts!StatementsOf(e.to) :
                           Trusts!Grants(st) /\ Trusts!Mentions(st, e.from) => ~ st.conditional
    BY DEF Trusts!DefiniteTrustIsUnconditional
  <2>1. trustPhase \in {"scan", "done"}
    BY DEF TrustInv, Trusts!AssumeEdges
  <2>2. PICK r \in TrustRoles : e \in DOMAIN RoleTrust(r) /\ trustGraph[e] = RoleTrust(r)[e]
    BY <2>1, StoredTrust DEF Trusts!AssumeEdges
  <2>3. PICK p : p = e.from
    OBVIOUS
  <2>4. trust \in [TrustRoles -> Trusts!TrustPolicies]
    BY DEF TrustInv
  <2>5. /\ e.to = r /\ Trusts!Trusting(r, p) # {}
        /\ Trusts!TrustConfidence(r, p) = "definite"
    BY <2>2, <2>3, <2>4, RoleTrustIs DEF Trusts!AssumeEdges
  <2> DEFINE last == Trusts!Max(Trusts!Trusting(r, p))
             st == trust[r][last]
  <2>6. ~ Trusts!ByWildcard(st, p) /\ \A k \in Trusts!Trusting(r, p) : ~ trust[r][k].conditional
    BY <2>5 DEF Trusts!TrustConfidence
  <2>7. last \in Trusts!Trusting(r, p)
    <3>1. PICK n \in Nat : DOMAIN trust[r] = 1..n
      BY <2>4, TrustIsTyped
    <3>2. Trusts!Trusting(r, p) \in SUBSET (1..n)
      BY <3>1 DEF Trusts!Trusting
    <3> QED
      BY <2>5, <3>2, ExtremesAreMembers
  <2>8. st \in Trusts!StatementsOf(r) /\ Trusts!Grants(st) /\ ~ st.conditional /\ Trusts!Mentions(st, p)
    BY <2>6, <2>7 DEF Trusts!Trusting, Trusts!StatementsOf, Trusts!Grants
  <2>9. \E k \in DOMAIN st.aws : ~ st.aws[k].any /\ Trusts!Meets(st.aws[k], p)
    <3> DEFINE matching == {k \in DOMAIN st.aws : Trusts!Meets(st.aws[k], p)}
    <3>1. PICK n \in Nat : DOMAIN st.aws = 1..n
      BY <2>4, <2>7, TrustIsTyped DEF Trusts!Trusting
    <3>2. matching # {} /\ matching \in SUBSET (1..n)
      BY <2>6, <2>8, <3>1 DEF Trusts!ByWildcard, Trusts!Mentions
    <3>3. Trusts!Min(matching) \in matching
      <4> HIDE DEF matching
      <4> QED
        BY <3>2, ExtremesAreMembers
    <3>4. ~ st.aws[Trusts!Min(matching)].any
      BY <2>6, <3>2 DEF Trusts!ByWildcard
    <3> QED
      BY <3>3, <3>4
  <2>10. ASSUME NEW s \in Trusts!StatementsOf(r), Trusts!Grants(s), Trusts!Mentions(s, p)
         PROVE  ~ s.conditional
    BY <2>6, <2>10 DEF Trusts!Trusting, Trusts!StatementsOf, Trusts!Grants
  <2> QED
    BY <2>3, <2>5, <2>8, <2>9, <2>10
<1> QED
  BY <1>1, TrustInvariant, PTL DEF DefiniteTrustIsUnconditional

\* A role with an allow that names Principal "*", or an account other than the one collected
\* last, is reported, whatever else it trusts.
THEOREM ExternalTrustIsReportedCorrect == Trusts!Spec => []ExternalTrustIsReported
<1>1. TrustInv => Trusts!ExternalTrustIsReported
  <2> SUFFICES ASSUME TrustInv, trustPhase = "done", NEW r \in TrustRoles, NEW st \in Trusts!StatementsOf(r),
                      st.wildcard \/ Trusts!ExternalAccounts(st) # {}
               PROVE  r \in reported
    BY DEF Trusts!ExternalTrustIsReported
  <2>1. \E e \in DOMAIN RoleTrust(r) : e.to = r /\ e.type \in OutsideTypes
    <3>1. trust \in [TrustRoles -> Trusts!TrustPolicies]
      BY DEF TrustInv
    <3>2. \A from, type, to : LET e == Trusts!Edge(from, type, to) IN e.type = type /\ e.to = to
      BY DEF Trusts!Edge
    <3>3. CASE st.wildcard
      BY <3>1, <3>2, <3>3, RoleTrustIs DEF OutsideTypes
    <3>4. CASE ~ st.wildcard
      <4>1. PICK a : a \in Trusts!ExternalAccounts(st)
        BY <3>4
      <4> QED
        BY <3>1, <3>2, <3>4, <4>1, RoleTrustIs DEF OutsideTypes
    <3> QED
      BY <3>3, <3>4
  <2>2. Trusts!InEdges(r, OutsideTypes) # {}
    BY <2>1, StoredTrust DEF Trusts!InEdges
  <2> QED
    BY <2>2 DEF TrustInv
<1> QED
  BY <1>1, TrustInvariant, PTL DEF ExternalTrustIsReported
-----------------------------------------------------------------------------
(* IdentityRules *)

\* The edges to targets that the policies of some principals allow.
EdgesTo(from, targets) ==
  {e \in Edges : e.from \in from /\ e.to \in targets /\ Allowed(policies[e.from], Asked(e))}

\* Every edge has the confidence of the answer that it was derived from.
Answered(batch) == \A e \in DOMAIN batch : batch[e] = AllowedConfidence(policies[e.from], Asked(e))

Finding(rule, p) == [rule |-> rule, source |-> p]

\* What the single-action rules report of a principal.
Reported(p) ==
  \A rule \in DOMAIN RuleActions :
    /\ Finding(rule, p) \in DOMAIN findings <=> AllowedOf(p, RuleActions[rule]) # {}
    /\ Finding(rule, p) \in DOMAIN findings =>
         \E i \in AllowedOf(p, RuleActions[rule]) :
           findings[Finding(rule, p)] = ConfidenceOf(p, RuleActions[rule][i], Every)

\* The batch in memory is that of the principals reached; those stored are complete.
BatchesInv ==
  /\ todo \subseteq Principals
  /\ Answered(derived) /\ Answered(graph)
  /\ phase = "passrole" => DOMAIN derived = EdgesTo(Principals \ todo, Roles) /\ DOMAIN graph = {}
  /\ phase = "access" => /\ DOMAIN derived = EdgesTo(Principals \ todo, Protected)
                         /\ DOMAIN graph = EdgesTo(Principals, Roles)
  /\ phase \in {"scan", "done"} => DOMAIN graph = EdgesTo(Principals, Roles \cup Protected)

\* The principals scanned, and they alone, have their findings.
ScannedInv ==
  /\ phase \in {"passrole", "access", "error"} => DOMAIN findings = {}
  /\ phase \in {"scan", "done"} =>
       /\ \A f \in DOMAIN findings : f.source \in Principals \ todo
       /\ \A p \in Principals \ todo : Reported(p)
  /\ phase = "done" => todo = {}

RulesInv ==
  /\ phase \in {"passrole", "access", "scan", "done", "error"}
  /\ BatchesInv /\ ScannedInv

LEMMA RulesInit == Init => RulesInv
<1> SUFFICES ASSUME Init PROVE RulesInv
  OBVIOUS
<1>1. /\ todo = Principals /\ phase = "passrole"
      /\ DOMAIN derived = {} /\ DOMAIN graph = {} /\ DOMAIN findings = {}
  BY DEF Init
<1>2. EdgesTo(Principals \ todo, Roles) = {}
  BY <1>1 DEF EdgesTo
<1> QED
  BY <1>1, <1>2 DEF RulesInv, BatchesInv, ScannedInv, Answered

\* What the policies allow rests on them alone.
LEMMA AnswersStay ==
  ASSUME UNCHANGED policies
  PROVE  /\ \A from, targets : EdgesTo(from, targets)' = EdgesTo(from, targets)
         /\ \A p, actions : AllowedOf(p, actions)' = AllowedOf(p, actions)
         /\ \A p, action, resource : ConfidenceOf(p, action, resource)' = ConfidenceOf(p, action, resource)
<1>1. \A p, action, resource : Allows(p, action, resource)' = Allows(p, action, resource)
  BY DEF Allows
<1> QED
  BY <1>1 DEF EdgesTo, AllowedOf, ConfidenceOf

LEMMA AnsweredStays ==
  ASSUME UNCHANGED policies
  PROVE  /\ UNCHANGED derived => (Answered(derived)' <=> Answered(derived))
         /\ UNCHANGED graph => (Answered(graph)' <=> Answered(graph))
BY DEF Answered

\* A batch takes the edges of one more principal.
LEMMA BatchGrows ==
  ASSUME NEW p \in Principals, NEW from \in SUBSET Principals, NEW targets \in SUBSET (Roles \cup Protected),
         NEW batch, DOMAIN batch = EdgesTo(from, targets), Answered(batch),
         NEW new, DOMAIN new = EdgesTo({p}, targets), Answered(new)
  PROVE  /\ DOMAIN Upsert(batch, new) = EdgesTo(from \cup {p}, targets)
         /\ Answered(Upsert(batch, new))
<1>1. /\ DOMAIN Upsert(batch, new) = DOMAIN batch \cup DOMAIN new
      /\ \A e \in DOMAIN Upsert(batch, new) :
           Upsert(batch, new)[e] = IF e \in DOMAIN new THEN new[e] ELSE batch[e]
  BY DEF Upsert
<1>2. EdgesTo(from \cup {p}, targets) = EdgesTo(from, targets) \cup EdgesTo({p}, targets)
  BY DEF EdgesTo
<1> QED
  BY <1>1, <1>2 DEF Answered

\* The pass-role edges of one principal.
LEMMA PassRoleEdgesAre ==
  ASSUME NEW p \in Principals, NEW new,
         new = [e \in {[from |-> p, to |-> r] : r \in PassableRoles(p)} |-> ConfidenceOf(p, PassRole, e.to)]
  PROVE  DOMAIN new = EdgesTo({p}, Roles) /\ Answered(new)
<1>1. \A e \in Edges : e.from = p /\ e.to \in Roles =>
        Asked(e) = Request(PassRole, e.to) /\ e = [from |-> p, to |-> e.to]
  BY DEF Asked, Edges
<1>2. \A r \in Roles : LET e == [from |-> p, to |-> r] IN e \in Edges /\ e.from = p /\ e.to = r
  BY DEF Edges
<1>3. EdgesTo({p}, Roles) \subseteq DOMAIN new
  BY <1>1 DEF EdgesTo, PassableRoles, Allows
<1>4. DOMAIN new \subseteq EdgesTo({p}, Roles)
  BY <1>1, <1>2 DEF EdgesTo, PassableRoles, Allows
<1>5. Answered(new)
  BY <1>1, <1>4 DEF Answered, ConfidenceOf, EdgesTo
<1> QED
  BY <1>3, <1>4, <1>5

LEMMA AccessEdgesAre ==
  ASSUME NEW p \in Principals, NEW new,
         new = [e \in {[from |-> p, to |-> x] : x \in Accessible(p)} |->
                  ConfidenceOf(p, AccessAction[e.to], e.to)]
  PROVE  DOMAIN new = EdgesTo({p}, Protected) /\ Answered(new)
<1>1. \A e \in Edges : e.from = p /\ e.to \in Protected =>
        Asked(e) = Request(AccessAction[e.to], e.to) /\ e = [from |-> p, to |-> e.to]
  BY RuleAssumption DEF Asked, Edges
<1>2. \A x \in Protected : LET e == [from |-> p, to |-> x] IN e \in Edges /\ e.from = p /\ e.to = x
  BY DEF Edges
<1>3. EdgesTo({p}, Protected) \subseteq DOMAIN new
  BY <1>1 DEF EdgesTo, Accessible, Allows
<1>4. DOMAIN new \subseteq EdgesTo({p}, Protected)
  BY <1>1, <1>2 DEF EdgesTo, Accessible, Allows
<1>5. Answered(new)
  BY <1>1, <1>4 DEF Answered, ConfidenceOf, EdgesTo
<1> QED
  BY <1>3, <1>4, <1>5

LEMMA DeriveStep ==
  ASSUME RulesInv, NEW p \in Principals, Take(p), NEW targets,
         \/ phase = "passrole" /\ targets = Roles
         \/ phase = "access" /\ targets = Protected,
         DOMAIN derived = EdgesTo(Principals \ todo, targets),
         NEW new, DOMAIN new = EdgesTo({p}, targets), Answered(new),
         derived' = Upsert(derived, new), UNCHANGED <<policies, graph, findings, phase>>
  PROVE  RulesInv'
<1>1. p \in todo /\ todo' = todo \ {p} /\ todo \subseteq Principals /\ phase \in {"passrole", "access"}
  BY DEF Take, RulesInv, BatchesInv
<1>2. Principals \ todo' = (Principals \ todo) \cup {p}
  BY <1>1
<1>3. DOMAIN derived' = EdgesTo(Principals \ todo', targets) /\ Answered(derived')
  BY <1>1, <1>2, BatchGrows DEF RulesInv, BatchesInv
<1>4. Answered(derived)' /\ Answered(graph)'
  <2>1. Answered(derived)' <=> Answered(derived')
    BY DEF Answered
  <2> QED
    BY <1>3, <2>1, AnsweredStays DEF RulesInv, BatchesInv
<1>5. \A from, to : EdgesTo(from, to)' = EdgesTo(from, to)
  BY AnswersStay
<1>6. BatchesInv'
  BY <1>1, <1>3, <1>4, <1>5 DEF RulesInv, BatchesInv
<1>7. ScannedInv'
  BY <1>1 DEF RulesInv, ScannedInv
<1> QED
  BY <1>1, <1>6, <1>7 DEF RulesInv

\* No edge of the second batch is one of the first.
LEMMA ImportStep ==
  ASSUME RulesInv, NEW next \in {"access", "scan"}, phase = (IF next = "access" THEN "passrole" ELSE "access"),
         ImportEdges(next)
  PROVE  RulesInv'
<1>1. /\ todo = {} /\ todo' = Principals /\ phase' = next /\ UNCHANGED <<policies, findings>>
      /\ graph' = Upsert(graph, derived) /\ DOMAIN derived' = {}
  BY DEF ImportEdges
<1>2. /\ DOMAIN graph' = DOMAIN graph \cup DOMAIN derived
      /\ \A e \in DOMAIN graph' : graph'[e] = IF e \in DOMAIN derived THEN derived[e] ELSE graph[e]
  BY <1>1 DEF Upsert
<1>3. Answered(graph)' /\ Answered(derived)'
  BY <1>1, <1>2 DEF Answered, RulesInv, BatchesInv
<1>4. \A from, to : EdgesTo(from, to)' = EdgesTo(from, to)
  BY <1>1, AnswersStay
<1>5. CASE next = "access"
  <2>1. DOMAIN graph' = EdgesTo(Principals, Roles)
    BY <1>1, <1>2, <1>5 DEF RulesInv, BatchesInv
  <2>2. EdgesTo(Principals \ todo', Protected) = {}
    BY <1>1 DEF EdgesTo
  <2> QED
    BY <1>1, <1>3, <1>4, <1>5, <2>1, <2>2 DEF RulesInv, BatchesInv, ScannedInv
<1>6. CASE next = "scan"
  <2>1. DOMAIN graph' = EdgesTo(Principals, Roles \cup Protected)
    <3>1. DOMAIN graph' = EdgesTo(Principals, Roles) \cup EdgesTo(Principals, Protected)
      BY <1>1, <1>2, <1>6 DEF RulesInv, BatchesInv
    <3> QED
      BY <3>1 DEF EdgesTo
  <2>2. DOMAIN findings' = {} /\ Principals \ todo' = {}
    BY <1>1, <1>6 DEF RulesInv, ScannedInv
  <2> QED
    BY <1>1, <1>3, <1>4, <1>6, <2>1, <2>2 DEF RulesInv, BatchesInv, ScannedInv
<1> QED
  BY <1>5, <1>6

\* The least allowed action of a list is one of the allowed.
LEMMA FirstAllowedIsAllowed ==
  ASSUME NEW p, NEW actions \in Seq(Actions), AllowedOf(p, actions) # {}
  PROVE  Min(AllowedOf(p, actions)) \in AllowedOf(p, actions)
<1>1. AllowedOf(p, actions) \subseteq Nat
  BY DEF AllowedOf
<1>2. \E i \in AllowedOf(p, actions) : \A j \in AllowedOf(p, actions) : i <= j
  BY <1>1, HasLeast
<1> QED
  BY <1>2 DEF Min

\* What a scan of one principal finds.
LEMMA FoundOf ==
  ASSUME NEW p
  PROVE  LET new == Upsert(PassRoleFinding(p), Upsert(RuleFindings(p), AdminFinding(p)))
         IN  /\ \A f \in DOMAIN new : f.source = p
             /\ \A rule \in DOMAIN RuleActions :
                  /\ Finding(rule, p) \in DOMAIN new <=> AllowedOf(p, RuleActions[rule]) # {}
                  /\ Finding(rule, p) \in DOMAIN new =>
                       \E i \in AllowedOf(p, RuleActions[rule]) :
                         new[Finding(rule, p)] = ConfidenceOf(p, RuleActions[rule][i], Every)
<1> DEFINE A == AdminFinding(p)
           R == RuleFindings(p)
           L == PassRoleFinding(p)
<1>1. DOMAIN A \subseteq {Finding("admin", p)} /\ DOMAIN L \subseteq {Finding("passrole", p)}
  BY DEF AdminFinding, PassRoleFinding, Row, Finding
<1>2. \A rule \in DOMAIN RuleActions :
        /\ rule \notin {"admin", "passrole"} /\ RuleActions[rule] \in Seq(Actions)
  BY RuleAssumption
<1>3. \A rule, q : LET f == Finding(rule, q) IN f.rule = rule /\ f.source = q
  BY DEF Finding
<1>4. \A rule \in DOMAIN RuleActions : Finding(rule, p) \notin DOMAIN A \cup DOMAIN L
  BY <1>1, <1>2, <1>3
<1>5. /\ DOMAIN R = {Finding(rule, p) : rule \in {q \in DOMAIN RuleActions : AllowedOf(p, RuleActions[q]) # {}}}
      /\ \A f \in DOMAIN R :
           R[f] = ConfidenceOf(p, RuleActions[f.rule][Min(AllowedOf(p, RuleActions[f.rule]))], Every)
  BY DEF RuleFindings, Finding
<1>6. \A rule \in DOMAIN RuleActions : Finding(rule, p) \in DOMAIN R <=> AllowedOf(p, RuleActions[rule]) # {}
  BY <1>3, <1>5
<1>7. \A rule \in DOMAIN RuleActions : Finding(rule, p) \in DOMAIN R =>
        \E i \in AllowedOf(p, RuleActions[rule]) :
          R[Finding(rule, p)] = ConfidenceOf(p, RuleActions[rule][i], Every)
  <2> SUFFICES ASSUME NEW rule \in DOMAIN RuleActions, Finding(rule, p) \in DOMAIN R
               PROVE  \E i \in AllowedOf(p, RuleActions[rule]) :
                        R[Finding(rule, p)] = ConfidenceOf(p, RuleActions[rule][i], Every)
    OBVIOUS
  <2> HIDE DEF R
  <2> DEFINE i == Min(AllowedOf(p, RuleActions[rule]))
  <2>1. i \in AllowedOf(p, RuleActions[rule])
    BY <1>2, <1>6, FirstAllowedIsAllowed
  <2>2. R[Finding(rule, p)] = ConfidenceOf(p, RuleActions[rule][i], Every)
    BY <1>3, <1>5
  <2> QED
    BY <2>1, <2>2
<1> HIDE DEF A, R, L
<1> DEFINE new == Upsert(L, Upsert(R, A))
<1>8. /\ DOMAIN new = DOMAIN L \cup DOMAIN R \cup DOMAIN A
      /\ \A f \in DOMAIN R : f \notin DOMAIN A => new[f] = R[f]
  BY DEF Upsert
<1>9. new = Upsert(PassRoleFinding(p), Upsert(RuleFindings(p), AdminFinding(p)))
  BY DEF A, R, L
<1> HIDE DEF new
<1>10. \A f \in DOMAIN new : f.source = p
  BY <1>1, <1>3, <1>5, <1>8
<1>11. \A rule \in DOMAIN RuleActions :
         /\ Finding(rule, p) \in DOMAIN new <=> Finding(rule, p) \in DOMAIN R
         /\ Finding(rule, p) \in DOMAIN R => new[Finding(rule, p)] = R[Finding(rule, p)]
  BY <1>4, <1>8
<1> QED
  BY <1>6, <1>7, <1>9, <1>10, <1>11

LEMMA ScanStep == ASSUME RulesInv, ScanPrincipal PROVE RulesInv'
<1>1. PICK p \in Principals :
        /\ p \in todo /\ todo' = todo \ {p}
        /\ findings' = Upsert(findings, Upsert(PassRoleFinding(p), Upsert(RuleFindings(p), AdminFinding(p))))
  BY DEF ScanPrincipal, Take
<1>2. /\ phase = "scan" /\ phase' = (IF todo' = {} THEN "done" ELSE "scan")
      /\ UNCHANGED <<policies, derived, graph>>
  BY DEF ScanPrincipal
<1> DEFINE new == Upsert(PassRoleFinding(p), Upsert(RuleFindings(p), AdminFinding(p)))
<1>3. /\ \A f \in DOMAIN new : f.source = p
      /\ \A rule \in DOMAIN RuleActions :
           /\ Finding(rule, p) \in DOMAIN new <=> AllowedOf(p, RuleActions[rule]) # {}
           /\ Finding(rule, p) \in DOMAIN new =>
                \E i \in AllowedOf(p, RuleActions[rule]) :
                  new[Finding(rule, p)] = ConfidenceOf(p, RuleActions[rule][i], Every)
  BY FoundOf
<1> HIDE DEF new
<1>4. findings' = Upsert(findings, new)
  BY <1>1 DEF new
<1>5. /\ DOMAIN findings' = DOMAIN findings \cup DOMAIN new
      /\ \A f \in DOMAIN findings' : findings'[f] = IF f \in DOMAIN new THEN new[f] ELSE findings[f]
  BY <1>4 DEF Upsert
<1>6. /\ \A f \in DOMAIN findings : f.source \in Principals \ todo
      /\ \A q \in Principals \ todo : Reported(q)
  BY <1>2 DEF RulesInv, ScannedInv
<1>7. Principals \ todo' = (Principals \ todo) \cup {p}
  BY <1>1
<1>8. \A f \in DOMAIN findings' : f.source \in Principals \ todo'
  BY <1>3, <1>5, <1>6, <1>7
<1>9. \A rule, q : Finding(rule, q).source = q
  BY DEF Finding
<1>10. ASSUME NEW q \in Principals \ todo' PROVE Reported(q)'
  <2> SUFFICES ASSUME NEW rule \in DOMAIN RuleActions
               PROVE  /\ Finding(rule, q) \in DOMAIN findings' <=> AllowedOf(q, RuleActions[rule]) # {}
                      /\ Finding(rule, q) \in DOMAIN findings' =>
                           \E i \in AllowedOf(q, RuleActions[rule]) :
                             findings'[Finding(rule, q)] = ConfidenceOf(q, RuleActions[rule][i], Every)
    BY <1>2, AnswersStay DEF Reported, Finding
  <2>1. CASE q = p
    <3>1. Finding(rule, p) \notin DOMAIN findings
      BY <1>1, <1>6, <1>9
    <3>2. /\ Finding(rule, p) \in DOMAIN findings' <=> Finding(rule, p) \in DOMAIN new
          /\ Finding(rule, p) \in DOMAIN new => findings'[Finding(rule, p)] = new[Finding(rule, p)]
      BY <1>5, <3>1
    <3> QED
      BY <1>3, <2>1, <3>2
  <2>2. CASE q # p
    <3>1. Finding(rule, q) \notin DOMAIN new
      BY <1>3, <1>9, <2>2
    <3>2. /\ Finding(rule, q) \in DOMAIN findings' <=> Finding(rule, q) \in DOMAIN findings
          /\ Finding(rule, q) \in DOMAIN findings => findings'[Finding(rule, q)] = findings[Finding(rule, q)]
      BY <1>5, <3>1
    <3>3. Reported(q)
      BY <1>6, <1>7, <2>2
    <3> QED
      BY <3>2, <3>3 DEF Reported
  <2> QED
    BY <2>1, <2>2
<1>11. ScannedInv'
  BY <1>2, <1>8, <1>10 DEF ScannedInv
<1>12. BatchesInv'
  <2>1. Answered(derived)' /\ Answered(graph)'
    BY <1>2, AnsweredStays DEF RulesInv, BatchesInv
  <2>2. EdgesTo(Principals, Roles \cup Protected)' = EdgesTo(Principals, Roles \cup Protected)
    BY <1>2, AnswersStay
  <2> QED
    BY <1>1, <1>2, <2>1, <2>2 DEF RulesInv, BatchesInv
<1> QED
  BY <1>2, <1>11, <1>12 DEF RulesInv

LEMMA RulesInvariant == Spec => []RulesInv
<1>1. RulesInv /\ [Next]_vars => RulesInv'
  <2> SUFFICES ASSUME RulesInv, [Next]_vars PROVE RulesInv'
    OBVIOUS
  <2>1. CASE DerivePassRole
    <3>1. CASE ImportEdges("access")
      BY <2>1, <3>1, ImportStep DEF DerivePassRole
    <3>2. ASSUME NEW p \in Principals, Take(p), UNCHANGED <<policies, graph, findings, phase>>,
                 derived' = Upsert(derived, [e \in {[from |-> p, to |-> r] : r \in PassableRoles(p)} |->
                                               ConfidenceOf(p, PassRole, e.to)])
          PROVE  RulesInv'
      <4> DEFINE new == [e \in {[from |-> p, to |-> r] : r \in PassableRoles(p)} |-> ConfidenceOf(p, PassRole, e.to)]
      <4>1. DOMAIN new = EdgesTo({p}, Roles) /\ Answered(new)
        BY PassRoleEdgesAre
      <4>2. derived' = Upsert(derived, new)
        BY <3>2
      <4>3. phase = "passrole" /\ DOMAIN derived = EdgesTo(Principals \ todo, Roles)
        BY <2>1 DEF DerivePassRole, RulesInv, BatchesInv
      <4> HIDE DEF new
      <4> QED
        BY <3>2, <4>1, <4>2, <4>3, DeriveStep
    <3> QED
      BY <2>1, <3>1, <3>2 DEF DerivePassRole
  <2>2. CASE DeriveAccess
    <3>1. CASE ImportEdges("scan")
      BY <2>2, <3>1, ImportStep DEF DeriveAccess
    <3>2. ASSUME NEW p \in Principals, Take(p), UNCHANGED <<policies, graph, findings, phase>>,
                 derived' = Upsert(derived, [e \in {[from |-> p, to |-> x] : x \in Accessible(p)} |->
                                               ConfidenceOf(p, AccessAction[e.to], e.to)])
          PROVE  RulesInv'
      <4> DEFINE new == [e \in {[from |-> p, to |-> x] : x \in Accessible(p)} |->
                           ConfidenceOf(p, AccessAction[e.to], e.to)]
      <4>1. DOMAIN new = EdgesTo({p}, Protected) /\ Answered(new)
        BY AccessEdgesAre
      <4>2. derived' = Upsert(derived, new)
        BY <3>2
      <4>3. phase = "access" /\ DOMAIN derived = EdgesTo(Principals \ todo, Protected)
        BY <2>2 DEF DeriveAccess, RulesInv, BatchesInv
      <4> HIDE DEF new
      <4> QED
        BY <3>2, <4>1, <4>2, <4>3, DeriveStep
    <3> QED
      BY <2>2, <3>1, <3>2 DEF DeriveAccess
  <2>3. CASE Fail
    <3>1. phase' = "error" /\ DOMAIN findings' = {} /\ UNCHANGED <<policies, todo, derived, graph>>
      BY <2>3 DEF Fail
    <3>2. Answered(derived)' /\ Answered(graph)'
      BY <3>1, AnsweredStays DEF RulesInv, BatchesInv
    <3> QED
      BY <3>1, <3>2 DEF RulesInv, BatchesInv, ScannedInv
  <2>4. CASE UNCHANGED vars
    <3>1. UNCHANGED <<policies, todo, derived, graph, findings, phase>>
      BY <2>4 DEF vars
    <3>2. Answered(derived)' /\ Answered(graph)'
      BY <3>1, AnsweredStays DEF RulesInv, BatchesInv
    <3>3. BatchesInv'
      BY <3>1, <3>2, AnswersStay DEF RulesInv, BatchesInv
    <3>4. \A p : Reported(p)' <=> Reported(p)
      BY <3>1, AnswersStay DEF Reported
    <3> QED
      BY <3>1, <3>3, <3>4 DEF RulesInv, ScannedInv
  <2> QED
    BY <2>1, <2>2, <2>3, <2>4, ScanStep DEF Next
<1> QED
  BY <1>1, RulesInit, PTL DEF Spec

\* The edges derived from identity policies, and the findings of the single-action
\* rules, are what those policies allow: nothing of the first batch is lost to the
\* second, no deny is overlooked, and no confidence is of an action that is denied.
THEOREM ClaimsAreAllowedCorrect == Spec => []ClaimsAreAllowed
<1>1. ASSUME RulesInv PROVE EdgesAreAllowed
  <2> SUFFICES ASSUME phase \in {"scan", "done"}
               PROVE  /\ DOMAIN graph = {e \in Edges : Allowed(policies[e.from], Asked(e))}
                      /\ \A e \in Edges : e \in DOMAIN graph /\ graph[e] = "definite"
                           <=> Allowed(policies[e.from], Asked(e)) /\ Granted(policies[e.from], Asked(e))
    BY DEF EdgesAreAllowed
  <2>1. \A e \in Edges : e.from \in Principals /\ e.to \in Roles \cup Protected
    BY DEF Edges
  <2>2. DOMAIN graph = {e \in Edges : Allowed(policies[e.from], Asked(e))}
    BY <1>1, <2>1 DEF RulesInv, BatchesInv, EdgesTo
  <2>3. \A e \in DOMAIN graph : graph[e] = "definite" <=> Granted(policies[e.from], Asked(e))
    BY <1>1 DEF RulesInv, BatchesInv, Answered, AllowedConfidence
  <2> QED
    BY <2>2, <2>3
<1>2. ASSUME RulesInv PROVE RuleFindingsAreAllowed
  <2> SUFFICES ASSUME phase = "done", NEW rule \in DOMAIN RuleActions, NEW p \in Principals
               PROVE  /\ Finding(rule, p) \in DOMAIN findings <=> AllowedOf(p, RuleActions[rule]) # {}
                      /\ Finding(rule, p) \in DOMAIN findings =>
                           \E i \in AllowedOf(p, RuleActions[rule]) :
                             findings[Finding(rule, p)] = ConfidenceOf(p, RuleActions[rule][i], Every)
    BY DEF RuleFindingsAreAllowed, Finding, AllowedOf
  <2>1. Reported(p)
    BY <1>2 DEF RulesInv, ScannedInv
  <2> QED
    BY <2>1 DEF Reported
<1> QED
  BY <1>1, <1>2, RulesInvariant, PTL DEF ClaimsAreAllowed
=============================================================================

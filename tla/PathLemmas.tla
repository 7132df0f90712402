----------------------------- MODULE PathLemmas -----------------------------
(***************************************************************************)
(* Facts about paths that the searches rest on, for every stored graph.    *)
(***************************************************************************)
EXTENDS Paths, SequenceTheorems, WellFoundedInduction, TLAPS

\* Appending an edge moves the end to its target and adds only that target.
LEMMA EndOfAppend ==
  ASSUME NEW p \in Seq(Edges), NEW e \in Edges, NEW from
  PROVE  /\ End(from, Append(p, e)) = Target[e]
         /\ Targets(Append(p, e)) = Targets(p) \cup {Target[e]}
<1>1. Append(p, e) # <<>> /\ Append(p, e)[Len(Append(p, e))] = e
  BY AppendProperties
<1>2. End(from, Append(p, e)) = Target[e]
  BY <1>1 DEF End
<1>3. Targets(Append(p, e)) = Targets(p) \cup {Target[e]}
  BY AppendProperties DEF Targets
<1> QED
  BY <1>2, <1>3

\* A walk extended by an edge from its end is a walk.
LEMMA WalkAppend ==
  ASSUME NEW p \in Seq(Edges), NEW e \in Edges, NEW from, NEW stored, NEW min,
         IsWalk(p, from, stored, min),
         e \in stored, ConfidenceOK(e, min), Source[e] = End(from, p)
  PROVE  IsWalk(Append(p, e), from, stored, min)
<1> DEFINE q == Append(p, e)
<1>1. Len(q) = Len(p) + 1 /\ Len(p) \in Nat
  BY AppendProperties
<1>2. \A i \in 1..Len(p) : q[i] = p[i]
  BY AppendProperties
<1>3. q[Len(p) + 1] = e
  BY AppendProperties
<1> HIDE DEF q
<1> SUFFICES ASSUME NEW i \in 1..Len(q)
             PROVE  /\ q[i] \in stored
                    /\ ConfidenceOK(q[i], min)
                    /\ Source[q[i]] = IF i = 1 THEN from ELSE Target[q[i - 1]]
  BY DEF IsWalk, q
<1>4. CASE i \in 1..Len(p)
  BY <1>1, <1>2, <1>4 DEF IsWalk
<1>5. CASE i = Len(p) + 1
  <2>1. CASE p = <<>>
    BY <1>3, <1>5, <2>1 DEF End
  <2>2. CASE p # <<>>
    <3>1. Len(p) \in 1..Len(p) /\ q[i - 1] = p[Len(p)]
      BY <1>1, <1>2, <1>5, <2>2, EmptySeq
    <3> QED
      BY <1>1, <1>3, <1>5, <2>2, <3>1 DEF End
  <2> QED
    BY <2>1, <2>2
<1> QED
  BY <1>1, <1>4, <1>5

\* A walk without its last edge is a walk, and that edge continues it.
LEMMA WalkFront ==
  ASSUME NEW p \in Seq(Edges), NEW e \in Edges, NEW from, NEW stored, NEW min,
         IsWalk(Append(p, e), from, stored, min)
  PROVE  /\ IsWalk(p, from, stored, min)
         /\ e \in stored /\ ConfidenceOK(e, min) /\ Source[e] = End(from, p)
<1> DEFINE q == Append(p, e)
<1>1. Len(q) = Len(p) + 1 /\ Len(p) \in Nat
  BY AppendProperties
<1>2. \A i \in 1..Len(p) : q[i] = p[i]
  BY AppendProperties
<1>3. q[Len(p) + 1] = e
  BY AppendProperties
<1>4. \A i \in 1..Len(q) : /\ q[i] \in stored
                           /\ ConfidenceOK(q[i], min)
                           /\ Source[q[i]] = IF i = 1 THEN from ELSE Target[q[i - 1]]
  BY DEF IsWalk
<1> HIDE DEF q
<1>5. IsWalk(p, from, stored, min)
  BY <1>1, <1>2, <1>4 DEF IsWalk
<1>6. e \in stored /\ ConfidenceOK(e, min)
  BY <1>1, <1>3, <1>4
<1>7. Source[e] = End(from, p)
  <2>1. CASE p = <<>>
    BY <1>1, <1>3, <1>4, <2>1 DEF End
  <2>2. CASE p # <<>>
    <3>1. Len(p) \in 1..Len(p) /\ Len(p) + 1 # 1
      BY <1>1, <2>2, EmptySeq
    <3>2. Source[e] = Target[q[(Len(p) + 1) - 1]]
      BY <1>1, <1>3, <1>4, <3>1
    <3> QED
      BY <1>1, <1>2, <2>2, <3>1, <3>2 DEF End
  <2> QED
    BY <2>1, <2>2
<1> QED
  BY <1>5, <1>6, <1>7

\* A simple path without its last edge is simple and does not meet its end.
LEMMA SimpleFront ==
  ASSUME NEW p \in Seq(Edges), NEW e \in Edges, NEW from,
         IsSimple(Append(p, e), from)
  PROVE  IsSimple(p, from) /\ Target[e] \notin {from} \cup Targets(p)
<1> DEFINE q == Append(p, e)
<1>1. Len(q) = Len(p) + 1 /\ Len(p) \in Nat
  BY AppendProperties
<1>2. \A i \in 1..Len(p) : q[i] = p[i]
  BY AppendProperties
<1>3. q[Len(p) + 1] = e
  BY AppendProperties
<1>4. /\ from \notin Targets(p) \cup {Target[e]}
      /\ \A i, j \in 1..Len(q) : Target[q[i]] = Target[q[j]] => i = j
  BY EndOfAppend DEF IsSimple
<1> HIDE DEF q
<1>5. IsSimple(p, from)
  BY <1>1, <1>2, <1>4 DEF IsSimple
<1>6. Target[e] \notin {from} \cup Targets(p)
  BY <1>1, <1>2, <1>3, <1>4 DEF Targets
<1> QED
  BY <1>5, <1>6

\* What SubSeq removes from a path to return from its end is its last edge.
LEMMA SubSeqIsFront ==
  ASSUME NEW p \in Seq(Edges), p # <<>>
  PROVE  \E q \in Seq(Edges), e \in Edges :
           p = Append(q, e) /\ SubSeq(p, 1, Len(p) - 1) = q
<1>1. PICK q \in Seq(Edges), e \in Edges : p = Append(q, e)
  BY SequenceEmptyOrAppend
<1>2. Len(q) \in Nat /\ Len(p) - 1 = Len(q) /\ \A i \in 1..Len(q) : p[i] = q[i] /\ q[i] \in Edges
  BY <1>1, AppendProperties, ElementOfSeq, LenProperties
<1> DEFINE n == Len(q)
<1>3. /\ SubSeq(p, 1, n) \in Seq(Edges)
      /\ Len(SubSeq(p, 1, n)) = IF 1 <= n THEN n - 1 + 1 ELSE 0
      /\ \A i \in 1..(n - 1 + 1) : SubSeq(p, 1, n)[i] = p[1 + i - 1]
  BY <1>2, SubSeqProperties
<1>4. Len(SubSeq(p, 1, n)) = n /\ \A i \in 1..n : SubSeq(p, 1, n)[i] = q[i]
  BY <1>2, <1>3
<1>5. SubSeq(p, 1, n) = q
  BY <1>3, <1>4, SeqEqual
<1> QED
  BY <1>1, <1>2, <1>5

\* Storing more edges keeps every walk.
LEMMA WalkMonotone ==
  ASSUME NEW p, NEW from, NEW stored, NEW more, NEW min,
         IsWalk(p, from, stored, min), stored \subseteq more
  PROVE  IsWalk(p, from, more, min)
BY DEF IsWalk

\* A simple path extended by an edge to a node it has not met is simple.
LEMMA SimpleAppend ==
  ASSUME NEW p \in Seq(Edges), NEW e \in Edges, NEW from,
         IsSimple(p, from), Target[e] \notin {from} \cup Targets(p)
  PROVE  IsSimple(Append(p, e), from)
<1> DEFINE q == Append(p, e)
<1>1. Len(q) = Len(p) + 1 /\ Len(p) \in Nat
  BY AppendProperties
<1>2. \A i \in 1..Len(p) : q[i] = p[i] /\ Target[q[i]] # Target[e]
  BY AppendProperties DEF Targets
<1>3. q[Len(p) + 1] = e
  BY AppendProperties
<1>4. from \notin Targets(q)
  BY EndOfAppend DEF IsSimple
<1> HIDE DEF q
<1>5. \A i, j \in 1..Len(q) : Target[q[i]] = Target[q[j]] => i = j
  BY <1>1, <1>2, <1>3 DEF IsSimple
<1> QED
  BY <1>4, <1>5 DEF IsSimple, q

\* Every nonempty set of naturals has a least element.
LEMMA LeastNatural ==
  ASSUME NEW T \in SUBSET Nat, T # {}
  PROVE  \E n \in T : \A m \in T : n <= m
<1> DEFINE R == OpToRel(<, Nat)
<1>1. \A m, n \in Nat : <<m, n>> \in R <=> m < n
  BY DEF OpToRel
<1>2. IsWellFoundedOn(R, Nat)
  BY NatLessThanWellFounded
<1> HIDE DEF R
<1>3. PICK n \in T : \A m \in T : <<m, n>> \notin R
  BY <1>2, WFMin
<1>4. \A m \in T : m \in Nat /\ n \in Nat /\ ~ (m < n)
  BY <1>1, <1>3
<1> QED
  BY <1>4

\* A set of nodes that no edge of a walk leaves holds every node of the walk:
\* a shortest walk that leads out of it would end with such an edge.
LEMMA ClosedUnderWalks ==
  ASSUME NEW stored \in SUBSET Edges, NEW from, NEW min, NEW closed,
         from \in closed,
         \A e \in stored : ConfidenceOK(e, min) /\ Source[e] \in closed => Target[e] \in closed
  PROVE  \A p \in Seq(stored) : IsWalk(p, from, stored, min) => End(from, p) \in closed
<1> DEFINE Leaves(p) == IsWalk(p, from, stored, min) /\ End(from, p) \notin closed
           lengths == {n \in Nat : \E p \in Seq(stored) : Leaves(p) /\ Len(p) = n}
<1> SUFFICES ASSUME lengths # {} PROVE FALSE
  BY LenProperties
<1>1. PICK n \in lengths : \A m \in lengths : n <= m
  BY LeastNatural
<1>2. PICK p \in Seq(stored) : Leaves(p) /\ Len(p) = n
  BY <1>1
<1>3. p # <<>>
  BY <1>2 DEF End
<1>4. PICK q \in Seq(stored), e \in stored : p = Append(q, e)
  BY <1>3, SequenceEmptyOrAppend
<1>5. q \in Seq(Edges) /\ e \in Edges
  BY SeqMonotonic
<1>6. /\ IsWalk(q, from, stored, min)
      /\ ConfidenceOK(e, min) /\ Source[e] = End(from, q)
  BY <1>2, <1>4, <1>5, WalkFront
<1>7. Target[e] \notin closed
  BY <1>2, <1>4, <1>5, EndOfAppend
<1>8. Leaves(q) /\ Len(q) \in Nat /\ Len(q) < n
  BY <1>2, <1>4, <1>6, <1>7, LenProperties, AppendProperties
<1> QED
  BY <1>1, <1>8
=============================================================================

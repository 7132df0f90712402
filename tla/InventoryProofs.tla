--------------------------- MODULE InventoryProofs --------------------------
(***************************************************************************)
(* Theorems about Inventory, for every set of processes, accounts, regions *)
(* and resources, and for any interleaving of collections that fail or are *)
(* killed.  A run that is not disturbed is followed from its first store   *)
(* call to its last: what each call leaves for the next one is a conjunct  *)
(* of RunInv.                                                              *)
(***************************************************************************)
EXTENDS Inventory, TLAPS

-----------------------------------------------------------------------------
(* Inductive invariants *)

\* A process that has created its snapshot and not yet ended.
Storing(p) == pc[p] \in {"reset", "import", "prune", "read", "write", "finish"}

\* Snapshots are numbered in order; no two processes share one, and one under
\* way is neither deleted nor completed.
SnapshotsOwned ==
  /\ snapshots \subseteq 1..lastSnap
  /\ completed \subseteq snapshots /\ latest \in completed \cup {0}
  /\ \A i \in Items : rows[i] <= lastSnap
  /\ \A p \in Procs : Storing(p) => snap[p] \in snapshots \ completed
  /\ \A p, q \in Procs : Storing(p) /\ Storing(q) /\ snap[p] = snap[q] => p = q

\* Only services that answered without a warning are pruned.
PrunesClean == \A p \in Procs : pc[p] = "prune" => todo[p] \subseteq clean[p]

\* An edge that was listed, or is stored, has the nodes listed with it.
ListedTogether ==
  /\ \A p \in Procs : Whole(seen[p])
  /\ \A e \in Edges : Stored(e) => \A n \in Connects[e].with : Stored(n)

\* While a run is undisturbed nobody else is under way.
QuietAlone == \A p, q \in Procs : quiet = p /\ q # p => Idle(q)

\* The calls after the import, and the end of an undisturbed run.
Imported(p) == pc[p] \in {"prune", "read", "write", "finish", "idle"}

\* The rows of this snapshot are rows that the run observed, and every node it
\* observed has one; a service that is done has left nothing stale in its scope.
RowsReconciled(p) ==
  /\ pc[p] \in {"reset", "import"} => \A i \in Items : rows[i] # snap[p]
  /\ Imported(p) =>
       /\ snap[p] # 0
       /\ \A i \in Items : rows[i] = snap[p] => i \in seen[p]
       /\ \A n \in Nodes \cap seen[p] : rows[n] = snap[p]
       /\ \A c \in clean[p] \ todo[p] : StaleNodes(p, c) = {} /\ StaleEdges(p, c) = {}
       /\ pc[p] # "prune" => todo[p] = {}

\* A forced run starts over: no row but its own is left after the reset.
RowsRebuilt(p) ==
  job[p].force =>
    /\ pc[p] = "import" => \A i \in Items : rows[i] = 0
    /\ Imported(p) => \A i \in Items : rows[i] = IF i \in seen[p] THEN snap[p] ELSE 0

\* Each pass adds what follows from the rows, which change no more.
DerivedInPasses(p) ==
  /\ pc[p] \in {"read", "write"} =>
       /\ pass[p].n \in 1..3
       /\ derived = {d \in Derivable : PassOf[d] < pass[p].n}
  /\ pc[p] = "write" => pass[p].edges = {d \in Derivable : PassOf[d] = pass[p].n}
  /\ pc[p] \in {"finish", "idle"} => derived = Derivable

RunInv ==
  \A p \in Procs : quiet = p => RowsReconciled(p) /\ RowsRebuilt(p) /\ DerivedInPasses(p)

IInv == SnapshotsOwned /\ PrunesClean /\ ListedTogether /\ QuietAlone /\ RunInv

-----------------------------------------------------------------------------
(* Types *)

LEMMA NoJobType == NoJob \in Jobs
  BY InventoryAssumption DEF NoJob, Jobs

LEMMA NoPassType == NoPass \in Passes
  BY DEF NoPass, Passes

\* A process is gone: nothing of it is left, and its snapshot row only if deleted.
LEMMA EndsType ==
  ASSUME TypeOK, NEW p \in Procs, RefuseForce(p) \/ Fail(p) \/ Crash(p)
  PROVE  TypeOK'
<1> USE DEF TypeOK
<1>1. /\ UNCHANGED <<world, changes, rows, derived, completed, latest, lastSnap>>
      /\ snapshots' \subseteq snapshots
      /\ Ends(p)
  BY DEF RefuseForce, Fail, Crash, tables
<1>2. quiet' \in Procs \cup {None} /\ apart' \subseteq Procs
  BY <1>1 DEF Ends
<1>3. pc' \in [Procs -> PC] /\ job' \in [Procs -> Jobs] /\ pass' \in [Procs -> Passes]
  BY <1>1, NoJobType, NoPassType DEF Ends, Goto, PC
<1>4. /\ todo' \in [Procs -> SUBSET Services] /\ seen' \in [Procs -> SUBSET Items]
      /\ clean' \in [Procs -> SUBSET Services] /\ warned' \in [Procs -> BOOLEAN]
      /\ snap' \in [Procs -> 0..MaxSnapshots]
  BY <1>1, InventoryAssumption DEF Ends
<1> QED
  BY <1>1, <1>2, <1>3, <1>4

\* Each snapshot stays the one of its process.
LEMMA SnapshotsStep ==
  ASSUME TypeOK, SnapshotsOwned, [Next]_vars
  PROVE  SnapshotsOwned'
<1> USE InventoryAssumption DEF TypeOK, SnapshotsOwned, Storing, Goto, PC, Snaps
<1>1. ASSUME NEW p \in Procs, Start(p) PROVE SnapshotsOwned'
  BY <1>1 DEF Start, Begin, tables, Idle
<1>2. ASSUME NEW p \in Procs, NEW c \in todo[p], NEW got \in SUBSET Items, NEW warning \in BOOLEAN,
             CollectService(p, c, got, warning)
      PROVE  SnapshotsOwned'
  BY <1>2 DEF CollectService, tables
<1>3. ASSUME NEW p \in Procs, RefuseForce(p) \/ Fail(p) \/ Crash(p) PROVE SnapshotsOwned'
  <2>1. /\ UNCHANGED <<rows, completed, latest, lastSnap>>
        /\ snapshots' \in {snapshots, snapshots \ {snap[p]}} /\ (snapshots' # snapshots => Storing(p))
        /\ Ends(p)
    BY <1>3 DEF RefuseForce, Fail, Crash, tables
  <2>2. pc'[p] = "idle" /\ \A q \in Procs \ {p} : pc'[q] = pc[q] /\ snap'[q] = snap[q]
    BY <2>1 DEF Ends
  <2> QED
    BY <2>1, <2>2
<1>4. ASSUME NEW p \in Procs, CreateSnapshot(p) PROVE SnapshotsOwned'
  <2>1. /\ lastSnap' = lastSnap + 1 /\ snapshots' = snapshots \cup {lastSnap + 1}
        /\ snap'[p] = lastSnap + 1 /\ UNCHANGED <<rows, completed>>
        /\ \A q \in Procs \ {p} : pc'[q] = pc[q] /\ snap'[q] = snap[q]
    BY <1>4 DEF CreateSnapshot
  <2>2. completed \subseteq 1..lastSnap
    BY DEF SnapshotsOwned
  <2>3. \A q \in Procs \ {p} : Storing(q)' => Storing(q) /\ snap'[q] = snap[q] /\ snap[q] \in 1..lastSnap
    BY <2>1
  <2>4. lastSnap + 1 \notin 1..lastSnap /\ 1..lastSnap \subseteq 1..(lastSnap + 1)
    OBVIOUS
  <2>5. snapshots' \subseteq 1..lastSnap' /\ completed' \subseteq snapshots' /\ latest' \in completed' \cup {0}
    BY <2>1, <2>2, <2>4, <1>4 DEF CreateSnapshot
  <2>6. \A i \in Items : rows'[i] <= lastSnap'
    BY <2>1
  <2>7. \A q \in Procs : Storing(q)' => snap'[q] \in snapshots' \ completed'
    BY <2>1, <2>2, <2>3, <2>4
  <2>8. \A q, r \in Procs : Storing(q)' /\ Storing(r)' /\ snap'[q] = snap'[r] => q = r
    BY <2>1, <2>3, <2>4
  <2> HIDE DEF Storing
  <2> QED
    BY <2>5, <2>6, <2>7, <2>8
<1>5. ASSUME NEW p \in Procs, ResetInventory(p) PROVE SnapshotsOwned'
  BY <1>5 DEF ResetInventory, progress
<1>6. ASSUME NEW p \in Procs, Import(p) PROVE SnapshotsOwned'
  BY <1>6 DEF Import
<1>7. ASSUME NEW p \in Procs, NEW c \in todo[p], PruneCollectionScope(p, c) PROVE SnapshotsOwned'
  BY <1>7 DEF PruneCollectionScope
<1>8. ASSUME NEW p \in Procs, DeleteDerivedGraph(p) PROVE SnapshotsOwned'
  BY <1>8 DEF DeleteDerivedGraph
<1>9. ASSUME NEW p \in Procs, ReadGraph(p) PROVE SnapshotsOwned'
  BY <1>9 DEF ReadGraph, tables
<1>10. ASSUME NEW p \in Procs, ImportDerived(p) PROVE SnapshotsOwned'
  BY <1>10 DEF ImportDerived
<1>11. ASSUME NEW p \in Procs, Finish(p) PROVE SnapshotsOwned'
  <2>1. /\ UNCHANGED <<rows, snapshots, lastSnap, snap>>
        /\ completed' = completed \cup {snap[p]} /\ latest' \in {latest, snap[p]}
        /\ pc'[p] = "idle" /\ \A q \in Procs \ {p} : pc'[q] = pc[q]
        /\ Storing(p)
    BY <1>11 DEF Finish, progress
  <2>2. \A q \in Procs : Storing(q)' => Storing(q) /\ q # p
    BY <2>1
  <2>3. \A q \in Procs : Storing(q)' => snap'[q] \in snapshots' \ completed'
    BY <2>1, <2>2
  <2>4. completed' \subseteq snapshots' /\ latest' \in completed' \cup {0}
    BY <2>1, ZenonT(60)
  <2> HIDE DEF Storing
  <2> QED
    BY <2>1, <2>2, <2>3, <2>4
<1>12. CASE WorldChanges
  BY <1>12 DEF WorldChanges, tables, progress
<1>13. CASE UNCHANGED vars
  BY <1>13 DEF vars, tables, progress
<1> HIDE DEF SnapshotsOwned
<1> QED
  BY <1>1, <1>2, <1>3, <1>4, <1>5, <1>6, <1>7, <1>8, <1>9, <1>10, <1>11, <1>12, <1>13
     DEF Next, Continue

LEMMA TypeStep ==
  ASSUME TypeOK, SnapshotsOwned, [Next]_vars
  PROVE  TypeOK'
<1> USE InventoryAssumption DEF TypeOK, tables, progress, history, Goto, PC, Snaps
<1>1. ASSUME NEW p \in Procs, Start(p) PROVE TypeOK'
  BY <1>1 DEF Start, Begin, Jobs
<1>2. ASSUME NEW p \in Procs, NEW c \in todo[p], NEW got \in SUBSET Items, NEW warning \in BOOLEAN,
             CollectService(p, c, got, warning)
      PROVE  TypeOK'
  BY <1>2 DEF CollectService
<1>3. ASSUME NEW p \in Procs, RefuseForce(p) \/ Fail(p) \/ Crash(p) PROVE TypeOK'
  BY <1>3, EndsType
<1>4. ASSUME NEW p \in Procs, CreateSnapshot(p) PROVE TypeOK'
  <2>1. lastSnap' \in 1..MaxSnapshots
    BY <1>4 DEF CreateSnapshot
  <2> QED
    BY <1>4, <2>1 DEF CreateSnapshot
<1>5. ASSUME NEW p \in Procs, ResetInventory(p) PROVE TypeOK'
  BY <1>5 DEF ResetInventory
<1>6. ASSUME NEW p \in Procs, Import(p) PROVE TypeOK'
  BY <1>6 DEF Import
<1>7. ASSUME NEW p \in Procs, NEW c \in todo[p], PruneCollectionScope(p, c) PROVE TypeOK'
  BY <1>7 DEF PruneCollectionScope
<1>8. ASSUME NEW p \in Procs, DeleteDerivedGraph(p) PROVE TypeOK'
  BY <1>8 DEF DeleteDerivedGraph, Passes
<1>9. ASSUME NEW p \in Procs, ReadGraph(p) PROVE TypeOK'
  BY <1>9 DEF ReadGraph, Passes, Derivable
<1>10. ASSUME NEW p \in Procs, ImportDerived(p) PROVE TypeOK'
  <2>1. pass[p].n \in 0..3 /\ pass[p].edges \subseteq Derived
    BY DEF Passes
  <2>2. pc' \in [Procs -> PC] /\ pass' \in [Procs -> Passes]
    <3>1. CASE pass[p].n < 3
      <4>1. pass' = [pass EXCEPT ![p] = [n |-> pass[p].n + 1, edges |-> {}]]
        BY <1>10, <3>1 DEF ImportDerived
      <4>2. [n |-> pass[p].n + 1, edges |-> {}] \in Passes
        BY <2>1, <3>1 DEF Passes
      <4> QED
        BY <1>10, <3>1, <4>1, <4>2 DEF ImportDerived
    <3>2. CASE ~ (pass[p].n < 3)
      BY <1>10, <3>2, NoPassType DEF ImportDerived
    <3> QED
      BY <3>1, <3>2
  <2> QED
    BY <1>10, <2>1, <2>2 DEF ImportDerived
<1>11. ASSUME NEW p \in Procs, Finish(p) PROVE TypeOK'
  <2>1. snap[p] \in 1..MaxSnapshots
    BY <1>11 DEF Finish, SnapshotsOwned, Storing
  <2>2. completed' \subseteq Snaps
    <3>1. completed' = completed \cup {snap[p]} /\ completed \subseteq Snaps
      BY <1>11 DEF Finish
    <3> HIDE DEF TypeOK
    <3> QED
      BY <2>1, <3>1
  <2>3. latest' \in 0..MaxSnapshots
    <3>1. latest' \in {latest, snap[p]} /\ latest \in 0..MaxSnapshots
      BY <1>11 DEF Finish
    <3> HIDE DEF TypeOK
    <3> QED
      BY <2>1, <3>1
  <2> QED
    BY <1>11, <2>2, <2>3 DEF Finish
<1>12. CASE WorldChanges
  BY <1>12 DEF WorldChanges
<1>13. CASE UNCHANGED vars
  BY <1>13 DEF vars
<1> HIDE DEF TypeOK
<1> QED
  BY <1>1, <1>2, <1>3, <1>4, <1>5, <1>6, <1>7, <1>8, <1>9, <1>10, <1>11, <1>12, <1>13
     DEF Next, Continue

LEMMA PrunesCleanStep ==
  ASSUME TypeOK, PrunesClean, [Next]_vars
  PROVE  PrunesClean'
<1> USE DEF TypeOK, PrunesClean, Goto, PC
<1>1. ASSUME NEW p \in Procs, Start(p) PROVE PrunesClean'
  BY <1>1 DEF Start, Begin
<1>2. ASSUME NEW p \in Procs, NEW c \in todo[p], NEW got \in SUBSET Items, NEW warning \in BOOLEAN,
             CollectService(p, c, got, warning)
      PROVE  PrunesClean'
  BY <1>2 DEF CollectService
<1>3. ASSUME NEW p \in Procs, RefuseForce(p) \/ Fail(p) \/ Crash(p) PROVE PrunesClean'
  <2>1. Ends(p)
    BY <1>3 DEF RefuseForce, Fail, Crash
  <2> QED
    BY <2>1 DEF Ends
<1>4. ASSUME NEW p \in Procs, CreateSnapshot(p) PROVE PrunesClean'
  BY <1>4 DEF CreateSnapshot
<1>5. ASSUME NEW p \in Procs, ResetInventory(p) PROVE PrunesClean'
  BY <1>5 DEF ResetInventory, progress
<1>6. ASSUME NEW p \in Procs, Import(p) PROVE PrunesClean'
  BY <1>6 DEF Import
<1>7. ASSUME NEW p \in Procs, NEW c \in todo[p], PruneCollectionScope(p, c) PROVE PrunesClean'
  BY <1>7 DEF PruneCollectionScope
<1>8. ASSUME NEW p \in Procs, DeleteDerivedGraph(p) \/ ReadGraph(p) \/ ImportDerived(p) PROVE PrunesClean'
  BY <1>8 DEF DeleteDerivedGraph, ReadGraph, ImportDerived
<1>9. ASSUME NEW p \in Procs, Finish(p) PROVE PrunesClean'
  BY <1>9 DEF Finish, progress
<1>10. CASE WorldChanges
  BY <1>10 DEF WorldChanges, progress
<1>11. CASE UNCHANGED vars
  BY <1>11 DEF vars, progress
<1> HIDE DEF PrunesClean
<1> QED
  BY <1>1, <1>2, <1>3, <1>4, <1>5, <1>6, <1>7, <1>8, <1>9, <1>10, <1>11 DEF Next, Continue

\* What one prune call does to a node and to an edge.
LEMMA PruneEffect ==
  ASSUME TypeOK, NEW p \in Procs, NEW c \in todo[p], PruneCollectionScope(p, c)
  PROVE  /\ \A n \in Nodes : rows'[n] = IF n \in StaleNodes(p, c) THEN 0 ELSE rows[n]
         /\ \A e \in Edges : rows'[e] = IF e \in StaleEdges(p, c) \cup Attached(StaleNodes(p, c))
                                        THEN 0 ELSE rows[e]
<1>1. StaleEdges(p, c) \subseteq Edges /\ StaleNodes(p, c) \subseteq Nodes
  BY DEF StaleEdges, StaleNodes
<1>2. Attached(StaleNodes(p, c)) \subseteq Edges \cup Derived
  BY DEF Attached
<1>3. rows' = [i \in Items |-> IF i \in StaleNodes(p, c) \cup StaleEdges(p, c) \cup Attached(StaleNodes(p, c))
                               THEN 0 ELSE rows[i]]
  BY DEF PruneCollectionScope
<1> QED
  BY <1>1, <1>2, <1>3, InventoryAssumption DEF Items

LEMMA ListedTogetherStep ==
  ASSUME TypeOK, SnapshotsOwned, ListedTogether, [Next]_vars
  PROVE  ListedTogether'
<1> USE InventoryAssumption DEF TypeOK, ListedTogether, Stored, Whole, Items
<1>1. ASSUME NEW p \in Procs, Start(p) PROVE ListedTogether'
  BY <1>1 DEF Start, Begin, tables
<1>2. ASSUME NEW p \in Procs, NEW c \in todo[p], NEW got \in SUBSET Items, NEW warning \in BOOLEAN,
             CollectService(p, c, got, warning)
      PROVE  ListedTogether'
  BY <1>2 DEF CollectService, tables
<1>3. ASSUME NEW p \in Procs, RefuseForce(p) \/ Fail(p) \/ Crash(p) PROVE ListedTogether'
  <2>1. Ends(p) /\ rows' = rows
    BY <1>3 DEF RefuseForce, Fail, Crash, tables
  <2> QED
    BY <2>1 DEF Ends
<1>4. ASSUME NEW p \in Procs, CreateSnapshot(p) PROVE ListedTogether'
  BY <1>4 DEF CreateSnapshot
<1>5. ASSUME NEW p \in Procs, ResetInventory(p) PROVE ListedTogether'
  BY <1>5 DEF ResetInventory, progress
<1>6. ASSUME NEW p \in Procs, Import(p) PROVE ListedTogether'
  <2>1. snap[p] # 0
    BY <1>6 DEF Import, SnapshotsOwned, Storing
  <2> QED
    BY <1>6, <2>1 DEF Import
<1>7. ASSUME NEW p \in Procs, NEW c \in todo[p], PruneCollectionScope(p, c) PROVE ListedTogether'
  <2>1. seen' = seen
    BY <1>7 DEF PruneCollectionScope
  <2>2. ASSUME NEW e \in Edges, Stored(e)', NEW n \in Connects[e].with PROVE Stored(n)'
    <3>1. e \notin Attached(StaleNodes(p, c)) /\ Stored(e)
      BY <1>7, <2>2, PruneEffect
    <3>2. n \in {Connects[e].from, Connects[e].to} /\ n \in Nodes /\ Stored(n)
      BY <3>1
    <3>3. n \notin StaleNodes(p, c)
      BY <3>1, <3>2 DEF Attached
    <3> QED
      BY <1>7, <3>2, <3>3, PruneEffect
  <2> QED
    BY <2>1, <2>2
<1>8. ASSUME NEW p \in Procs, DeleteDerivedGraph(p) \/ ReadGraph(p) \/ ImportDerived(p) PROVE ListedTogether'
  BY <1>8 DEF DeleteDerivedGraph, ReadGraph, ImportDerived, tables
<1>9. ASSUME NEW p \in Procs, Finish(p) PROVE ListedTogether'
  BY <1>9 DEF Finish, progress
<1>10. CASE WorldChanges
  BY <1>10 DEF WorldChanges, progress, tables
<1>11. CASE UNCHANGED vars
  BY <1>11 DEF vars, progress, tables
<1> HIDE DEF ListedTogether
<1> QED
  BY <1>1, <1>2, <1>3, <1>4, <1>5, <1>6, <1>7, <1>8, <1>9, <1>10, <1>11 DEF Next, Continue

-----------------------------------------------------------------------------
(* Undisturbed runs *)

LEMMA QuietAloneStep ==
  ASSUME TypeOK, QuietAlone, [Next]_vars
  PROVE  QuietAlone'
<1> USE InventoryAssumption DEF TypeOK, QuietAlone, Idle, Goto, history
<1>1. ASSUME NEW p \in Procs, Start(p) PROVE QuietAlone'
  BY <1>1 DEF Start, Begin
<1>2. ASSUME NEW p \in Procs, NEW c \in todo[p], NEW got \in SUBSET Items, NEW warning \in BOOLEAN,
             CollectService(p, c, got, warning)
      PROVE  QuietAlone'
  BY <1>2 DEF CollectService
<1>3. ASSUME NEW p \in Procs, RefuseForce(p) \/ Fail(p) \/ Crash(p) PROVE QuietAlone'
  <2>1. Ends(p)
    BY <1>3 DEF RefuseForce, Fail, Crash
  <2> QED
    BY <2>1 DEF Ends
<1>4. ASSUME NEW p \in Procs,
             \/ CreateSnapshot(p) \/ ResetInventory(p) \/ Import(p) \/ DeleteDerivedGraph(p)
             \/ ReadGraph(p) \/ ImportDerived(p) \/ Finish(p)
      PROVE  QuietAlone'
  BY <1>4 DEF CreateSnapshot, ResetInventory, Import, DeleteDerivedGraph, ReadGraph, ImportDerived, Finish
<1>5. ASSUME NEW p \in Procs, NEW c \in todo[p], PruneCollectionScope(p, c) PROVE QuietAlone'
  BY <1>5 DEF PruneCollectionScope
<1>6. CASE WorldChanges
  BY <1>6 DEF WorldChanges
<1>7. CASE UNCHANGED vars
  BY <1>7 DEF vars
<1> HIDE DEF QuietAlone
<1> QED
  BY <1>1, <1>2, <1>3, <1>4, <1>5, <1>6, <1>7 DEF Next, Continue

\* What a step can be, seen from the run that is undisturbed after it: its
\* start, one of its own calls, or a change of nothing it depends on.
LEMMA QuietStep ==
  ASSUME TypeOK, QuietAlone, [Next]_vars, NEW p \in Procs, quiet' = p
  PROVE  \/ pc'[p] = "collect"
         \/ quiet = p /\ (\/ CreateSnapshot(p) \/ ResetInventory(p) \/ Import(p)
                          \/ \E c \in todo[p] : PruneCollectionScope(p, c)
                          \/ DeleteDerivedGraph(p) \/ ReadGraph(p) \/ ImportDerived(p) \/ Finish(p))
         \/ quiet = p /\ UNCHANGED <<tables, pc, job, progress>>
<1> USE InventoryAssumption DEF TypeOK, Idle, history
<1>1. ASSUME NEW q \in Procs, Start(q) PROVE pc'[p] = "collect"
  BY <1>1 DEF Start, Begin, Goto
<1>2. ASSUME NEW q \in Procs, NEW c \in todo[q], NEW got \in SUBSET Items, NEW warning \in BOOLEAN,
             CollectService(q, c, got, warning)
      PROVE  pc'[p] = "collect"
  BY <1>2 DEF CollectService, QuietAlone
<1>3. ASSUME NEW q \in Procs, RefuseForce(q) \/ Fail(q) \/ Crash(q) PROVE FALSE
  <2>1. Ends(q) /\ ~ Idle(q)
    BY <1>3 DEF RefuseForce, Fail, Crash
  <2> QED
    BY <2>1 DEF Ends, QuietAlone
<1>4. ASSUME NEW q \in Procs,
             \/ CreateSnapshot(q) \/ ResetInventory(q) \/ Import(q) \/ DeleteDerivedGraph(q)
             \/ ReadGraph(q) \/ ImportDerived(q) \/ Finish(q)
      PROVE  quiet = p /\ q = p
  BY <1>4 DEF CreateSnapshot, ResetInventory, Import, DeleteDerivedGraph, ReadGraph, ImportDerived, Finish,
              QuietAlone
<1>5. ASSUME NEW q \in Procs, NEW c \in todo[q], PruneCollectionScope(q, c) PROVE quiet = p /\ q = p
  BY <1>5 DEF PruneCollectionScope, QuietAlone
<1>6. CASE WorldChanges
  BY <1>6 DEF WorldChanges
<1>7. CASE UNCHANGED vars
  BY <1>7 DEF vars
<1> HIDE DEF TypeOK, Idle
<1> QED
  BY <1>1, <1>2, <1>3, <1>4, <1>5, <1>6, <1>7 DEF Next, Continue

\* Nothing becomes stale by a prune call.
LEMMA StaleShrinks ==
  ASSUME TypeOK, NEW p \in Procs, NEW c \in todo[p], PruneCollectionScope(p, c), NEW s \in Services
  PROVE  StaleNodes(p, s)' \subseteq StaleNodes(p, s) /\ StaleEdges(p, s)' \subseteq StaleEdges(p, s)
<1>1. \A i \in Items : rows'[i] \in {rows[i], 0}
  BY PruneEffect DEF Items
<1>2. UNCHANGED <<job, snap>>
  BY DEF PruneCollectionScope
<1>3. \A i \in Items : Stale(p, i)' => Stale(p, i)
  BY <1>1, <1>2 DEF Stale
<1>4. \A i \in Items : Stored(i)' => Stored(i)
  BY <1>1 DEF Stored
<1>5. StaleNodes(p, s)' \subseteq StaleNodes(p, s)
  BY <1>2, <1>3 DEF StaleNodes, InRegions, Items
<1>6. \A n : OwnsEnd(p, s, n)' => OwnsEnd(p, s, n)
  BY <1>2, <1>4 DEF OwnsEnd, Items
<1> QED
  BY <1>2, <1>3, <1>4, <1>5, <1>6 DEF StaleEdges, InRegions, Items

LEMMA RowsReconciledStep ==
  ASSUME TypeOK, SnapshotsOwned, PrunesClean, QuietAlone, [Next]_vars,
         NEW p \in Procs, quiet' = p, quiet = p => RowsReconciled(p)
  PROVE  RowsReconciled(p)'
<1> USE DEF RowsReconciled, Imported, TypeOK, Goto
<1>1. CASE pc'[p] = "collect"
  BY <1>1
<1>2. CASE CreateSnapshot(p)
  BY <1>2 DEF CreateSnapshot, SnapshotsOwned
<1>3. CASE quiet = p /\ ResetInventory(p)
  <2>1. snap[p] # 0
    BY <1>3 DEF ResetInventory, SnapshotsOwned, Storing
  <2> QED
    BY <1>3, <2>1 DEF ResetInventory, progress
<1>4. CASE quiet = p /\ Import(p)
  <2>1. snap[p] # 0
    BY <1>4 DEF Import, SnapshotsOwned, Storing
  <2>2. /\ pc'[p] = "prune" /\ snap' = snap /\ seen' = seen /\ clean'[p] \ todo'[p] = {}
        /\ \A i \in Items : rows'[i] = IF i \in seen[p] THEN snap[p] ELSE rows[i]
        /\ \A i \in Items : rows[i] # snap[p]
    BY <1>4 DEF Import
  <2> QED
    BY <2>1, <2>2 DEF Items
<1>5. ASSUME quiet = p, NEW c \in todo[p], PruneCollectionScope(p, c) PROVE RowsReconciled(p)'
  <2>1. /\ UNCHANGED <<pc, job, seen, clean, snap>> /\ todo'[p] = todo[p] \ {c} /\ pc[p] = "prune"
        /\ RowsReconciled(p)
    BY <1>5 DEF PruneCollectionScope
  <2>2. \A i \in Items : rows'[i] \in {rows[i], 0}
    BY <1>5, PruneEffect DEF Items
  <2>3. \A n \in Nodes \cap seen[p] : rows'[n] = snap[p]
    BY <1>5, <2>1, PruneEffect DEF StaleNodes, Stale
  <2>4. StaleNodes(p, c)' = {}
    BY <1>5, <2>1, PruneEffect DEF StaleNodes, Stale, InRegions
  <2>5. StaleEdges(p, c)' = {}
    <3>1. StaleEdges(p, c)' \subseteq StaleEdges(p, c)
      BY <1>5, StaleShrinks
    <3>2. \A e \in StaleEdges(p, c) : e \in Edges /\ rows'[e] = 0
      BY <1>5, PruneEffect DEF StaleEdges
    <3>3. \A e \in StaleEdges(p, c)' : rows'[e] # 0
      BY DEF StaleEdges, Stale
    <3> QED
      BY <3>1, <3>2, <3>3
  <2>6. \A s \in clean[p] \ todo[p] : StaleNodes(p, s)' = {} /\ StaleEdges(p, s)' = {}
    BY <1>5, <2>1, StaleShrinks
  <2> QED
    BY <2>1, <2>2, <2>3, <2>4, <2>5, <2>6
<1>6. CASE quiet = p /\ DeleteDerivedGraph(p)
  BY <1>6 DEF DeleteDerivedGraph, StaleNodes, StaleEdges, Stale, OwnsEnd, Stored, InRegions
<1>7. CASE quiet = p /\ (ReadGraph(p) \/ ImportDerived(p))
  BY <1>7 DEF ReadGraph, ImportDerived, tables, StaleNodes, StaleEdges, Stale, OwnsEnd, Stored, InRegions
<1>8. CASE quiet = p /\ Finish(p)
  BY <1>8 DEF Finish, progress, StaleNodes, StaleEdges, Stale, OwnsEnd, Stored, InRegions
<1>9. CASE quiet = p /\ UNCHANGED <<tables, pc, job, progress>>
  BY <1>9 DEF tables, progress, StaleNodes, StaleEdges, Stale, OwnsEnd, Stored, InRegions
<1> HIDE DEF RowsReconciled, Imported, TypeOK
<1> QED
  BY <1>1, <1>2, <1>3, <1>4, <1>5, <1>6, <1>7, <1>8, <1>9, QuietStep

LEMMA RowsRebuiltStep ==
  ASSUME TypeOK, SnapshotsOwned, QuietAlone, [Next]_vars,
         NEW p \in Procs, quiet' = p, quiet = p => RowsReconciled(p) /\ RowsRebuilt(p)
  PROVE  RowsRebuilt(p)'
<1> USE DEF RowsRebuilt, Imported, TypeOK, Goto
<1>1. CASE pc'[p] = "collect"
  BY <1>1
<1>2. CASE CreateSnapshot(p)
  BY <1>2 DEF CreateSnapshot
<1>3. CASE quiet = p /\ ResetInventory(p)
  BY <1>3 DEF ResetInventory, progress
<1>4. CASE quiet = p /\ Import(p)
  BY <1>4 DEF Import
<1>5. ASSUME quiet = p, NEW c \in todo[p], PruneCollectionScope(p, c) PROVE RowsRebuilt(p)'
  <2>1. UNCHANGED <<pc, job, seen, snap>> /\ pc[p] = "prune"
    BY <1>5 DEF PruneCollectionScope
  <2>2. SUFFICES ASSUME job[p].force PROVE \A i \in Items : rows'[i] = rows[i]
    BY <1>5, <2>1
  <2>3. \A i \in Items : rows[i] \in {0, snap[p]}
    BY <1>5, <2>1, <2>2
  <2>4. StaleNodes(p, c) = {} /\ StaleEdges(p, c) = {}
    BY <2>3 DEF StaleNodes, StaleEdges, Stale, Items
  <2>5. Attached(StaleNodes(p, c)) = {}
    BY <2>4 DEF Attached
  <2>6. \A n \in Nodes : rows'[n] = rows[n]
    BY <1>5, <2>4, PruneEffect
  <2>7. \A e \in Edges : rows'[e] = rows[e]
    BY <1>5, <2>4, <2>5, PruneEffect, ZenonT(60)
  <2> QED
    BY <2>6, <2>7 DEF Items
<1>6. CASE quiet = p /\ (DeleteDerivedGraph(p) \/ ReadGraph(p) \/ ImportDerived(p))
  BY <1>6 DEF DeleteDerivedGraph, ReadGraph, ImportDerived, tables
<1>7. CASE quiet = p /\ Finish(p)
  BY <1>7 DEF Finish, progress
<1>8. CASE quiet = p /\ UNCHANGED <<tables, pc, job, progress>>
  BY <1>8 DEF tables, progress
<1> HIDE DEF RowsRebuilt, Imported, TypeOK
<1> QED
  BY <1>1, <1>2, <1>3, <1>4, <1>5, <1>6, <1>7, <1>8, QuietStep

LEMMA DerivedInPassesStep ==
  ASSUME TypeOK, QuietAlone, [Next]_vars,
         NEW p \in Procs, quiet' = p, quiet = p => DerivedInPasses(p)
  PROVE  DerivedInPasses(p)'
<1> USE InventoryAssumption DEF DerivedInPasses, Goto
<1>1. CASE pc'[p] = "collect"
  BY <1>1
<1>2. CASE CreateSnapshot(p) \/ ResetInventory(p) \/ Import(p)
  BY <1>2 DEF CreateSnapshot, ResetInventory, Import, TypeOK
<1>3. ASSUME NEW c \in todo[p], PruneCollectionScope(p, c) PROVE DerivedInPasses(p)'
  BY <1>3 DEF PruneCollectionScope
<1>4. CASE quiet = p /\ DeleteDerivedGraph(p)
  <2>1. pc'[p] = "read" /\ pass'[p] = [n |-> 1, edges |-> {}] /\ derived' = {}
    BY <1>4 DEF DeleteDerivedGraph, TypeOK
  <2>2. {d \in Derivable' : PassOf[d] < 1} = {}
    BY DEF Derivable
  <2> QED
    BY <2>1, <2>2
<1>5. CASE quiet = p /\ ReadGraph(p)
  <2>1. /\ pc[p] = "read" /\ pc'[p] = "write" /\ UNCHANGED <<rows, derived>>
        /\ pass'[p].n = pass[p].n /\ pass'[p].edges = {d \in Derivable : PassOf[d] = pass[p].n}
    BY <1>5 DEF ReadGraph, tables, TypeOK, Passes
  <2>2. Derivable' = Derivable
    BY <2>1 DEF Derivable, Stored
  <2> QED
    BY <1>5, <2>1, <2>2
<1>6. CASE quiet = p /\ ImportDerived(p)
  <2>1. /\ pc[p] = "write" /\ rows' = rows /\ derived' = derived \cup pass[p].edges /\ DerivedInPasses(p)
    BY <1>6 DEF ImportDerived
  <2>2. Derivable' = Derivable /\ \A d \in Derivable : PassOf[d] \in 1..3
    BY <2>1 DEF Derivable, Stored
  <2>3. derived' = {d \in Derivable : PassOf[d] <= pass[p].n}
    BY <2>1, <2>2
  <2>4. CASE pass[p].n < 3
    <3>1. pc'[p] = "read" /\ pass'[p] = [n |-> pass[p].n + 1, edges |-> {}]
      BY <1>6, <2>4 DEF ImportDerived, TypeOK
    <3>2. {d \in Derivable : PassOf[d] <= pass[p].n} = {d \in Derivable : PassOf[d] < pass[p].n + 1}
      BY <2>1, <2>2
    <3> QED
      BY <2>1, <2>2, <2>3, <2>4, <3>1, <3>2
  <2>5. CASE ~ (pass[p].n < 3)
    <3>1. pc'[p] = "finish"
      BY <1>6, <2>5 DEF ImportDerived, TypeOK
    <3>2. derived' = Derivable
      BY <2>1, <2>2, <2>3, <2>5
    <3> QED
      BY <2>2, <3>1, <3>2
  <2> QED
    BY <2>4, <2>5
<1>7. CASE quiet = p /\ Finish(p)
  BY <1>7 DEF Finish, progress, Derivable, Stored, TypeOK
<1>8. CASE quiet = p /\ UNCHANGED <<tables, pc, job, progress>>
  BY <1>8 DEF tables, progress, Derivable, Stored
<1> HIDE DEF DerivedInPasses
<1> QED
  BY <1>1, <1>2, <1>3, <1>4, <1>5, <1>6, <1>7, <1>8, QuietStep

-----------------------------------------------------------------------------
(* Runs beside runs of other scopes *)

\* A process observes nodes of its account only, and of its regions unless a
\* service that is listed once for all of them reports them.
SeenInScope ==
  \A p \in Procs, n \in Nodes : n \in seen[p] =>
    /\ Describe[n].account = job[p].account
    /\ Describe[n].region \in job[p].regions \/ \E c \in GlobalServices : c \in NodeEmitters[n]

\* Only a forced run resets, no row is of a snapshot not imported yet, and a run
\* that derives has pruned every service.
CallsInOrder ==
  \A p \in Procs :
    /\ pc[p] = "reset" => job[p].force
    /\ pc[p] \in {"reset", "import"} => \A i \in Items : rows[i] # snap[p]
    /\ pc[p] \in {"read", "write", "finish"} => todo[p] = {}

ApartJobs ==
  \A p \in apart :
    /\ ~ Idle(p)
    /\ \A q \in Procs : q # p /\ ~ Idle(q) => Apart(job[p], job[q])

\* A node that only runs of the account and region of p's run touch.
Private(p, n) ==
  /\ Describe[n].account = job[p].account
  /\ Describe[n].region \in job[p].regions
  /\ Regional(n)

\* What the import and each prune call leave of such nodes stays.
ApartRows(p) ==
  pc[p] \in {"prune", "read", "write", "finish"} =>
    \A n \in Nodes : Private(p, n) =>
      /\ n \in seen[p] => rows[n] = snap[p]
      /\ n \notin seen[p] => rows[n] # snap[p]
      /\ n \notin seen[p] /\ (\E c \in clean[p] \ todo[p] : Describe[n].type \in OwnedNodes[c])
           => rows[n] = 0

ApartInv ==
  /\ SeenInScope
  /\ CallsInOrder
  /\ ApartJobs
  /\ \A p \in apart : ApartRows(p)

LEMMA SeenInScopeStep ==
  ASSUME TypeOK, SeenInScope, [Next]_vars
  PROVE  SeenInScope'
<1> USE InventoryAssumption DEF TypeOK, SeenInScope, Goto
<1>1. ASSUME NEW p \in Procs, Start(p) PROVE SeenInScope'
  <2>1. /\ seen'[p] = {}
        /\ \A q \in Procs \ {p} : seen'[q] = seen[q] /\ job'[q] = job[q]
    BY <1>1 DEF Start, Begin
  <2> QED
    BY <2>1
<1>2. ASSUME NEW p \in Procs, NEW c \in todo[p], NEW got \in SUBSET Items, NEW warning \in BOOLEAN,
             CollectService(p, c, got, warning)
      PROVE  SeenInScope'
  <2>1. /\ job' = job /\ seen'[p] = seen[p] \cup got
        /\ got \subseteq Reported(c, job[p].account, job[p].regions)
        /\ \A q \in Procs \ {p} : seen'[q] = seen[q]
    BY <1>2 DEF CollectService
  <2>2. \A n \in Nodes \cap got : /\ c \in NodeEmitters[n]
                                  /\ Describe[n].account = job[p].account
                                  /\ c \in GlobalServices \/ Describe[n].region \in job[p].regions
    BY <2>1 DEF Reported, InRegions
  <2> QED
    BY <2>1, <2>2
<1>3. ASSUME NEW p \in Procs, RefuseForce(p) \/ Fail(p) \/ Crash(p) PROVE SeenInScope'
  <2>1. seen'[p] = {} /\ \A q \in Procs \ {p} : seen'[q] = seen[q] /\ job'[q] = job[q]
    BY <1>3 DEF RefuseForce, Fail, Crash, Ends
  <2> QED
    BY <2>1
<1>4. ASSUME UNCHANGED <<seen, job>> PROVE SeenInScope'
  BY <1>4
<1>5. ASSUME NEW p \in Procs,
             \/ CreateSnapshot(p) \/ ResetInventory(p) \/ Import(p) \/ DeleteDerivedGraph(p)
             \/ ReadGraph(p) \/ ImportDerived(p) \/ Finish(p)
      PROVE  UNCHANGED <<seen, job>>
  BY <1>5 DEF CreateSnapshot, ResetInventory, Import, DeleteDerivedGraph, ReadGraph, ImportDerived,
              Finish, progress
<1>6. ASSUME NEW p \in Procs, NEW c \in todo[p], PruneCollectionScope(p, c) PROVE UNCHANGED <<seen, job>>
  BY <1>6 DEF PruneCollectionScope
<1>7. ASSUME WorldChanges \/ UNCHANGED vars PROVE UNCHANGED <<seen, job>>
  BY <1>7 DEF WorldChanges, vars, progress
<1> HIDE DEF TypeOK, SeenInScope
<1> QED
  BY <1>1, <1>2, <1>3, <1>4, <1>5, <1>6, <1>7 DEF Next, Continue

LEMMA CallsInOrderStep ==
  ASSUME TypeOK, SnapshotsOwned, CallsInOrder, [Next]_vars
  PROVE  CallsInOrder'
<1> USE InventoryAssumption DEF TypeOK, CallsInOrder, Goto
<1>1. ASSUME NEW p \in Procs, Start(p) PROVE CallsInOrder'
  <2>1. /\ pc'[p] = "collect" /\ rows' = rows
        /\ \A q \in Procs \ {p} : /\ pc'[q] = pc[q] /\ job'[q] = job[q] /\ snap'[q] = snap[q]
                                  /\ todo'[q] = todo[q]
    BY <1>1 DEF Start, Begin, tables
  <2> QED
    BY <2>1
<1>2. ASSUME NEW p \in Procs, NEW c \in todo[p], NEW got \in SUBSET Items, NEW warning \in BOOLEAN,
             CollectService(p, c, got, warning)
      PROVE  CallsInOrder'
  BY <1>2 DEF CollectService, tables
<1>3. ASSUME NEW p \in Procs, RefuseForce(p) \/ Fail(p) \/ Crash(p) PROVE CallsInOrder'
  <2>1. /\ pc'[p] = "idle" /\ rows' = rows
        /\ \A q \in Procs \ {p} : /\ pc'[q] = pc[q] /\ job'[q] = job[q] /\ snap'[q] = snap[q]
                                  /\ todo'[q] = todo[q]
    BY <1>3 DEF RefuseForce, Fail, Crash, Ends, tables
  <2> QED
    BY <2>1
<1>4. ASSUME NEW p \in Procs, CreateSnapshot(p) PROVE CallsInOrder'
  <2>1. /\ pc'[p] \in {"reset", "import"} /\ (pc'[p] = "reset" => job[p].force)
        /\ snap'[p] = lastSnap + 1 /\ UNCHANGED <<rows, job, todo>>
        /\ \A q \in Procs \ {p} : pc'[q] = pc[q] /\ snap'[q] = snap[q]
    BY <1>4 DEF CreateSnapshot
  <2>2. \A i \in Items : rows[i] # lastSnap + 1
    BY DEF SnapshotsOwned
  <2> QED
    BY <2>1, <2>2
<1>5. ASSUME NEW p \in Procs, ResetInventory(p) PROVE CallsInOrder'
  <2>1. \A q \in Procs : pc[q] \in {"reset", "import"} => snap[q] # 0
    BY DEF SnapshotsOwned, Storing
  <2> QED
    BY <1>5, <2>1 DEF ResetInventory, progress
<1>6. ASSUME NEW p \in Procs, Import(p) PROVE CallsInOrder'
  <2>1. /\ pc[p] = "import" /\ pc'[p] = "prune" /\ UNCHANGED <<job, snap>>
        /\ \A i \in Items : rows'[i] \in {rows[i], snap[p]}
        /\ \A q \in Procs \ {p} : pc'[q] = pc[q] /\ todo'[q] = todo[q]
    BY <1>6 DEF Import
  <2>2. \A q \in Procs \ {p} : pc[q] \in {"reset", "import"} => snap[q] # snap[p]
    BY <2>1 DEF SnapshotsOwned, Storing
  <2> QED
    BY <2>1, <2>2
<1>7. ASSUME NEW p \in Procs, NEW c \in todo[p], PruneCollectionScope(p, c) PROVE CallsInOrder'
  <2>1. /\ pc[p] = "prune" /\ UNCHANGED <<pc, job, snap>>
        /\ \A q \in Procs \ {p} : todo'[q] = todo[q]
    BY <1>7 DEF PruneCollectionScope
  <2>2. \A i \in Items : rows'[i] \in {rows[i], 0}
    BY <1>7, PruneEffect DEF Items
  <2>3. \A q \in Procs : pc[q] \in {"reset", "import"} => snap[q] # 0
    BY DEF SnapshotsOwned, Storing
  <2> QED
    BY <2>1, <2>2, <2>3
<1>8. ASSUME NEW p \in Procs, DeleteDerivedGraph(p) \/ ReadGraph(p) \/ ImportDerived(p) PROVE CallsInOrder'
  <2>1. /\ pc'[p] \in {"read", "write", "finish"} /\ todo[p] = {} /\ UNCHANGED <<rows, job, snap, todo>>
        /\ \A q \in Procs \ {p} : pc'[q] = pc[q]
    BY <1>8 DEF DeleteDerivedGraph, ReadGraph, ImportDerived, tables
  <2> QED
    BY <2>1
<1>9. ASSUME NEW p \in Procs, Finish(p) PROVE CallsInOrder'
  BY <1>9 DEF Finish, progress
<1>10. CASE WorldChanges \/ UNCHANGED vars
  BY <1>10 DEF WorldChanges, vars, tables, progress
<1> HIDE DEF TypeOK, CallsInOrder
<1> QED
  BY <1>1, <1>2, <1>3, <1>4, <1>5, <1>6, <1>7, <1>8, <1>9, <1>10 DEF Next, Continue

LEMMA ApartJobsStep ==
  ASSUME TypeOK, ApartJobs, [Next]_vars
  PROVE  ApartJobs'
<1> USE InventoryAssumption DEF TypeOK, ApartJobs, Goto, Idle
<1>1. ASSUME NEW p \in Procs, Start(p) PROVE ApartJobs'
  <2>1. /\ pc[p] = "idle" /\ pc'[p] = "collect"
        /\ \A q \in Procs \ {p} : pc'[q] = pc[q] /\ job'[q] = job[q]
        /\ apart' = {q \in apart : Apart(job[q], job'[p])}
                      \cup {q \in {p} : \A r \in Procs : pc[r] = "idle" \/ Apart(job[r], job'[p])}
    BY <1>1 DEF Start, Begin
  <2>2. \A j, k : Apart(j, k) => Apart(k, j)
    BY DEF Apart
  <2> QED
    BY <2>1, <2>2
<1>2. ASSUME NEW p \in Procs, RefuseForce(p) \/ Fail(p) \/ Crash(p) \/ Finish(p) PROVE ApartJobs'
  <2>1. /\ pc'[p] = "idle" /\ apart' = apart \ {p}
        /\ \A q \in Procs \ {p} : pc'[q] = pc[q] /\ job'[q] = job[q]
    BY <1>2 DEF RefuseForce, Fail, Crash, Ends, Finish
  <2> QED
    BY <2>1
<1>3. ASSUME NEW p \in Procs, pc[p] # "idle", pc'[p] # "idle", UNCHANGED <<job, apart>>,
             \A q \in Procs \ {p} : pc'[q] = pc[q]
      PROVE  ApartJobs'
  BY <1>3
<1>4. ASSUME NEW p \in Procs,
             \/ CreateSnapshot(p) \/ ResetInventory(p) \/ Import(p) \/ DeleteDerivedGraph(p)
             \/ ReadGraph(p) \/ ImportDerived(p)
      PROVE  ApartJobs'
  BY <1>3, <1>4 DEF CreateSnapshot, ResetInventory, Import, DeleteDerivedGraph, ReadGraph, ImportDerived,
                    history
<1>5. ASSUME UNCHANGED <<pc, job, apart>> PROVE ApartJobs'
  BY <1>5
<1>6. ASSUME NEW p \in Procs, NEW c \in todo[p], NEW got \in SUBSET Items, NEW warning \in BOOLEAN,
             CollectService(p, c, got, warning)
      PROVE  UNCHANGED <<pc, job, apart>>
  BY <1>6 DEF CollectService, history
<1>7. ASSUME NEW p \in Procs, NEW c \in todo[p], PruneCollectionScope(p, c)
      PROVE  UNCHANGED <<pc, job, apart>>
  BY <1>7 DEF PruneCollectionScope, history
<1>8. ASSUME WorldChanges \/ UNCHANGED vars PROVE UNCHANGED <<pc, job, apart>>
  BY <1>8 DEF WorldChanges, vars, history
<1> HIDE DEF TypeOK, ApartJobs
<1> QED
  BY <1>1, <1>2, <1>4, <1>5, <1>6, <1>7, <1>8 DEF Next, Continue

\* The rows of a run's own nodes are out of reach of the runs it is apart from.
LEMMA OutOfReach ==
  ASSUME TypeOK, SeenInScope, NEW p \in Procs, NEW q \in Procs, Apart(job[p], job[q]),
         NEW n \in Nodes, Private(p, n)
  PROVE  /\ n \notin seen[q]
         /\ \A c \in Services : n \notin StaleNodes(q, c)
<1>1. Describe[n].account # job[q].account \/ Describe[n].region \notin job[q].regions
  BY DEF Apart, Private
<1>2. n \notin seen[q]
  BY <1>1 DEF SeenInScope, Private, Regional
<1>3. ASSUME NEW c \in Services, n \in StaleNodes(q, c) PROVE FALSE
  BY <1>1, <1>3 DEF StaleNodes, InRegions, Private, Regional
<1> QED
  BY <1>2, <1>3

\* What the run itself does to them.
LEMMA ApartRowsOwnStep ==
  ASSUME TypeOK, SnapshotsOwned, PrunesClean, CallsInOrder, NEW p \in Procs, ApartRows(p),
         \/ Import(p)
         \/ \E c \in todo[p] : PruneCollectionScope(p, c)
         \/ DeleteDerivedGraph(p) \/ ReadGraph(p) \/ ImportDerived(p)
  PROVE  ApartRows(p)'
<1> USE DEF ApartRows, Goto, TypeOK
<1>1. CASE Import(p)
  <2>1. /\ pc'[p] = "prune" /\ UNCHANGED <<snap, seen, job>> /\ clean'[p] \ todo'[p] = {}
        /\ \A n \in Nodes : rows'[n] = IF n \in seen[p] THEN snap[p] ELSE rows[n]
        /\ \A n \in Nodes : rows[n] # snap[p]
    BY <1>1 DEF Import, CallsInOrder, Items
  <2> QED
    BY <2>1
<1>2. ASSUME NEW c \in todo[p], PruneCollectionScope(p, c) PROVE ApartRows(p)'
  <2>1. /\ pc[p] = "prune" /\ UNCHANGED <<pc, job, seen, clean, snap>> /\ todo'[p] = todo[p] \ {c}
        /\ c \in clean[p]
    BY <1>2 DEF PruneCollectionScope, PrunesClean
  <2>2. \A n \in Nodes : rows'[n] = IF n \in StaleNodes(p, c) THEN 0 ELSE rows[n]
    BY <1>2, PruneEffect
  <2>3. snap[p] # 0
    BY <2>1 DEF SnapshotsOwned, Storing
  <2>4. ASSUME NEW n \in Nodes, Private(p, n), n \notin seen[p], Describe[n].type \in OwnedNodes[c]
        PROVE  rows'[n] = 0
    <3>1. rows[n] # snap[p]
      BY <2>1, <2>4
    <3>2. rows[n] # 0 => n \in StaleNodes(p, c)
      BY <2>4, <3>1 DEF StaleNodes, Stale, Private, InRegions
    <3> QED
      BY <2>2, <3>2
  <2>5. ASSUME NEW n \in Nodes, n \in StaleNodes(p, c) PROVE rows[n] # snap[p]
    BY <2>5 DEF StaleNodes, Stale
  <2>6. ASSUME NEW n \in Nodes, Private(p, n) PROVE
             /\ n \in seen[p] => rows'[n] = snap[p]
             /\ n \notin seen[p] => rows'[n] # snap[p]
    BY <2>1, <2>2, <2>3, <2>5, <2>6
  <2>7. ASSUME NEW n \in Nodes, Private(p, n), n \notin seen[p], NEW d \in clean[p] \ (todo[p] \ {c}),
               Describe[n].type \in OwnedNodes[d]
        PROVE  rows'[n] = 0
    <3>1. CASE d = c
      BY <2>4, <2>7, <3>1
    <3>2. CASE d # c
      BY <2>1, <2>2, <2>7, <3>2
    <3> QED
      BY <3>1, <3>2
  <2>8. \A n : Private(p, n)' <=> Private(p, n)
    BY <2>1 DEF Private
  <2> QED
    BY <2>1, <2>6, <2>7, <2>8
<1>3. CASE DeleteDerivedGraph(p) \/ ReadGraph(p) \/ ImportDerived(p)
  <2>1. /\ UNCHANGED <<rows, job, seen, clean, todo, snap>> /\ pc[p] \in {"prune", "read", "write"}
    BY <1>3 DEF DeleteDerivedGraph, ReadGraph, ImportDerived, tables
  <2>2. \A n : Private(p, n)' <=> Private(p, n)
    BY <2>1 DEF Private
  <2> QED
    BY <2>1, <2>2
<1> QED
  BY <1>1, <1>2, <1>3

LEMMA ApartRowsStep ==
  ASSUME TypeOK, SnapshotsOwned, PrunesClean, ApartInv, [Next]_vars, NEW p \in apart'
  PROVE  ApartRows(p)'
<1> USE InventoryAssumption DEF TypeOK, ApartInv
<1>1. ASSUME p \in apart, NEW q \in Procs, q # p, ~ Idle(q)
      PROVE  Apart(job[p], job[q])
  BY <1>1 DEF ApartJobs
\* Nothing of p's run and none of its rows changes.
<1>2. ASSUME p \in apart, p \in Procs, \A n \in Nodes : Private(p, n) => rows'[n] = rows[n],
             pc'[p] = pc[p], job'[p] = job[p], seen'[p] = seen[p], clean'[p] = clean[p],
             todo'[p] = todo[p], snap'[p] = snap[p]
      PROVE  ApartRows(p)'
  <2>1. \A n : Private(p, n)' <=> Private(p, n)
    BY <1>2 DEF Private
  <2> QED
    BY <1>2, <2>1 DEF ApartRows
<1>3. ASSUME NEW q \in Procs, Start(q) PROVE ApartRows(p)'
  <2>1. CASE q = p
    BY <1>3, <2>1 DEF Start, Begin, Goto, ApartRows
  <2>2. CASE q # p
    BY <1>2, <1>3, <2>2 DEF Start, Begin, Goto, tables
  <2> QED
    BY <2>1, <2>2
<1>4. ASSUME NEW q \in Procs, NEW c \in todo[q], NEW got \in SUBSET Items, NEW warning \in BOOLEAN,
             CollectService(q, c, got, warning)
      PROVE  ApartRows(p)'
  <2>1. CASE q = p
    BY <1>4, <2>1 DEF CollectService, ApartRows
  <2>2. CASE q # p
    BY <1>2, <1>4, <2>2 DEF CollectService, tables, history
  <2> QED
    BY <2>1, <2>2
<1>5. ASSUME NEW q \in Procs, RefuseForce(q) \/ Fail(q) \/ Crash(q) PROVE ApartRows(p)'
  <2>1. Ends(q) /\ rows' = rows /\ apart' = apart \ {q}
    BY <1>5 DEF RefuseForce, Fail, Crash, tables, Ends
  <2> QED
    BY <1>2, <2>1 DEF Ends, Goto
<1>6. ASSUME NEW q \in Procs, CreateSnapshot(q) PROVE ApartRows(p)'
  <2>1. CASE q = p
    BY <1>6, <2>1 DEF CreateSnapshot, Goto, ApartRows
  <2>2. CASE q # p
    BY <1>2, <1>6, <2>2 DEF CreateSnapshot, Goto, history
  <2> QED
    BY <2>1, <2>2
<1>7. ASSUME NEW q \in Procs, ResetInventory(q) PROVE ApartRows(p)'
  <2>1. CASE q = p
    BY <1>7, <2>1 DEF ResetInventory, Goto, ApartRows
  <2>2. CASE q # p
    <3>1. p \in apart /\ pc[q] = "reset" /\ p \in Procs
      BY <1>7 DEF ResetInventory, history
    <3> QED
      BY <1>1, <2>2, <3>1 DEF Idle, CallsInOrder, Apart
  <2> QED
    BY <2>1, <2>2
<1>8. ASSUME NEW q \in Procs,
             \/ Import(q)
             \/ \E c \in todo[q] : PruneCollectionScope(q, c)
             \/ DeleteDerivedGraph(q) \/ ReadGraph(q) \/ ImportDerived(q)
      PROVE  ApartRows(p)'
  <2>1. p \in apart /\ p \in Procs /\ ~ Idle(q)
    BY <1>8 DEF Import, PruneCollectionScope, DeleteDerivedGraph, ReadGraph, ImportDerived, history, Idle
  <2>2. CASE q = p
    BY <1>8, <2>1, <2>2, ApartRowsOwnStep
  <2>3. CASE q # p
    <3>1. Apart(job[p], job[q])
      BY <1>1, <2>1, <2>3
    <3>2. \A n \in Nodes : Private(p, n) => rows'[n] = rows[n]
      <4>1. SUFFICES ASSUME NEW n \in Nodes, Private(p, n) PROVE rows'[n] = rows[n]
        OBVIOUS
      <4>2. n \notin seen[q] /\ \A c \in Services : n \notin StaleNodes(q, c)
        BY <2>1, <3>1, <4>1, OutOfReach
      <4>3. CASE Import(q)
        BY <4>2, <4>3 DEF Import, Items
      <4>4. ASSUME NEW c \in todo[q], PruneCollectionScope(q, c) PROVE rows'[n] = rows[n]
        BY <4>2, <4>4, PruneEffect
      <4>5. CASE DeleteDerivedGraph(q) \/ ReadGraph(q) \/ ImportDerived(q)
        BY <4>5 DEF DeleteDerivedGraph, ReadGraph, ImportDerived, tables
      <4> QED
        BY <1>8, <4>3, <4>4, <4>5
    <3>3. /\ pc'[p] = pc[p] /\ job'[p] = job[p] /\ seen'[p] = seen[p] /\ clean'[p] = clean[p]
          /\ todo'[p] = todo[p] /\ snap'[p] = snap[p]
      BY <1>8, <2>1, <2>3 DEF Import, PruneCollectionScope, DeleteDerivedGraph, ReadGraph, ImportDerived, Goto
    <3> QED
      BY <1>2, <2>1, <3>2, <3>3
  <2> QED
    BY <2>2, <2>3
<1>9. ASSUME NEW q \in Procs, Finish(q) PROVE ApartRows(p)'
  <2>1. /\ p \in apart /\ q # p /\ UNCHANGED <<rows, job, progress>> /\ pc' = [pc EXCEPT ![q] = "idle"]
    BY <1>9 DEF Finish, Goto
  <2> QED
    BY <1>2, <2>1 DEF progress
<1>10. CASE WorldChanges \/ UNCHANGED vars
  BY <1>2, <1>10 DEF WorldChanges, vars, tables, progress, history
<1> HIDE DEF TypeOK, ApartInv
<1> QED
  BY <1>3, <1>4, <1>5, <1>6, <1>7, <1>8, <1>9, <1>10 DEF Next, Continue

-----------------------------------------------------------------------------
(* Theorems *)

LEMMA InvariantHolds == Spec => [](TypeOK /\ IInv)
<1>1. Init => TypeOK /\ IInv
  <2>1. Init => TypeOK
    BY NoJobType, NoPassType, InventoryAssumption DEF Init, TypeOK, PC
  <2>2. Init => SnapshotsOwned /\ PrunesClean
    BY DEF Init, SnapshotsOwned, Storing, PrunesClean
  <2>3. Init => ListedTogether
    BY DEF Init, ListedTogether, Whole, Stored, Items
  <2>4. Init => QuietAlone /\ RunInv
    BY InventoryAssumption DEF Init, QuietAlone, RunInv
  <2> QED
    BY <2>1, <2>2, <2>3, <2>4 DEF IInv
<1>2. TypeOK /\ IInv /\ [Next]_vars => (TypeOK /\ IInv)'
  <2> SUFFICES ASSUME TypeOK, IInv, [Next]_vars PROVE TypeOK' /\ IInv'
    OBVIOUS
  <2>1. SnapshotsOwned /\ PrunesClean /\ ListedTogether /\ QuietAlone /\ RunInv
    BY DEF IInv
  <2>2. TypeOK' /\ SnapshotsOwned' /\ PrunesClean' /\ ListedTogether' /\ QuietAlone'
    BY <2>1, TypeStep, SnapshotsStep, PrunesCleanStep, ListedTogetherStep, QuietAloneStep
  <2>3. ASSUME NEW p \in Procs, quiet' = p PROVE (RowsReconciled(p) /\ RowsRebuilt(p) /\ DerivedInPasses(p))'
    <3>1. quiet = p => RowsReconciled(p) /\ RowsRebuilt(p) /\ DerivedInPasses(p)
      BY <2>1 DEF RunInv
    <3> QED
      BY <2>1, <2>3, <3>1, RowsReconciledStep, RowsRebuiltStep, DerivedInPassesStep
  <2> QED
    BY <2>2, <2>3 DEF IInv, RunInv
<1> QED
  BY <1>1, <1>2, PTL DEF Spec

\* Tables, processes and history have their types, however the calls of the
\* processes interleave and wherever they fail or are killed.
THEOREM TypeCorrect == Spec => []TypeOK
  BY InvariantHolds, PTL

\* Snapshots of completed runs are kept and the metadata names one of them
\* (DeleteSnapshot, SetMeta), whatever other processes fail or crash.
THEOREM CompletedRetainedCorrect == Spec => []CompletedRetained
<1>1. IInv => CompletedRetained
  BY DEF IInv, SnapshotsOwned, CompletedRetained
<1> QED
  BY <1>1, InvariantHolds, PTL

\* A run that no other one disturbed leaves, of every service that answered
\* without a warning, the nodes it observed and no others in its scope,
\* whatever earlier runs left there (Import, PruneCollectionScope).
THEOREM NodesReconciledCorrect == Spec => []NodesReconciled
<1>1. ASSUME TypeOK, IInv, NEW p \in Procs, Undisturbed(p), NEW c \in clean[p], NEW n \in Nodes, InScope(p, c, n)
      PROVE  Stored(n) <=> n \in seen[p]
  <2>1. /\ snap[p] # 0 /\ StaleNodes(p, c) = {}
        /\ rows[n] = snap[p] => n \in seen[p]
        /\ n \in seen[p] => rows[n] = snap[p]
    BY <1>1 DEF IInv, RunInv, RowsReconciled, Imported, Undisturbed, Idle, Items
  <2>2. rows[n] \in {0, snap[p]}
    BY <1>1, <2>1 DEF StaleNodes, Stale, InScope
  <2> QED
    BY <2>1, <2>2 DEF Stored
<1>2. TypeOK /\ IInv => NodesReconciled
  BY <1>1 DEF NodesReconciled
<1> QED
  BY <1>2, InvariantHolds, PTL

\* It leaves no edge of theirs that it did not observe, if the edge was listed
\* with the node it is looked up by.
THEOREM EdgesReconciledCorrect == Spec => []EdgesReconciled
<1>1. ASSUME TypeOK, IInv, NEW p \in Procs, Undisturbed(p), NEW c \in clean[p], NEW e \in Edges,
             Connects[e].type \in OwnedEdges[c], LookedUpBy(e) \in Connects[e].with,
             InScope(p, c, LookedUpBy(e)), Stored(e)
      PROVE  e \in seen[p]
  <2>1. /\ snap[p] # 0 /\ StaleEdges(p, c) = {}
        /\ rows[e] = snap[p] => e \in seen[p]
    BY <1>1 DEF IInv, RunInv, RowsReconciled, Imported, Undisturbed, Idle, Items
  <2>2. LookedUpBy(e) \in {Connects[e].from, Connects[e].to} \cap Nodes /\ Stored(LookedUpBy(e))
    BY <1>1, InventoryAssumption DEF IInv, ListedTogether
  <2>3. OwnsEnd(p, c, LookedUpBy(e)) /\ InRegions(c, job[p].regions, LookedUpBy(e))
    BY <1>1, <2>2 DEF OwnsEnd, InScope
  <2>4. OwnsEnd(p, c, Connects[e].from) \/ (Connects[e].from = Internet /\ OwnsEnd(p, c, Connects[e].to))
    BY <2>3 DEF LookedUpBy
  <2>5. ~ Stale(p, e)
    BY <1>1, <2>1, <2>2, <2>3, <2>4 DEF StaleEdges
  <2> QED
    BY <1>1, <2>1, <2>5 DEF Stale, Stored
<1>2. TypeOK /\ IInv => EdgesReconciled
  BY <1>1 DEF EdgesReconciled
<1> QED
  BY <1>2, InvariantHolds, PTL

\* Its derived edges are exactly those that follow from the stored inventory
\* (DeleteDerivedGraph and the three derivations).
THEOREM DerivedCurrentCorrect == Spec => []DerivedCurrent
<1>1. IInv => DerivedCurrent
  BY DEF IInv, RunInv, DerivedInPasses, DerivedCurrent, Undisturbed, Idle
<1> QED
  BY <1>1, InvariantHolds, PTL

\* A forced run leaves exactly what it observed, of any account (ResetInventory).
THEOREM ForceRebuildsCorrect == Spec => []ForceRebuilds
<1>1. IInv => ForceRebuilds
  BY DEF IInv, RunInv, RowsReconciled, RowsRebuilt, Imported, ForceRebuilds, Undisturbed, Idle, Stored
<1> QED
  BY <1>1, InvariantHolds, PTL

LEMMA ApartInvHolds == Spec => []ApartInv
<1>1. Init => ApartInv
  BY DEF Init, ApartInv, SeenInScope, CallsInOrder, ApartJobs
<1>2. TypeOK /\ IInv /\ ApartInv /\ [Next]_vars => ApartInv'
  <2> SUFFICES ASSUME TypeOK, IInv, ApartInv, [Next]_vars PROVE ApartInv'
    OBVIOUS
  <2>1. SnapshotsOwned /\ PrunesClean /\ SeenInScope /\ CallsInOrder /\ ApartJobs
    BY DEF IInv, ApartInv
  <2>2. SeenInScope' /\ CallsInOrder' /\ ApartJobs'
    BY <2>1, SeenInScopeStep, CallsInOrderStep, ApartJobsStep
  <2>3. \A p \in apart' : ApartRows(p)'
    BY <2>1, ApartRowsStep
  <2> QED
    BY <2>2, <2>3 DEF ApartInv
<1> QED
  BY <1>1, <1>2, InvariantHolds, PTL DEF Spec

\* A run beside runs of other accounts or regions ends with the nodes it observed
\* of every regional service that answered in full, and no others, whatever those
\* runs import, prune or leave undone (Import, PruneCollectionScope).
THEOREM SeparateRunsReconcileCorrect == Spec => []SeparateRunsReconcile
<1>1. ASSUME TypeOK, IInv, ApartInv, NEW p \in apart, pc[p] \in {"read", "write", "finish"},
             NEW c \in clean[p], NEW n \in Nodes, Regional(n), InScope(p, c, n)
      PROVE  Stored(n) <=> n \in seen[p]
  <2>1. p \in Procs /\ c \in Services
    BY <1>1 DEF TypeOK
  <2>2. Private(p, n) /\ Describe[n].type \in OwnedNodes[c]
    BY <1>1, <2>1 DEF InScope, InRegions, Private, Regional
  <2>3. c \in clean[p] \ todo[p] /\ snap[p] # 0
    BY <1>1, <2>1 DEF ApartInv, CallsInOrder, IInv, SnapshotsOwned, Storing
  <2>4. /\ n \in seen[p] => rows[n] = snap[p]
        /\ n \notin seen[p] => rows[n] = 0
    BY <1>1, <2>2, <2>3 DEF ApartInv, ApartRows
  <2> QED
    BY <2>3, <2>4 DEF Stored
<1>2. TypeOK /\ IInv /\ ApartInv => SeparateRunsReconcile
  BY <1>1 DEF SeparateRunsReconcile
<1> QED
  BY <1>2, InvariantHolds, ApartInvHolds, PTL

\* Only a prune call shortens the list of services to prune and goes on.
LEMMA PrunesIsPruneCall ==
  ASSUME TypeOK, [Next]_vars, NEW p \in Procs, NEW n \in Nodes,
         Prunes(p), Stored(n), rows'[n] = 0
  PROVE  \E c \in todo[p] : PruneCollectionScope(p, c)
<1> USE DEF TypeOK, Prunes, Stored
<1>1. ASSUME NEW q \in Procs, Start(q) PROVE FALSE
  BY <1>1 DEF Start, Begin, tables
<1>2. ASSUME NEW q \in Procs, NEW c \in todo[q], NEW got \in SUBSET Items, NEW warning \in BOOLEAN,
             CollectService(q, c, got, warning)
      PROVE  FALSE
  BY <1>2 DEF CollectService, tables
<1>3. ASSUME NEW q \in Procs, RefuseForce(q) \/ Fail(q) \/ Crash(q) PROVE FALSE
  BY <1>3 DEF RefuseForce, Fail, Crash, tables
<1>4. ASSUME NEW q \in Procs,
             \/ CreateSnapshot(q) \/ ResetInventory(q) \/ DeleteDerivedGraph(q)
             \/ ReadGraph(q) \/ ImportDerived(q) \/ Finish(q)
      PROVE  FALSE
  BY <1>4 DEF CreateSnapshot, ResetInventory, DeleteDerivedGraph, ReadGraph, ImportDerived, Finish,
              tables, progress
<1>5. ASSUME NEW q \in Procs, Import(q) PROVE FALSE
  BY <1>5 DEF Import
<1>6. ASSUME NEW q \in Procs, NEW c \in todo[q], PruneCollectionScope(q, c) PROVE q = p
  BY <1>6 DEF PruneCollectionScope
<1>7. CASE WorldChanges
  BY <1>7 DEF WorldChanges, tables
<1>8. CASE UNCHANGED vars
  BY <1>8 DEF vars, tables
<1> HIDE DEF TypeOK, Prunes, Stored
<1> QED
  BY <1>1, <1>2, <1>3, <1>4, <1>5, <1>6, <1>7, <1>8 DEF Next, Continue

-----------------------------------------------------------------------------
(* One collection at a time *)

LEMMA SerialIsConcurrent == SerialSpec => Spec
<1>1. [SerialNext]_vars => [Next]_vars
  BY DEF SerialNext, Next
<1> QED
  BY <1>1, PTL DEF SerialSpec, Spec

\* A run that began alone is undisturbed as long as it lasts.
SerialIsQuiet == \A p \in Procs : ~ Idle(p) => quiet = p

LEMMA SerialIsQuietHolds == SerialSpec => []SerialIsQuiet
<1>1. Init => SerialIsQuiet
  BY DEF Init, SerialIsQuiet, Idle
<1>2. TypeOK /\ SerialIsQuiet /\ [SerialNext]_vars => SerialIsQuiet'
  <2> SUFFICES ASSUME TypeOK, SerialIsQuiet, [SerialNext]_vars PROVE SerialIsQuiet'
    OBVIOUS
  <2> USE InventoryAssumption DEF TypeOK, SerialIsQuiet, Idle, Goto, history
  <2>1. ASSUME NEW p \in Procs, Start(p), \A q \in Procs : Idle(q) PROVE SerialIsQuiet'
    BY <2>1 DEF Start, Begin
  <2>2. ASSUME NEW p \in Procs, NEW c \in todo[p], NEW got \in SUBSET Items, NEW warning \in BOOLEAN,
               CollectService(p, c, got, warning)
        PROVE  SerialIsQuiet'
    BY <2>2 DEF CollectService
  <2>3. ASSUME NEW p \in Procs, RefuseForce(p) \/ Fail(p) \/ Crash(p) PROVE SerialIsQuiet'
    <3>1. Ends(p)
      BY <2>3 DEF RefuseForce, Fail, Crash
    <3> QED
      BY <2>3, <3>1 DEF Ends, RefuseForce, Fail, Crash
  <2>4. ASSUME NEW p \in Procs,
               \/ CreateSnapshot(p) \/ ResetInventory(p) \/ Import(p) \/ DeleteDerivedGraph(p)
               \/ ReadGraph(p) \/ ImportDerived(p) \/ Finish(p)
        PROVE  SerialIsQuiet'
    BY <2>4 DEF CreateSnapshot, ResetInventory, Import, DeleteDerivedGraph, ReadGraph, ImportDerived, Finish
  <2>5. ASSUME NEW p \in Procs, NEW c \in todo[p], PruneCollectionScope(p, c) PROVE SerialIsQuiet'
    BY <2>5 DEF PruneCollectionScope
  <2>6. CASE WorldChanges
    BY <2>6 DEF WorldChanges
  <2>7. CASE UNCHANGED vars
    BY <2>7 DEF vars
  <2> HIDE DEF SerialIsQuiet, Idle
  <2> QED
    BY <2>1, <2>2, <2>3, <2>4, <2>5, <2>6, <2>7 DEF SerialNext, Continue
<1> QED
  BY <1>1, <1>2, TypeCorrect, SerialIsConcurrent, PTL DEF SerialSpec

\* Run one at a time, a prune call never deletes what the run has observed; two
\* at a time it may (the run inventory_overlap).
THEOREM SerialPruneSparesObserved == SerialSpec => PruneSparesObserved
<1> DEFINE Spares == \A p \in Procs, n \in Nodes : Prunes(p) /\ Stored(n) /\ n \in seen[p] => rows'[n] # 0
<1>1. TypeOK /\ IInv /\ SerialIsQuiet /\ [Next]_vars => [Spares]_vars
  <2> SUFFICES ASSUME TypeOK, IInv, SerialIsQuiet, [Next]_vars, NEW p \in Procs, NEW n \in Nodes,
                      Prunes(p), Stored(n), n \in seen[p], rows'[n] = 0
               PROVE  FALSE
    OBVIOUS
  <2>1. PICK c \in todo[p] : PruneCollectionScope(p, c)
    BY PrunesIsPruneCall
  <2>2. rows[n] = snap[p]
    BY DEF Prunes, SerialIsQuiet, Idle, IInv, RunInv, RowsReconciled, Imported
  <2>3. n \notin StaleNodes(p, c)
    BY <2>2 DEF StaleNodes, Stale
  <2> QED
    BY <2>1, <2>3, PruneEffect DEF Stored
<1>2. SerialSpec => [](TypeOK /\ IInv)
  BY InvariantHolds, SerialIsConcurrent, PTL
<1> QED
  BY <1>1, <1>2, SerialIsQuietHolds, SerialIsConcurrent, PTL DEF Spec, PruneSparesObserved
=============================================================================

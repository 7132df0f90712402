----------------------------- MODULE Inventory -----------------------------
(***************************************************************************)
(* Service.Collect: the AWS account is listed service by service, imported *)
(* as a new snapshot, reconciled by pruning what each cleanly collected    *)
(* service no longer reports, and the derived edges are recomputed.  Every *)
(* store call is one SQLite transaction; the calls of two processes        *)
(* interleave, any call may fail, and a process may be killed between two. *)
(*                                                                         *)
(* A resource or a structural edge is a member of Nodes or Edges; a row of *)
(* the database is the snapshot it was last seen in.  Synthetic endpoints  *)
(* (the internet, external accounts) are imported with the edges that use  *)
(* them and dropped when none does, so no row of theirs is kept here.      *)
(***************************************************************************)
EXTENDS Naturals, Ownership

CONSTANTS Procs,        \* collect invocations that share the database file
          Accounts, Regions,
          InUse,        \* services with resources; the others report nothing
          Nodes,        \* resources that may exist in AWS
          Edges,        \* structural relationships that may exist
          Derived,      \* derived edges that may follow from them
          Describe,     \* node |-> [type, account, region]
          Connects,     \* structural or derived edge |-> [from, type, to, emitter, with]
                        \* with: the nodes listed by the same answer
          NodeEmitters, \* node |-> the services that report it
          Supports,     \* derived edge |-> the nodes and edges it rests on
          PassOf,       \* derived edge |-> the derivation pass that emits it
          Internet,     \* the synthetic endpoint of an edge
          None,
          MaxSnapshots, MaxChanges   \* bounds

ASSUME InventoryAssumption ==
  /\ None \notin Procs
  /\ Internet \notin Nodes
  /\ InUse \subseteq Services
  /\ Accounts # {}
  /\ Nodes \cap Edges = {} /\ Derived \cap (Nodes \cup Edges) = {}
  /\ \A n \in Nodes : /\ Describe[n].account \in Accounts
                      /\ Describe[n].region \in Regions
                      /\ NodeEmitters[n] \subseteq InUse
  /\ \A e \in Edges : /\ Connects[e].emitter \in InUse
                      /\ Connects[e].with \subseteq {Connects[e].from, Connects[e].to} \cap Nodes
  /\ \A e \in Edges \cup Derived : /\ Connects[e].from \in Nodes \cup {Internet}
                                  /\ Connects[e].to \in Nodes
  /\ \A d \in Derived : Supports[d] \subseteq Nodes \cup Edges /\ PassOf[d] \in 1..3
  /\ MaxSnapshots \in Nat /\ MaxChanges \in Nat

VARIABLES
  world,      \* what exists in AWS, a subset of Nodes and Edges
  changes,    \* how often it has changed
  rows,       \* nodes and edges tables: the snapshot of each row, 0 if none
  derived,    \* derived rows of the edges table
  snapshots,  \* rows of the snapshots table
  lastSnap,   \* the last snapshot id handed out; ids are creation times
  completed,  \* snapshots whose collection ran to its end
  latest,     \* metadata.latest_snapshot, 0 if not set
  pc, job,    \* per process: next store call, and the options of the command
  todo,       \* services still to collect, then to prune
  seen,       \* what was collected so far (agg)
  clean,      \* services completed without a warning
  warned,     \* len(agg.Warnings) > 0
  snap,       \* the snapshot created for this run
  pass,       \* derivation pass under way, with the edges it computed
  quiet,      \* history: whose run is, or was, undisturbed to its end
  apart       \* history: runs under way beside runs of other scopes only

tables == <<rows, derived, snapshots, completed, latest>>
progress == <<todo, seen, clean, warned, snap, pass>>
history == <<quiet, apart>>
vars == <<world, changes, tables, lastSnap, pc, job, progress, history>>

Items == Nodes \cup Edges
Snaps == 1..MaxSnapshots

PC == {"idle", "collect", "create", "reset", "import", "prune", "clear", "read", "write", "finish"}

Jobs == [account: Accounts, regions: SUBSET Regions, force: BOOLEAN]
Passes == [n: 0..3, edges: SUBSET Derived]

TypeOK ==
  /\ world \subseteq Items /\ changes \in 0..MaxChanges
  /\ rows \in [Items -> 0..MaxSnapshots]
  /\ derived \subseteq Derived
  /\ snapshots \subseteq Snaps /\ completed \subseteq Snaps
  /\ lastSnap \in 0..MaxSnapshots /\ latest \in 0..MaxSnapshots
  /\ pc \in [Procs -> PC]
  /\ job \in [Procs -> Jobs]
  /\ todo \in [Procs -> SUBSET Services]
  /\ seen \in [Procs -> SUBSET Items]
  /\ clean \in [Procs -> SUBSET Services]
  /\ warned \in [Procs -> BOOLEAN]
  /\ snap \in [Procs -> 0..MaxSnapshots]
  /\ pass \in [Procs -> Passes]
  /\ quiet \in Procs \cup {None} /\ apart \subseteq Procs

\* A relationship exists in AWS only between resources that exist.
Consistent(w) ==
  \A e \in Edges \cap w : {Connects[e].from, Connects[e].to} \subseteq w \cup {Internet}

NoPass == [n |-> 0, edges |-> {}]
NoJob == [account |-> CHOOSE a \in Accounts : TRUE, regions |-> {}, force |-> FALSE]

Init ==
  /\ world = Items /\ changes = 0
  /\ rows = [i \in Items |-> 0]
  /\ derived = {}
  /\ snapshots = {} /\ lastSnap = 0 /\ completed = {} /\ latest = 0
  /\ pc = [p \in Procs |-> "idle"]
  /\ job = [p \in Procs |-> NoJob]
  /\ todo = [p \in Procs |-> {}]
  /\ seen = [p \in Procs |-> {}]
  /\ clean = [p \in Procs |-> {}]
  /\ warned = [p \in Procs |-> FALSE]
  /\ snap = [p \in Procs |-> 0]
  /\ pass = [p \in Procs |-> NoPass]
  /\ quiet = None /\ apart = {}

Idle(p) == pc[p] = "idle"
Goto(p, label) == pc' = [pc EXCEPT ![p] = label]
Stored(i) == rows[i] # 0

\* The process is gone without having completed its run.
Ends(p) ==
  /\ Goto(p, "idle")
  /\ job' = [job EXCEPT ![p] = NoJob]
  /\ todo' = [todo EXCEPT ![p] = {}]
  /\ seen' = [seen EXCEPT ![p] = {}]
  /\ clean' = [clean EXCEPT ![p] = {}]
  /\ warned' = [warned EXCEPT ![p] = FALSE]
  /\ snap' = [snap EXCEPT ![p] = 0]
  /\ pass' = [pass EXCEPT ![p] = NoPass]
  /\ quiet' = IF quiet = p THEN None ELSE quiet
  /\ apart' = apart \ {p}

-----------------------------------------------------------------------------
(* Collecting *)

\* What a service reports about an account in the regions asked for.
InRegions(c, regions, n) == c \in GlobalServices \/ Describe[n].region \in regions

Reported(c, account, regions) ==
  {n \in Nodes \cap world : /\ c \in NodeEmitters[n]
                            /\ Describe[n].account = account
                            /\ InRegions(c, regions, n)}
  \cup {e \in Edges \cap world : /\ Connects[e].emitter = c
                                 /\ Describe[Connects[e].to].account = account
                                 /\ InRegions(c, regions, Connects[e].to)}

\* An edge is listed together with its resource.
Whole(got) == \A e \in got \cap Edges : Connects[e].with \subseteq got

\* What a service may leave out without a warning: a resource whose describe
\* call failed, with its edges, or the policy edges of a resource.
DroppedSilently(c, lost) ==
  \A i \in lost :
    \/ i \in Nodes /\ c \in DropsNodesSilently
    \/ i \in Edges /\ Connects[i].with \cap lost # {}
    \/ i \in Edges /\ c \in DropsPoliciesSilently /\ Connects[i].type \in PolicyEdges

\* Two runs that share no scope of a regional service: neither is forced, and
\* they collect different accounts or different regions.
Apart(j, k) ==
  ~ j.force /\ ~ k.force /\ (j.account # k.account \/ j.regions \cap k.regions = {})

\* --force cannot be combined with --services.
Begin(p, account, regions, services, force) ==
  /\ Idle(p)
  /\ lastSnap < MaxSnapshots
  /\ regions # {} /\ services # {}
  /\ force => services = InUse
  /\ Goto(p, "collect")
  /\ job' = [job EXCEPT ![p] = [account |-> account, regions |-> regions, force |-> force]]
  /\ todo' = [todo EXCEPT ![p] = services]
  /\ seen' = [seen EXCEPT ![p] = {}]
  /\ clean' = [clean EXCEPT ![p] = {}]
  /\ warned' = [warned EXCEPT ![p] = FALSE]
  /\ snap' = [snap EXCEPT ![p] = 0]
  /\ quiet' = IF \A q \in Procs : Idle(q) THEN p ELSE None
  /\ apart' = {q \in apart : Apart(job[q], job'[p])}
               \cup {q \in {p} : \A r \in Procs : Idle(r) \/ Apart(job[r], job'[p])}
  /\ UNCHANGED <<world, changes, tables, lastSnap, pass>>

\* A service answers in full, or loses some answers without saying so, or
\* warns that it could not list everything (or anything).
CollectService(p, c, got, warning) ==
  LET reported == Reported(c, job[p].account, job[p].regions) IN
  /\ pc[p] = "collect"
  /\ c \in todo[p]
  /\ got \subseteq reported /\ Whole(got)
  /\ warning \/ DroppedSilently(c, reported \ got)
  /\ seen' = [seen EXCEPT ![p] = @ \cup got]
  /\ clean' = [clean EXCEPT ![p] = IF warning THEN @ ELSE @ \cup {c}]
  /\ warned' = [warned EXCEPT ![p] = @ \/ warning]
  /\ todo' = [todo EXCEPT ![p] = @ \ {c}]
  /\ UNCHANGED <<world, changes, tables, lastSnap, pc, job, snap, pass, history>>

\* A forced rebuild is refused when anything could not be listed.
RefuseForce(p) ==
  /\ pc[p] = "collect"
  /\ todo[p] = {}
  /\ job[p].force /\ warned[p]
  /\ Ends(p)
  /\ UNCHANGED <<world, changes, tables, lastSnap>>

-----------------------------------------------------------------------------
(* The store calls *)

CreateSnapshot(p) ==
  /\ pc[p] = "collect"
  /\ todo[p] = {}
  /\ ~ (job[p].force /\ warned[p])
  /\ lastSnap < MaxSnapshots
  /\ lastSnap' = lastSnap + 1
  /\ snapshots' = snapshots \cup {lastSnap'}
  /\ snap' = [snap EXCEPT ![p] = lastSnap']
  /\ Goto(p, IF job[p].force THEN "reset" ELSE "import")
  /\ UNCHANGED <<world, changes, rows, derived, completed, latest, job, todo, seen,
                 clean, warned, pass, history>>

\* Fault: the reset is confined to the account collected.
ResetAccountInventory(p) ==
  /\ pc[p] = "reset"
  /\ rows' = [i \in Items |->
                IF i \in Nodes /\ Describe[i].account # job[p].account THEN rows[i] ELSE 0]
  /\ derived' = {}
  /\ Goto(p, "import")
  /\ UNCHANGED <<world, changes, snapshots, completed, latest, lastSnap, job, progress, history>>

\* Every account's graph goes, not only this one's.
ResetInventory(p) ==
  /\ pc[p] = "reset"
  /\ rows' = [i \in Items |-> 0]
  /\ derived' = {}
  /\ Goto(p, "import")
  /\ UNCHANGED <<world, changes, snapshots, completed, latest, lastSnap, job, progress, history>>

Import(p) ==
  /\ pc[p] = "import"
  /\ rows' = [i \in Items |-> IF i \in seen[p] THEN snap[p] ELSE rows[i]]
  /\ Goto(p, "prune")
  /\ todo' = [todo EXCEPT ![p] = clean[p]]
  /\ UNCHANGED <<world, changes, derived, snapshots, completed, latest, lastSnap, job,
                 seen, clean, warned, snap, pass, history>>

\* The rows one prune call selects: not of this snapshot, and of the service's
\* types in the account and regions collected.
Stale(p, i) == rows[i] \notin {0, snap[p]}

\* Fault: the region filter also applies to global services.
StaleRegionalNodes(p, c) ==
  {n \in Nodes : /\ Stale(p, n)
                 /\ Describe[n].account = job[p].account
                 /\ Describe[n].type \in OwnedNodes[c]
                 /\ Describe[n].region \in job[p].regions}

\* Fault: no region filter at all.
StaleNodesAnywhere(p, c) ==
  {n \in Nodes : /\ Stale(p, n)
                 /\ Describe[n].account = job[p].account
                 /\ Describe[n].type \in OwnedNodes[c]}

StaleNodes(p, c) ==
  {n \in Nodes : /\ Stale(p, n)
                 /\ Describe[n].account = job[p].account
                 /\ Describe[n].type \in OwnedNodes[c]
                 /\ InRegions(c, job[p].regions, n)}

\* An endpoint counts when its row exists (the joins of the query).
OwnsEnd(p, c, n) ==
  /\ n \in Nodes
  /\ Stored(n)
  /\ Describe[n].account = job[p].account
  /\ Describe[n].type \in OwnedNodes[c]

\* Fault: edges from the internet are not looked up by their target.
StaleOwnEdges(p, c) ==
  {e \in Edges :
     /\ Stale(p, e)
     /\ Connects[e].type \in OwnedEdges[c]
     /\ OwnsEnd(p, c, Connects[e].from)
     /\ InRegions(c, job[p].regions, Connects[e].from)}

StaleEdges(p, c) ==
  {e \in Edges :
     LET from == Connects[e].from  to == Connects[e].to IN
     /\ Stale(p, e)
     /\ Connects[e].type \in OwnedEdges[c]
     /\ OwnsEnd(p, c, from) \/ (from = Internet /\ OwnsEnd(p, c, to))
     /\ \E n \in {from, to} \cap Nodes : Stored(n) /\ InRegions(c, job[p].regions, n)}

\* Every edge with an end among the nodes, structural or derived.
Attached(nodes) ==
  {e \in Edges \cup Derived : {Connects[e].from, Connects[e].to} \cap nodes # {}}

PruneCollectionScope(p, c) ==
  LET gone == StaleNodes(p, c) \cup StaleEdges(p, c) \cup Attached(StaleNodes(p, c)) IN
  /\ pc[p] = "prune"
  /\ c \in todo[p]
  /\ rows' = [i \in Items |-> IF i \in gone THEN 0 ELSE rows[i]]
  /\ derived' = derived \ gone
  /\ todo' = [todo EXCEPT ![p] = @ \ {c}]
  /\ UNCHANGED <<world, changes, snapshots, completed, latest, lastSnap, pc, job, seen,
                 clean, warned, snap, pass, history>>

\* Fault: the edges derived by earlier runs are kept.
KeepDerivedGraph(p) ==
  /\ pc[p] = "prune"
  /\ todo[p] = {}
  /\ pass' = [pass EXCEPT ![p] = [n |-> 1, edges |-> {}]]
  /\ Goto(p, "read")
  /\ UNCHANGED <<world, changes, tables, lastSnap, job, todo, seen, clean, warned, snap, history>>

DeleteDerivedGraph(p) ==
  /\ pc[p] = "prune"
  /\ todo[p] = {}
  /\ derived' = {}
  /\ pass' = [pass EXCEPT ![p] = [n |-> 1, edges |-> {}]]
  /\ Goto(p, "read")
  /\ UNCHANGED <<world, changes, rows, snapshots, completed, latest, lastSnap, job, todo,
                 seen, clean, warned, snap, history>>

\* DeriveEdges, DeriveResourceAccess and DeriveNetworkExposure in turn: each
\* reads the stored graph, then imports the edges that follow from it.
Derivable == {d \in Derived : \A i \in Supports[d] : Stored(i)}

ReadGraph(p) ==
  /\ pc[p] = "read"
  /\ pass' = [pass EXCEPT ![p].edges = {d \in Derivable : PassOf[d] = pass[p].n}]
  /\ Goto(p, "write")
  /\ UNCHANGED <<world, changes, tables, lastSnap, job, todo, seen, clean, warned, snap, history>>

ImportDerived(p) ==
  /\ pc[p] = "write"
  /\ derived' = derived \cup pass[p].edges
  /\ IF pass[p].n < 3
       THEN /\ Goto(p, "read")
            /\ pass' = [pass EXCEPT ![p] = [n |-> @.n + 1, edges |-> {}]]
       ELSE /\ Goto(p, "finish")
            /\ pass' = [pass EXCEPT ![p] = NoPass]
  /\ UNCHANGED <<world, changes, rows, snapshots, completed, latest, lastSnap, job, todo,
                 seen, clean, warned, snap, history>>

\* Fault: the metadata names the newest snapshot instead of this run's.
FinishWithNewest(p) ==
  /\ pc[p] = "finish"
  /\ completed' = completed \cup {snap[p]}
  /\ latest' \in {latest, lastSnap}
  /\ Goto(p, "idle")
  /\ apart' = apart \ {p}
  /\ UNCHANGED <<world, changes, rows, derived, snapshots, lastSnap, job, progress, quiet>>

\* RecordCollectionRun and three calls of SetMeta, whose errors are ignored and
\* between which a process may die or another finish.  They are one step, as of what
\* they write only latest_snapshot is modelled: it is that of this run or, if the
\* call failed, what it was.  The other two rows may then be those of another run.
Finish(p) ==
  /\ pc[p] = "finish"
  /\ completed' = completed \cup {snap[p]}
  /\ latest' \in {latest, snap[p]}
  /\ Goto(p, "idle")
  /\ apart' = apart \ {p}
  /\ UNCHANGED <<world, changes, rows, derived, snapshots, lastSnap, job, progress, quiet>>

-----------------------------------------------------------------------------
(* Failures *)

\* A store call returns an error: the deferred call deletes the snapshot row.
Fail(p) ==
  /\ pc[p] \in {"reset", "import", "prune", "read", "write"}
  /\ snapshots' = snapshots \ {snap[p]}
  /\ Ends(p)
  /\ UNCHANGED <<world, changes, rows, derived, completed, latest, lastSnap>>

\* The process is killed: nothing runs any more.
Crash(p) ==
  /\ ~ Idle(p)
  /\ Ends(p)
  /\ UNCHANGED <<world, changes, tables, lastSnap>>

\* AWS changes on its own.
WorldChanges ==
  /\ changes < MaxChanges
  /\ changes' = changes + 1
  /\ world' \in {w \in SUBSET Items : Consistent(w)}
  /\ UNCHANGED <<tables, lastSnap, pc, job, progress, history>>

-----------------------------------------------------------------------------
\* A user starts a collection of some services (all of them if forced).
Start(p) ==
  \E account \in Accounts, regions \in SUBSET Regions, services \in SUBSET InUse,
     force \in BOOLEAN : Begin(p, account, regions, services, force)

Continue(p) ==
  \/ \E c \in todo[p], got \in SUBSET Items, warning \in BOOLEAN :
       CollectService(p, c, got, warning)
  \/ RefuseForce(p)
  \/ CreateSnapshot(p)
  \/ ResetInventory(p)
  \/ Import(p)
  \/ \E c \in todo[p] : PruneCollectionScope(p, c)
  \/ DeleteDerivedGraph(p)
  \/ ReadGraph(p)
  \/ ImportDerived(p)
  \/ Finish(p)

Next ==
  \/ \E p \in Procs : Start(p) \/ Continue(p) \/ Fail(p) \/ Crash(p)
  \/ WorldChanges

Spec == Init /\ [][Next]_vars

\* One collection at a time; it may still fail or be killed at any call.
SerialNext ==
  \/ (\A q \in Procs : Idle(q)) /\ \E p \in Procs : Start(p)
  \/ \E p \in Procs : Continue(p) \/ Fail(p) \/ Crash(p)
  \/ WorldChanges

SerialSpec == Init /\ [][SerialNext]_vars

-----------------------------------------------------------------------------
(* Properties *)

\* The last collection ran to its end with no other one beside it.
Undisturbed(p) == quiet = p /\ Idle(p)

InScope(p, c, n) ==
  /\ Describe[n].account = job[p].account
  /\ Describe[n].type \in OwnedNodes[c]
  /\ InRegions(c, job[p].regions, n)

\* The end by which a prune call looks an edge up.
LookedUpBy(e) == IF Connects[e].from = Internet THEN Connects[e].to ELSE Connects[e].from

\* After a successful collection the nodes of every cleanly collected service,
\* in its account and regions, are the ones just observed, whatever earlier
\* runs, failed or killed, had left there (PruneCollectionScope).
NodesReconciled ==
  \A p \in Procs : Undisturbed(p) =>
    \A c \in clean[p], n \in Nodes :
      InScope(p, c, n) => (Stored(n) <=> n \in seen[p])

\* So are the edges of the types it answers for that it lists with such a node:
\* none is left that this run did not observe.
EdgesReconciled ==
  \A p \in Procs : Undisturbed(p) =>
    \A c \in clean[p], e \in Edges :
      LET end == LookedUpBy(e) IN
      /\ Connects[e].type \in OwnedEdges[c]
      /\ end \in Connects[e].with /\ InScope(p, c, end)
      /\ Stored(e)
      => e \in seen[p]

\* Derived edges follow from the stored inventory, none missing and none left
\* from an inventory that is gone (DeleteDerivedGraph and the derivations).
DerivedCurrent ==
  \A p \in Procs : Undisturbed(p) => derived = Derivable

\* A forced rebuild leaves exactly what it observed, of any account.
ForceRebuilds ==
  \A p \in Procs : Undisturbed(p) /\ job[p].force =>
    \A i \in Items : Stored(i) <=> i \in seen[p]

\* DeleteSnapshot: completed runs retain their snapshots, and metadata never
\* names a run that did not complete, whatever other processes fail or crash.
CompletedRetained ==
  completed \subseteq snapshots /\ latest \in completed \cup {0}

\* A node that no service listed once for all regions reports or answers for.
Regional(n) == \A c \in GlobalServices : c \notin NodeEmitters[n] /\ Describe[n].type \notin OwnedNodes[c]

\* A partial collection does not remove unrelated inventory (docs/permissions.md):
\* while runs of other accounts or regions import, prune, fail or die beside it,
\* a run that has pruned finds of every regional service that answered it without
\* a warning the nodes it observed, and no others (Import, PruneCollectionScope).
SeparateRunsReconcile ==
  \A p \in apart : pc[p] \in {"read", "write", "finish"} =>
    \A c \in clean[p], n \in Nodes :
      Regional(n) /\ InScope(p, c, n) => (Stored(n) <=> n \in seen[p])

Prunes(p) == pc[p] = "prune" /\ todo'[p] # todo[p]

\* PruneCollectionScope removes records that were not observed in the new
\* snapshot: never one that this run did observe.
PruneSparesObserved ==
  [][\A p \in Procs, n \in Nodes :
       Prunes(p) /\ Stored(n) /\ n \in seen[p] => rows'[n] # 0]_vars
=============================================================================

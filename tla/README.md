# BlakHound in TLA+

BlakHound collects an AWS account into a graph kept in one SQLite file, derives
attack edges from it, scans it with rules and answers path queries, from a
command line and from an MCP server. This directory holds a formal model of it:
TLA+ modules translated from the Go source, TLC configurations that check them
on small instances, and theorems that TLAPS proves for instances of any size.

`PROJECT.json` lists the runs, the source lines behind every definition, the
hazards the properties are for, the disagreements found and the theorems.

## The system

| Component | State | Operations | What is hard |
|---|---|---|---|
| `internal/graph/store.go` | one SQLite file (WAL, one connection per process): snapshots, nodes, edges, evidence, metadata | CreateSnapshot, Import, ResetInventory, DeleteDerivedGraph, PruneCollectionScope, DeleteSnapshot, reads | each call is a transaction of its own; several processes share the file |
| `internal/graph/findings.go` | findings, finding_evidence, suppressions | UpsertFinding (3 statements), ResolveOpenFindings, Suppress, Unsuppress (2 statements each) | statements of different commands interleave; a command may die between two |
| `internal/app/service.go` | none of its own | Collect (list, import, prune, derive, record), Scan, FindPaths, WhoCanReach, WhatCanReach, InternetExposure | a dozen store calls that must leave a consistent graph after any failure; queries of many calls over a graph that changes |
| `internal/collector/*` | none | one Collect per service | pages in any order that may break off, silent per-resource failures, overlapping ownership of nodes and edges, ordered ACL rules |
| `internal/analysis/*` | none | DeriveEdges, DeriveResourceAccess, DeriveNetworkExposure, PrincipalPolicies, AllowsAction, Scan, ScorePath | many reads and three imports over a graph that others change; confidence must not be overstated |
| `internal/iam/*` | none | EvaluateIdentity, EvaluateTrust, EvaluateResourcePolicy, MatchWildcard | deny precedence, unresolved conditions, a loop that goes back |
| `internal/graph/traversal.go` | none | ShortestPath (breadth first), AllPaths (depth first) | depth and result limits, cycles, confidence filter, one query per node |
| `internal/mcp/*` | requests under way | JSON-RPC over stdio and HTTP | concurrent handlers on one database connection, answers in order, interrupts |
| `internal/cli/*` | none | commands that start the operations above | every invocation is a process |

The components meet in the SQLite file. `collect` writes the inventory and the
derived graph; `scan` reads them and writes findings; `finding suppress` and
`unsuppress` write suppressions; queries and the MCP server only read. No call
chain is a transaction: what is atomic is one store call in `store.go` (they
open a transaction) and one statement in `findings.go` (they do not). A process
may therefore see, or leave behind, any prefix of another's work.

What makes each component correct:

- **findings**: a suppression survives scans; a scan's table agrees with what it
  found; what a command cut short has left is repaired by the next complete scan
  that returns the finding.
- **collection**: a complete run leaves exactly what it observed in its scope,
  touches nothing outside it, and derives the graph from what is stored.
- **traversal**: answers are paths of the stored graph, within the limits, none
  invented, and none that stays in the graph is missed.
- **policies**: a decision depends on no order, and the policies named with it are
  those that grant it; edges and findings claim no more than the policies say.
- **network**: what is called definitely reachable has a complete path.
- **collectors**: what is recorded of an account is what AWS holds, whatever the
  order of the answers; what failed is missing, and nothing is invented for it.
- **queries**: what could be reached all the time is listed, and the order of the
  answers means something.
- **server**: every request is answered once, in order, and none waits for ever.

## Modules

| Module | Models | One action is |
|---|---|---|
| `Findings` | the three tables and every command that writes them | one SQL statement |
| `FindingLedger` | abstract: each command as one atomic operation on one table | one command |
| `FindingsRefinement` | the mapping from `Findings` to the ledger | |
| `Ownership` | which service owns which node and edge types | (tables) |
| `Inventory` | `Service.Collect` with its store calls, and AWS that changes | one listing or store call |
| `Paths` | paths and confidence filter | (operators) |
| `ShortestPath`, `AllPaths` | the two searches over a graph that changes between their reads | one turn of the loop |
| `Policies` | documents, statements and what a set of them decides | (operators) |
| `PolicyDecision` | `AllowsAction`: `EvaluateIdentity` over all sources, then over each | one statement of a policy |
| `PrincipalPolicies` | the queries that gather a principal's policies | one query or row |
| `Trust` | trust policies to edges (`EvaluateTrust`, `externalTrust`, `serviceTrust`), and the rule that reports them | one role |
| `IdentityRules` | pass-role and access edges, and the rules on principals | one principal |
| `Wildcard` | the matching loop | one turn of the loop |
| `PortRanges` | port summaries and their intersection | (operators) |
| `AclPorts` | the ports a network ACL opens | one pair of entries |
| `NetworkExposure` | reachable-from edges, and the findings on groups and resources | one subnet of a resource |
| `IamCollector` | users, groups, roles and policies to nodes and edges | one item of a page |
| `ResourcePolicies` | S3, Secrets Manager, KMS, SQS, SNS, Lambda and ECS, and `AnalyzeResourceExposure` | one request, or one statement of a policy |
| `Topology` | instances, interfaces, subnets and route tables (`EC2Collector`, `VPCCollector`) | one item of a page |
| `Queries` | the four queries of `service.go`, with the commands and tools that ask, and `ScorePath` | one store call |
| `Server` | both transports, and the statements of the handlers on the one connection | one statement |
| `Upserts` | rows kept by id | (operators) |
| `Decisions` | `PolicyDecision` beside `Wildcard` | of its parts |
| `Principals` | `IdentityRules` beside `Trust`, `PrincipalPolicies` and `IamCollector` | of its parts |
| `Network` | `NetworkExposure` beside `AclPorts`, `ResourcePolicies` and `Topology` | of its parts |
| `Serving` | `ShortestPath` beside `Server` | of its parts |
| `Querying` | `AllPaths` beside `Queries` | of its parts |

`MC*` modules give the constants values. `Decisions`, `Principals`, `Network`, `Serving`
and `Querying` put components side by side that share operators or constants and no
state while they run: they instantiate them, state their assumptions on the constants
and name their properties, for the runs and for the proofs. The behaviours of
`MCDecisions`, `MCPrincipals`, `MCNetwork`, `MCServer` and `MCQueries` pick one
component (`active`) and run it on any of its inputs, the others stay where they are.
`*Proofs` modules and `PathLemmas` hold the theorems. An operator whose comment begins
with "Fault:" is no part of the model. It is a wrong version of the definition behind
it, written to see that a property notices; `PROJECT.json` pairs each property with one.

How the code's state appears:

- **Rows.** `Findings` keeps `status`, `suppressions` and `linked` by
  fingerprint. `Inventory` keeps for each node and edge the snapshot it was last
  seen in (0: no row), which is all that pruning looks at.
- **Local variables** of a command are functions of the process (`todo`,
  `found`, `seen` in `Findings`; `seen`, `clean`, `warned` in `Inventory`).
- **History variables** only record: `quiet` (the last command met nobody), `apart`
  (runs that share no account or region with any beside them), `torn` (findings on
  which a suppress or unsuppress was cut off or overlapped), `ever` and `steady`, or
  `sometime` and `always` (what was stored at some time, or all the time), `failed`,
  `lost` and `unread` (requests and reads that failed).
- **Text** is reduced to what is asked of it. A pattern of a policy is the set of
  names it matches; a trust principal is what the four tests of the code answer;
  a port summary is a set of ranges, a condition is present or not, a document is
  the place it is kept in AWS, a score is counted in hundredths.
- **Failures.** A store call or a listing may fail, and a process may be killed
  before it. Where the code returns the error the command ends (`Abort`, `Fail`,
  `Crash`); where it keeps a warning the collection goes on (`FailPage`). Four reads
  of a node that decide an answer are passed over without a word, and the models go on as the code does:
  a neighbour of a search by type (`traversal.go:104`, `AllPaths!Descend`), a policy
  (`permissions.go:36`, `PrincipalPolicies!Visit`), what a finding is about
  (`scan.go:139` and `155`, `NetworkExposure!ScanNetwork`) and an exposed resource
  (`service.go:399`, `Queries!ReadExposed`). The properties then excuse the node that was
  not read, by name, and nothing else.

`Policies!Allowed` joins the policy modules: `PolicyDecision` shows that the
loops of the code compute it, and `IdentityRules` uses it where the code calls
`AllowsAction`. `PortRanges` is shared by `AclPorts`, which says what the
properties of an ACL node hold, and `NetworkExposure`, which reads them. `Queries`
takes a search as one operation that ends with any answer the searches are proved
to give (`FoundIsPath`, `SteadyPathFound`, `OutIsAnswers`, `OutInOrder`,
`SteadyPathsFound`), for what was stored between its first read and its last. The
collectors and what reads their results are checked side by side: the documents
that `IamCollector` makes readable are what `PrincipalPolicies` reads, and the
subnets and addresses of `Topology` are the inputs of `NetworkExposure`.

## Runs

All passing runs are exhaustive within their bounds. Deadlock is not checked
where the modelled command ends (`CHECK_DEADLOCK FALSE`).

| Run | Bounds | What it shows |
|---|---|---|
| `findings_concurrent` | 2 processes, 2 fingerprints | types; after any races and kills a scan that runs undisturbed settles what it returns and closes the rest, and status and suppression then differ only on findings that are gone and on which a suppress or unsuppress was cut off or overlapped |
| `findings_serial` | the same, one command at a time | between commands the tables agree; the commands implement the ledger; no step opens a finding whose suppression is on record |
| `inventory_network` | 1 account, an instance, a group, 3 snapshots, 1 change of AWS | edges and derived graph match a completed run |
| `inventory_scopes` | 2 accounts, 2 regions, regional and global services, 2 snapshots, 1 change | nodes reconciled in scope; a forced run leaves only what it saw |
| `inventory_concurrent` | 2 processes, overlapping regions | a run beside runs of other accounts or regions reconciles its own nodes, completed snapshots stay |
| `server` | search: every subset of 7 edges over 5 nodes, 2 changes; server: 2 requests with a message of any kind between them, edge lists of up to 2 rows | the answer is a path; no steady path is missed or beaten; the search ends; requests are answered once, in order, and none waits for ever |
| `queries` | search: the same graphs, 1 change of a node or an edge, a target by node, by type or by both, reads that fail; queries: 7 nodes, 8 edges of which at most 1 is missing, 1 change of a node or an edge, 9 requests, one with a type and one with no target at all | simple paths to the first target that could be read, in order, none hidden but by the limit or a failed read; what could be reached all the time is listed, nothing else is, the better path comes first |
| `decisions` | 2 policies of up to 2 statements of 8 kinds; patterns and names of up to 4 characters, names with a star of their own among them | order does not matter, the policies named are exact; `wildcard` decides like globbing, and ends |
| `principals` | accounts of a user, a role, 2 groups (one may have a path), 2 managed policies with up to 2 versions, inline policies of one name; 2 groups, 2 policies, 2 changes; 2 principals with policies of up to 2 of 8 statements; 2 roles of 2 accounts with up to 2 of 10 trust statements | no policy held throughout is missed unless its own read failed, none invented, none read twice; the edges are the allowed ones, none lost between derivations; assume-role edges are the trust relation, external trust is reported; a collected account gives each principal the documents in force for it |
| `network` | up to 3 of 11 ACL entries, 4 ports; 2 resources, 2 groups, 2 subnets; 2 resources of any service, one with up to 2 of 5 statements; 2 VPCs, 3 route tables, an instance with up to 2 interfaces, every order of the two collectors | what an ACL opens is what the first match lets in; definite means complete, complete is definite, unknown is possible, on the edges and, but for nodes the scan could not read, in the findings; public and shared is what the policies say, a subnet is public as its routes say, an instance is addressed as its interfaces are |
| `findings_race` | 2 processes, 1 fingerprint | violated: see Disagreements |
| `inventory_overlap` | 2 processes, overlapping regions | violated: see Disagreements |

Why these bounds. Races and suppressions concern one fingerprint at a time; the
second shows that a statement leaves others alone. Two processes suffice for
every pair of statements that can disturb each other. Two collections are needed
for something to become stale, a third for a run after a failed one. The graphs
of the searches hold a shorter and a longer way, a cycle and every confidence.
In policies an answer needs at most one deny and two allows on either side of
it; a first and a second document. Three ACL entries make one allow with two
denies before it or a deny between two allows; four ports make ranges that are
disjoint, touch, overlap and nest. The queries have a long certain way, a short
doubtful one and a short certain one to a resource, in this order of their ids; one
change falls between any two reads, which is what a query that reads everything once
can notice. Two pages of every listing (one item each) show every order and every
place to break off. Two policy statements make a conditional and an unconditional
grant in either order. A request, a message of any kind and a request are two
handlers at once over HTTP, and an order to keep on stdin. Counters are bounded by
`MaxSnapshots`, `MaxChanges`, `QueryChanges` and `MaxRows`, the sizes of inputs by
`MaxStatements`, `MaxDocuments`, `MaxEntries`, `MaxPattern` and `MaxName`, all in the
guards or initial states.

**Fairness.** `ShortestPath` assumes `WF(Search)` and `MCDecisions`
`WF(WildcardStep)`: a loop in one goroutine goes on. `Server` assumes `WF(Handle)`:
some handler runs as long as one can, which is the Go scheduler's promise and
`database/sql`'s, that a free connection is given to one who waits; it says nothing of
which handler. `MCServer` joins the two. Nothing assumes that a command or a request
is sent, that the loop reads another line, that AWS answers, or that a graph stops
changing (the changes are bounded).

## Disagreements between code and documentation

The code is modelled as it is. Two runs end in a counterexample to what a
comment in the source says:

| Run | What happens | Where | What is said |
|---|---|---|---|
| `findings_race` | a suppression that commits between UpsertFinding's read and write is overwritten | `findings.go:28` | `findings.go:12-13` |
| `inventory_overlap` | of two collections of one region, one prunes what it has just observed | `store.go:241` | `store.go:229-230` |

The models also contain the behaviours below. No run is spent on them; the
properties are stated so that they say what holds beside them.

| What happens | Where | What is said | Model |
|---|---|---|---|
| once the issue is gone, a status that a suppress or unsuppress cut in two left apart from the suppression row stays so: a scan closes open rows only, and updates those it finds | `findings.go:60` | `findings.go:57-58` | `Findings` (`torn`) |
| the metadata of two runs that end together may come to be mixed: account and caller of one, snapshot of the other | `service.go:170` | `docs/mcp.md` | `Inventory` (the snapshot only) |
| with `ToType`, a neighbour that cannot be read is no target, and the search goes on through it | `traversal.go:104` | `traversal.go:16` | `AllPaths`, `Queries` |
| a policy whose read fails is passed over, a deny as well as an allow | `permissions.go:36` | `permissions.go:20` | `PrincipalPolicies` |
| a group or resource that the scan cannot read gets no finding, and the one it had is closed | `scan.go:139`, `155` | `findings.go:57-58` | `NetworkExposure` |
| what an inline policy grants is derived without evidence: it is looked up by the policy node's id and stored under its owner's ARN | `derive.go:203`, `iam.go:212` | `README.md:21` | |
| an edge or a finding whose evidence could not be looked up is stored without it | `derive.go:50`, `205`, `scan.go:66` | `README.md:21` | |
| no evidence has a statement index: every call of `NewEvidence` passes none | `iam.go:111`, `177`, `213`, `policyedges.go:21` | `README.md:21` | |
| an edge of trust cites the inline policies of the role as well: evidence is looked up by the ARN they share | `derive.go:50` | `README.md:21` | |
| evidence keeps the document of the first collection when the policy changes | `store.go:381` | `README.md:21` | |
| a resource whose details were refused is pruned without a warning | `storage.go:181` | `docs/permissions.md:65-66` | `Inventory` |
| an instance keeps a detached security group: `attached-to` is listed by vpc and owned by no service that owns instances | `service.go:237` | `store.go:229-230` | `Inventory` |
| a deny under an unresolved condition leaves an allow definite | `eval.go:88` | `README.md:22` | `PolicyDecision` |
| a service trusted only under a condition is definite | `derive.go:166` | `README.md:22` | `Trust` |
| trust in an account root is definite | `derive.go:61` | `docs/graph-model.md:41` | `Trust` |
| a role that denies everyone is reported as trusting them | `derive.go:128` | `docs/attack-rules.md:32` | `Trust` |
| a role that trusts `{"AWS": "*"}` is not reported | `derive.go:139` | `docs/attack-rules.md:32` | `Trust` |
| a principal that the trust policy denies gets a definite edge | `eval.go:142` | `docs/graph-model.md:43` | `Trust` |
| a role's own account counts as external after another was collected | `derive.go:140` | `eval.go:127` | `Trust` |
| administrator and pass-role findings drop the confidence | `scan.go:86` | `README.md:22` | `IdentityRules` |
| PassRole on one role's ARN is derived but not reported | `scan.go:111` | `docs/attack-rules.md:28` | `IdentityRules` |
| `NotAction` or a partial deny passes for administrator | `scan.go:86` | `docs/attack-rules.md:31` | `IdentityRules` |
| a `*` in the name consumes the `*` of the pattern | `match.go:18` | `match.go:11` | `Wildcard` |
| a deny of one protocol before an allow of all is ignored | `network.go:424` | `network.go:428-429` | `AclPorts` |
| missing ACL data vanishes beside a definite answer | `derive_network.go:207` | `derive_network.go:21-22` | `NetworkExposure` |
| with a group or subnet missing, exposure vanishes | `network.go:254` | `derive_network.go:21-22` | `NetworkExposure` |
| all traffic is definite when one protocol may answer | `derive_network.go:225` | `README.md:138` | `NetworkExposure` |
| egress given as two adjacent ranges is taken for closed, and the exposure is dropped | `derive_network.go:228` | `derive_network.go:21-22` | `NetworkExposure` |
| an exposed resource whose read fails is left out of the list | `service.go:399` | `service.go:388` | `Queries` |
| evidence that cannot be read is left out of an edge's explanation | `service.go:431` | `service.go:420` | |
| a name is looked up exactly, not as a substring | `store.go:484` | `store.go:476` | `Queries` |
| `WhoCanReach` and `WhatCanReach` ignore the limit, and no depth is too large | `service.go:322` | `docs/mcp.md:18-19` | `Queries` |
| the three keys of `aws_identity` are read one by one and may be of two runs | `tools.go:101` | `docs/mcp.md` | `Server` |
| a prompt names two tools that do not exist | `prompts.go:25` | `docs/mcp.md` | |
| an idle stdio server notices an interrupt with the next line only | `server.go:62` | | `Server` |
| the diagram of one path loses its intermediate nodes | `export.go:91` | `export.go:80` | |
| members of a group with a path lose its policies: the ARN made from the name has no path | `iam.go:231` | `iam.go:18` | `IamCollector` |
| a role or user of another account in a resource policy makes no cross-account edge | `resource.go:42` | `resource.go:16` | `ResourcePolicies` |
| a resource policy that denies everyone leaves a public grant definite | `resource.go:24` | `README.md:22` | `ResourcePolicies` |
| a `GetPublicAccessBlock` that fails counts as not blocked | `s3.go:81` | `README.md:22` | `ResourcePolicies` |
| `"*"` sets a flag and is not kept in `AWS` | `policy.go:72` | `policy.go:58` | `ResourcePolicies` |
| collecting ec2 without vpc, or after it, erases the public address of a secondary interface | `compute.go:76` | `docs/permissions.md:47-48` | `Topology` |
| the address of one interface and the open group of another make one path | `network.go:495` | `README.md:138` | `Topology` |
| when the route tables could not all be listed, a subnet with a private table of its own may be called public | `network.go:236` | `network.go:162` | `Topology` |

## Proofs

TLAPS checks every theorem below for all values of the constants that satisfy
the named assumptions, which TLC evaluates in the runs. The theorems state
the properties that the runs check, unqualified, of the same definitions.

**Assumptions.** Beside types and bounds they say what the code's identifiers
are by their form: `None` and other markers (no row, no table, no group) are no
identifier; the ids of users, roles, groups and managed policies differ, as ARNs
of different types do; a service is no account or principal; nodes and edges have
ids of their own; a finding's rule is one rule; an AWS account has one default
version of a policy and one main table of a VPC; a subnet's table is of its VPC.
None restricts what AWS or a graph holds otherwise.

**Findings** (`FindingsProofs`). `QuietScanSettlesCorrect` uses `QuietInv`, which
says what an undisturbed scan has achieved at each statement: what it has
upserted is settled, and what is neither upserted nor still to come is not open.
The property alone is not inductive, as it speaks of ended scans. `TornInv` adds
that status and suppression row agree on every finding that is not torn and on which
no command is half done.
`SuppressionHolds` rests on `OneCommand`: when one command runs at a time, what a
scan read from `suppressions` still holds when it writes. It covers commands that
are killed (`CrashingSpec`) too; the run checks whole ones. For the refinement a
command that is half done counts as done: the mapped status of a fingerprint whose
second statement is pending is the one it will get. Each statement is then one
ledger operation or a stutter (`StepMaps`), `SerialImplementsLedger` follows, and
with the ledger's own invariant (`LedgerIsConsistent`) `TablesAgreeCorrect`.

**Collection** (`InventoryProofs`). `IInv` has five parts. `SnapshotsOwned`: a snapshot
under way is that of one process, and rows carry ids of snapshots that were begun.
`PrunesClean`: what is still to be pruned had no warning. `ListedTogether`: an edge that
a listing gives comes with the nodes it is listed with. `QuietAlone`: while a run meets
nobody no other run is under way. `RunInv` says, step by step of an undisturbed run,
which rows agree with what it listed (`RowsReconciled`), that a forced run has only its
own (`RowsRebuilt`), and that the derived graph is what the passes so far derive
(`DerivedInPasses`). `ApartInv`: the rows that only a run of its own scope may touch
carry its snapshot or were not seen by it, whatever runs of other scopes do. From these:
`CompletedRetained`, `NodesReconciled`, `EdgesReconciled`, `DerivedCurrent`,
`ForceRebuilds`, `SeparateRunsReconcile`, and `SerialPruneSparesObserved`: the claim
that `inventory_overlap` refutes does hold when collections do not overlap.

**Searches.** `ShortestPathProofs`: `FoundIsPathCorrect` needs that every queue entry is
a walk over edges stored at some time (`QueueInv`). `SteadyPathFoundCorrect` is
completeness and minimality: `LevelInv` says that the queue holds at most two
consecutive depths in order, and that every node at the end of a steady path is visited,
or some node of the path waits in the queue at no greater depth. `QueryingProofs`:
`SearchInv` ties the stack of loops to the path and to the marks on its nodes.
`OutIsAnswersCorrect` follows; `OutInOrder` adds that all listed paths come before
whatever lies ahead (`OrderInv`), and `SteadyPathsFoundCorrect` that each path it owes
(`IsOwed`: over steady edges, to a target that was stored and readable all the time,
through nodes that were never one) is listed or lies ahead, unless the list is full
(`CoverInv`). Facts on sequences and paths are in `PathLemmas`.

**Queries** (`QueryingProofs`). `QueryInv` has seven parts. `QueryHistoryInv`: what was
stored all the time is stored now, what is stored now was so at some time, and the
window of a search lies between the two. `QueryPlaceInv`: where in the chain of calls
the query is, and what its variables hold there. `QueryRouteInv`: what is still to be
explained, or was answered, was found between nodes that the request asks about.
`QueryOnceInv` and `QueryLoopInv`: no path comes twice and no node of a loop does.
`QueryCoverInv`: a pair is answered, or still ahead in the loop (`LoopCovers`) or the
list of paths (`PathsCover`, `ExposureCovers`), or in hand, or nothing that was stored
all the time joins it, or a read it depends on failed (`lost`). `QueryOrderInv`: every
answer has the score and severity its path deserves, and in the end no answer should
come before one ahead of it. `ReachIsListedCorrect` is what the first six leave when
nothing is ahead. `RankingIsEarnedCorrect` needs arithmetic: the confidence of a path is
the least of its edges' (`WeakestIs`), a path of the same ends that is shorter or surer
scores more unless both score nothing (`StrongerScores`), and only definite paths reach
high severity (`SevereIsDefinite`); and it needs that sorting by the number of answers
that come before is a permutation in order (`RanksAreAll`, `BeforeIs`, `SortPermutes`).

**Server** (`ShortestPathProofs`). `AnswersInOrderCorrect` from `ServeInv`: what is
on stdout are the answers to the requests that have ended, each once (`OutputInv`);
over stdio a request is under way only after all before it have ended (`TurnInv`),
so appending keeps the order (`AnswerOrderInv`).

**Policy decisions** (`PolicyDecisionProofs`). `LoopInv` states the two flags by the
statements passed so far, `CallInv` what the evaluations before this one have answered;
with `Bounded` they give `DecisionIsOrderFreeCorrect` and
`CitesGrantingPoliciesCorrect`. The second holds because a deny anywhere ends the first
evaluation: the evaluations of single sources see no deny but their own.
`MatchIsGlobCorrect` is the correctness of the loop of `wildcard`, for names without a
star of their own (see Disagreements). A pattern matches a name when the name can be cut
into pieces, one for each character of the pattern (`Aligns`). `MatchedInv` keeps such a
cut of what was read for what was consumed; `EarliestInv` says that every cut of the
whole ends the piece of the last star no earlier than the loop has tried, so that going
back to that star alone, and no further, loses nothing.

**Principals** (`PrincipalsProofs`). `SteadyPolicyRead` and `ReadPolicyWasEffective`
from `ReadsInv`: histories contain the tables they record, and the policies of every
owner visited are in the rows at hand or seen already; a policy passed over unread is in
`unread`. `CollectedPoliciesAreEffective` from `CollectInv`: edges and policy nodes are
exactly those of the items that came. `AssumeEdgesAreTrust`,
`DefiniteTrustIsUnconditional` and `ExternalTrustIsReported` from `TrustInv`: what is
derived is the union of what each role reached gives, and roles write no edge of
another. `ClaimsAreAllowed` from `RulesInv`: the three batches cover the principals
reached (`BatchesInv`), the findings those scanned (`ScannedInv`).

**Network** (`NetworkProofs`). `DefiniteIsComplete`, `OpenPathIsDefinite` and
`UnknownIsPossible` from `ExposureInv`: at every turn the two sets of ranges are the
union over the subnets followed; after the scan the findings are those of the nodes
that were read (`Read`). `FirstMatchDecides` from `AclInv`: the
segments left of an entry are what the denies passed leave open (`SegmentsInv`),
which needs that subtracting a range from a range gives ranges that cover exactly the
difference. `PublicAccessIsGranted` from `PolicyInv`: the flags are those of the
statements read (`AnalysisInv`), and a resource that was dealt with and for which no
request failed is recorded in full (`DealtInv`). `TopologyIsRecorded` from
`TopologyInv`: the routes known are those of some set of tables (`RoutesInv`), of
all when the listing did not break off; in the default order an instance has its
interfaces' addresses because they are listed after it (`InterfacesInv`).

The proofs changed the model in four places. The cases of
`NetworkExposure!OpenPorts` overlapped, so that its value was a choice of
TLC's. `EdgesReconciled` was false for edges between regions, which are listed
with one end and pruned by another: it now speaks of the end an edge is looked up
by. `Queries` got stuck when it
had listed no nodes to search: an empty loop now ends with no answer, as in the
code. Assumptions were missing, among them that the rules of `IdentityRules`
are not named like the two built in.

Every invariant and every action property that a passing run checks is a theorem. Only
model-checked are the liveness properties `SearchTerminates`, `EveryCallAnswered` and
`MatchEnds`, and the two claims that runs refute: the prover does not reach fairness.
Depth and limit of the searches are any positive numbers in the theorems; the runs take
small ones. What a `Queries` search may answer is an assumption of its theorems in the
form of its model (see Modules), which the theorems on `ShortestPath` and `AllPaths`
justify; the two are not composed step by step.


## Not modelled

- Evidence rows, collection runs, error records, and the account and caller in the
  metadata: written, never read back by a decision.
- The region of a bucket, which is empty when `GetBucketLocation` fails
  (`s3.go:67`): no rule reads it.
- Parsing of policies and AWS answers, explanations, remediation texts, export
  and redaction: conversions without state.
- `Search`, counts, listings and `ExplainEdge`: single reads whose result is
  formatted; `Server` counts the statements they run.
- `EvaluateResourcePolicy`: called by tests only.
- The listings of VPCs, gateways, security groups, load balancers and databases:
  each item becomes a node and edges without regard to any other. What exposure
  reads of groups, load balancers and databases is input of `NetworkExposure`.
- Several regions in `IamCollector`, `ResourcePolicies` and `Topology`: each region is
  listed alike, and ids hold the region. Regions are modelled in `Inventory`.
- The order of snapshots by the text of their times: see below.
- The schemas and texts of the MCP server, parsing of flags, configuration, the
  AWS client and the output of commands.

## Plan

Modelled, checked and proved: `Findings` with its ledger, `Inventory`, both
searches, the policy modules, `Wildcard`, the network modules, the collectors,
`Server` and `Queries`. Left:

1. The listeners of load balancers.
2. The order of snapshots by the text of their times.
3. Collection and scan composed over one store: an abstract specification of
   the store as the last completed collection, and its findings.

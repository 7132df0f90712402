------------------------------ MODULE Findings ------------------------------
(***************************************************************************)
(* The findings and suppressions tables of the SQLite store, and the       *)
(* commands that write them: scan, finding suppress, finding unsuppress    *)
(* and the reset of collect --force.  Each command is an operating-system  *)
(* process of its own and each SQL statement is a transaction of its own,  *)
(* so one action is one statement and the statements of different          *)
(* processes interleave.  A statement may fail and a process may be        *)
(* killed: either way the command stops where it is (Abort).               *)
(***************************************************************************)
CONSTANTS Procs,         \* command invocations that share the database file
          Fingerprints,  \* findings the rules can produce
          None           \* no process, no finding

ASSUME NoneAssumption == None \notin Procs \cup Fingerprints

VARIABLES status,        \* findings.status by fingerprint, "absent": no row
          suppressions,  \* rows of the suppressions table
          linked,        \* fingerprints with their finding_evidence rows
          detected,      \* what the rules find on the graph as it is now
          pc,            \* the statement each process executes next
          arg,           \* the fingerprint that statement is about
          todo,          \* scan: rules to evaluate, then findings to upsert
          found,         \* scan: the findings slice analysis.Scan builds
          seen,          \* UpsertFinding's local variable suppressed
          quiet,         \* history: whose scan ran, or runs, undisturbed
          torn           \* history: findings on which a suppress or unsuppress
                         \* was cut off or overlapped, not reported since

tables == <<status, suppressions, linked>>
locals == <<arg, todo, found, seen>>
history == <<quiet, torn>>
vars == <<tables, detected, pc, locals, history>>

Status == {"absent", "open", "resolved", "suppressed"}

PC == {"idle", "evaluate", "upsert", "write", "link",
       "suppress", "mark", "unsuppress", "reopen"}

TypeOK ==
  /\ status \in [Fingerprints -> Status]
  /\ suppressions \subseteq Fingerprints
  /\ linked \subseteq Fingerprints
  /\ detected \subseteq Fingerprints
  /\ pc \in [Procs -> PC]
  /\ arg \in [Procs -> Fingerprints \cup {None}]
  /\ todo \in [Procs -> SUBSET Fingerprints]
  /\ found \in [Procs -> SUBSET Fingerprints]
  /\ seen \in [Procs -> BOOLEAN]
  /\ quiet \in Procs \cup {None}
  /\ torn \subseteq Fingerprints
  /\ \A p \in Procs :
       pc[p] \in {"write", "link", "suppress", "mark", "unsuppress", "reopen"}
         => arg[p] \in Fingerprints

Init ==
  /\ status = [fp \in Fingerprints |-> "absent"]
  /\ suppressions = {}
  /\ linked = {}
  /\ detected \in SUBSET Fingerprints
  /\ pc = [p \in Procs |-> "idle"]
  /\ arg = [p \in Procs |-> None]
  /\ todo = [p \in Procs |-> {}]
  /\ found = [p \in Procs |-> {}]
  /\ seen = [p \in Procs |-> FALSE]
  /\ quiet = None
  /\ torn = {}

Idle(p) == pc[p] = "idle"

AllIdle == \A p \in Procs : Idle(p)

Goto(p, label) == pc' = [pc EXCEPT ![p] = label]

\* A row, if it exists, takes a status; UPDATE ... WHERE touches no other row.
Updated(fp, s) ==
  IF status[fp] = "absent" THEN status ELSE [status EXCEPT ![fp] = s]

\* A command is between two of its statements about fp.
Between(fp) == \E p \in Procs : pc[p] \in {"write", "mark", "reopen"} /\ arg[p] = fp

\* A suppression row that comes or goes under such a command tears the finding.
TornBy(fp) == torn \cup (IF Between(fp) THEN {fp} ELSE {})

-----------------------------------------------------------------------------
\* Fault: the scan does not resolve what earlier scans left open.
ScanWithoutResolve(p) ==
  /\ Idle(p)
  /\ Goto(p, "evaluate")
  /\ todo' = [todo EXCEPT ![p] = Fingerprints]
  /\ found' = [found EXCEPT ![p] = {}]
  /\ quiet' = IF AllIdle THEN p ELSE None
  /\ UNCHANGED <<tables, detected, arg, seen, torn>>

\* Service.Scan resolves every open finding before the rules run.
ResolveOpenFindings(p) ==
  /\ Idle(p)
  /\ status' = [fp \in Fingerprints |->
                  IF status[fp] = "open" THEN "resolved" ELSE status[fp]]
  /\ Goto(p, "evaluate")
  /\ todo' = [todo EXCEPT ![p] = Fingerprints]
  /\ found' = [found EXCEPT ![p] = {}]
  /\ quiet' = IF AllIdle THEN p ELSE None
  /\ UNCHANGED <<suppressions, linked, detected, arg, seen, torn>>

\* One rule for one pair of endpoints; the graph may change between two rules.
EvaluateRule(p, fp) ==
  /\ pc[p] = "evaluate"
  /\ fp \in todo[p]
  /\ found' = [found EXCEPT ![p] = @ \cup (detected \cap {fp})]
  /\ todo' = [todo EXCEPT ![p] = @ \ {fp}]
  /\ UNCHANGED <<tables, detected, pc, arg, seen, history>>

\* All rules have run: analysis.Scan starts its upsert loop.
StartUpserts(p) ==
  /\ pc[p] = "evaluate"
  /\ todo[p] = {}
  /\ Goto(p, "upsert")
  /\ todo' = [todo EXCEPT ![p] = found[p]]
  /\ UNCHANGED <<tables, detected, arg, found, seen, history>>

\* Fault: the loop variable is not passed on to the upsert.
ReadSuppressionOfNothing(p, fp) ==
  /\ pc[p] = "upsert"
  /\ fp \in todo[p]
  /\ Goto(p, "write")
  /\ seen' = [seen EXCEPT ![p] = fp \in suppressions]
  /\ UNCHANGED <<tables, detected, arg, todo, found, history>>

\* UpsertFinding's first statement reads the suppressions table.
ReadSuppression(p, fp) ==
  /\ pc[p] = "upsert"
  /\ fp \in todo[p]
  /\ Goto(p, "write")
  /\ arg' = [arg EXCEPT ![p] = fp]
  /\ seen' = [seen EXCEPT ![p] = fp \in suppressions]
  /\ UNCHANGED <<tables, detected, todo, found, history>>

\* Fault: the suppression that was read is not applied.
WriteFindingAsOpen(p) ==
  /\ pc[p] = "write"
  /\ status' = [status EXCEPT ![arg[p]] = "open"]
  /\ Goto(p, "link")
  /\ UNCHANGED <<suppressions, linked, detected, locals, history>>

\* The second inserts the finding, or overwrites status with what was read.
WriteFinding(p) ==
  /\ pc[p] = "write"
  /\ status' = [status EXCEPT ![arg[p]] = IF seen[p] THEN "suppressed" ELSE "open"]
  /\ Goto(p, "link")
  /\ torn' = IF quiet = p THEN torn \ {arg[p]} ELSE torn
  /\ UNCHANGED <<suppressions, linked, detected, locals, quiet>>

\* The third links the evidence rows.
LinkEvidence(p) ==
  /\ pc[p] = "link"
  /\ linked' = linked \cup {arg[p]}
  /\ Goto(p, "upsert")
  /\ todo' = [todo EXCEPT ![p] = @ \ {arg[p]}]
  /\ arg' = [arg EXCEPT ![p] = None]
  /\ seen' = [seen EXCEPT ![p] = FALSE]
  /\ UNCHANGED <<status, suppressions, detected, found, history>>

ScanReturns(p) ==
  /\ pc[p] = "upsert"
  /\ todo[p] = {}
  /\ Goto(p, "idle")
  /\ UNCHANGED <<tables, detected, locals, history>>

-----------------------------------------------------------------------------
\* finding suppress|unsuppress <id>: GetFinding must return a row.
GetFinding(p, fp, label) ==
  /\ Idle(p)
  /\ status[fp] # "absent"
  /\ Goto(p, label)
  /\ arg' = [arg EXCEPT ![p] = fp]
  /\ found' = [found EXCEPT ![p] = {}]
  /\ quiet' = None
  /\ UNCHANGED <<tables, detected, todo, seen, torn>>

\* A command's last statement has committed.
Finish(p) ==
  /\ Goto(p, "idle")
  /\ arg' = [arg EXCEPT ![p] = None]
  /\ UNCHANGED <<linked, detected, todo, found, seen, history>>

InsertSuppression(p) ==
  /\ pc[p] = "suppress"
  /\ suppressions' = suppressions \cup {arg[p]}
  /\ Goto(p, "mark")
  /\ torn' = TornBy(arg[p])
  /\ UNCHANGED <<status, linked, detected, locals, quiet>>

\* Fault: only a finding that is open is marked suppressed.
MarkOpenSuppressed(p) ==
  /\ pc[p] = "mark"
  /\ status' = IF status[arg[p]] = "open" THEN Updated(arg[p], "suppressed") ELSE status
  /\ Finish(p)
  /\ UNCHANGED suppressions

MarkSuppressed(p) ==
  /\ pc[p] = "mark"
  /\ status' = Updated(arg[p], "suppressed")
  /\ Finish(p)
  /\ UNCHANGED suppressions

DeleteSuppression(p) ==
  /\ pc[p] = "unsuppress"
  /\ suppressions' = suppressions \ {arg[p]}
  /\ Goto(p, "reopen")
  /\ torn' = TornBy(arg[p])
  /\ UNCHANGED <<status, linked, detected, locals, quiet>>

\* Fault: the row of the finding keeps its status.
ReopenNothing(p) ==
  /\ pc[p] = "reopen"
  /\ Finish(p)
  /\ UNCHANGED <<status, suppressions>>

ReopenFinding(p) ==
  /\ pc[p] = "reopen"
  /\ status' = IF status[arg[p]] = "suppressed" THEN Updated(arg[p], "open") ELSE status
  /\ Finish(p)
  /\ UNCHANGED suppressions

-----------------------------------------------------------------------------
\* Fault: the reset takes the suppressions along.
ResetEverything ==
  /\ status' = [fp \in Fingerprints |-> "absent"]
  /\ suppressions' = {}
  /\ linked' = {}
  /\ detected' = {}
  /\ quiet' = None
  /\ torn' = IF AllIdle THEN {} ELSE torn
  /\ UNCHANGED <<pc, locals>>

\* collect --force: the graph and its findings go, the suppressions stay.
ResetInventory ==
  /\ status' = [fp \in Fingerprints |-> "absent"]
  /\ linked' = {}
  /\ detected' = {}
  /\ quiet' = None
  /\ torn' = IF AllIdle THEN {} ELSE torn
  /\ UNCHANGED <<suppressions, pc, locals>>

\* Import, prune and derivation of a collection change what the rules see.
GraphChanges ==
  /\ detected' \in SUBSET Fingerprints
  /\ UNCHANGED <<tables, pc, locals, history>>

\* A statement of p returns an error, or p is killed.
Abort(p) ==
  /\ ~ Idle(p)
  /\ Goto(p, "idle")
  /\ arg' = [arg EXCEPT ![p] = None]
  /\ todo' = [todo EXCEPT ![p] = {}]
  /\ found' = [found EXCEPT ![p] = {}]
  /\ seen' = [seen EXCEPT ![p] = FALSE]
  /\ quiet' = IF quiet = p THEN None ELSE quiet
  /\ torn' = IF pc[p] \in {"mark", "reopen"} THEN torn \cup {arg[p]} ELSE torn
  /\ UNCHANGED <<tables, detected>>

-----------------------------------------------------------------------------
\* A user starts a command.
Begin(p) ==
  \/ ResolveOpenFindings(p)
  \/ \E fp \in Fingerprints, label \in {"suppress", "unsuppress"} :
       GetFinding(p, fp, label)

\* A command under way executes its next statement.
Continue(p) ==
  \/ \E fp \in Fingerprints : EvaluateRule(p, fp) \/ ReadSuppression(p, fp)
  \/ StartUpserts(p)
  \/ WriteFinding(p)
  \/ LinkEvidence(p)
  \/ ScanReturns(p)
  \/ InsertSuppression(p)
  \/ MarkSuppressed(p)
  \/ DeleteSuppression(p)
  \/ ReopenFinding(p)

Next ==
  \/ \E p \in Procs : Begin(p) \/ Continue(p) \/ Abort(p)
  \/ ResetInventory
  \/ GraphChanges

Spec == Init /\ [][Next]_vars

\* One command at a time, each to its end: nothing starts while a command runs.
SerialNext ==
  \/ AllIdle /\ \E p \in Procs : Begin(p)
  \/ \E p \in Procs : Continue(p)
  \/ AllIdle /\ ResetInventory
  \/ AllIdle /\ GraphChanges

SerialSpec == Init /\ [][SerialNext]_vars

\* One command at a time, and any of them may be killed.
CrashingNext == SerialNext \/ \E p \in Procs : Abort(p)

CrashingSpec == Init /\ [][CrashingNext]_vars

-----------------------------------------------------------------------------
(* Properties *)

\* A row is suppressed exactly when its suppression is on record.
Agrees(fp) == status[fp] # "absent" => (status[fp] = "suppressed" <=> fp \in suppressions)

\* What a scan leaves behind.  Every finding it returned is open, or suppressed
\* exactly when a suppression is on record, and cites its evidence.  No finding
\* it did not return is open, and of these too status and suppressions agree,
\* but for those a suppress or unsuppress command left torn: the scan does not
\* touch them, as ResolveOpenFindings updates open rows only.
Settled(p) ==
  /\ \A fp \in found[p] :
       status[fp] = IF fp \in suppressions THEN "suppressed" ELSE "open"
  /\ found[p] \subseteq linked
  /\ \A fp \in Fingerprints \ found[p] : status[fp] # "open" /\ (Agrees(fp) \/ fp \in torn)

\* A scan that ran to its end while no other command touched the findings
\* repairs what earlier crashes and races left of the findings it returns, and
\* the others are closed; status and suppressions disagree only on a finding
\* that is gone and on which a suppress or unsuppress was cut off between its
\* two statements or ran into another command (Service.Scan, UpsertFinding,
\* Suppress, Unsuppress).
QuietScanSettles ==
  \A p \in Procs : quiet = p /\ Idle(p) => Settled(p)

\* UpsertFinding's comment, "a suppressed fingerprint keeps its suppressed
\* status": no step opens a finding whose suppression row is in force.
SuppressedStaysSuppressed ==
  [][\A fp \in Fingerprints :
       status[fp] # "open" /\ status'[fp] = "open" => fp \notin suppressions]_vars

\* The same comment, of UpsertFinding alone: its write leaves a finding that is
\* suppressed, with its suppression on record, suppressed.
UpsertKeepsSuppressed ==
  [][\A p \in Procs :
       /\ pc[p] = "write" /\ pc'[p] = "link"
       /\ status[arg[p]] = "suppressed" /\ arg[p] \in suppressions
       => status'[arg[p]] = "suppressed"]_vars
=============================================================================

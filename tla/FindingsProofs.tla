--------------------------- MODULE FindingsProofs ---------------------------
(***************************************************************************)
(* Theorems about Findings, for every set of processes and fingerprints.   *)
(***************************************************************************)
EXTENDS FindingsRefinement, TLAPS

\* The tables and every command's local state have their types, however the
\* statements of the commands interleave and wherever they are cut off.
THEOREM TypeCorrect == Spec => []TypeOK
<1>1. Init => TypeOK
  BY DEF Init, TypeOK, Status, PC
<1>2. TypeOK /\ [Next]_vars => TypeOK'
  <2> SUFFICES ASSUME TypeOK, [Next]_vars PROVE TypeOK'
    OBVIOUS
  <2> USE NoneAssumption DEF TypeOK, Status, PC, tables, locals, history, Goto, Idle
  <2>1. ASSUME NEW p \in Procs, ResolveOpenFindings(p) PROVE TypeOK'
    BY <2>1 DEF ResolveOpenFindings
  <2>2. ASSUME NEW p \in Procs, NEW fp \in Fingerprints, NEW label \in {"suppress", "unsuppress"},
               GetFinding(p, fp, label)
        PROVE  TypeOK'
    BY <2>2 DEF GetFinding
  <2>3. ASSUME NEW p \in Procs, NEW fp \in Fingerprints, EvaluateRule(p, fp) PROVE TypeOK'
    BY <2>3 DEF EvaluateRule
  <2>4. ASSUME NEW p \in Procs, NEW fp \in Fingerprints, ReadSuppression(p, fp) PROVE TypeOK'
    BY <2>4 DEF ReadSuppression
  <2>5. ASSUME NEW p \in Procs, StartUpserts(p) PROVE TypeOK'
    BY <2>5 DEF StartUpserts
  <2>6. ASSUME NEW p \in Procs, WriteFinding(p) PROVE TypeOK'
    BY <2>6 DEF WriteFinding
  <2>7. ASSUME NEW p \in Procs, LinkEvidence(p) PROVE TypeOK'
    BY <2>7 DEF LinkEvidence
  <2>8. ASSUME NEW p \in Procs, ScanReturns(p) PROVE TypeOK'
    BY <2>8 DEF ScanReturns
  <2>9. ASSUME NEW p \in Procs, InsertSuppression(p) PROVE TypeOK'
    BY <2>9 DEF InsertSuppression, TornBy
  <2>10. ASSUME NEW p \in Procs, MarkSuppressed(p) PROVE TypeOK'
    BY <2>10 DEF MarkSuppressed, Finish, Updated
  <2>11. ASSUME NEW p \in Procs, DeleteSuppression(p) PROVE TypeOK'
    BY <2>11 DEF DeleteSuppression, TornBy
  <2>12. ASSUME NEW p \in Procs, ReopenFinding(p) PROVE TypeOK'
    BY <2>12 DEF ReopenFinding, Finish, Updated
  <2>13. ASSUME NEW p \in Procs, Abort(p) PROVE TypeOK'
    BY <2>13 DEF Abort
  <2>14. CASE ResetInventory
    BY <2>14 DEF ResetInventory
  <2>15. CASE GraphChanges
    BY <2>15 DEF GraphChanges
  <2>16. CASE UNCHANGED vars
    BY <2>16 DEF vars
  <2> QED
    BY <2>1, <2>2, <2>3, <2>4, <2>5, <2>6, <2>7, <2>8, <2>9, <2>10, <2>11, <2>12,
       <2>13, <2>14, <2>15, <2>16 DEF Next, Begin, Continue
<1> QED
  BY <1>1, <1>2, PTL DEF Spec

-----------------------------------------------------------------------------
\* The status a scan owes a finding it returned.
Reported(fp) == status[fp] = IF fp \in suppressions THEN "suppressed" ELSE "open"

\* Why a row that is not torn agrees with the suppressions: a command is still
\* between its two statements, and has put or taken the suppression away itself.
Halfway(fp) == \E p \in Procs : pc[p] \in {"mark", "reopen"} /\ arg[p] = fp

TornInv ==
  /\ \A fp \in Fingerprints : Agrees(fp) \/ fp \in torn \/ Halfway(fp)
  /\ \A p \in Procs : pc[p] \in {"write", "mark", "reopen"} /\ arg[p] \notin torn =>
       /\ pc[p] = "mark" => arg[p] \in suppressions
       /\ pc[p] = "reopen" => arg[p] \notin suppressions
       /\ pc[p] = "write" => (seen[p] <=> arg[p] \in suppressions)

LEMMA TornInvInit == Init => TornInv
BY DEF Init, TornInv, Agrees

\* What Settled says beside the torn findings.
Reconciled(p) ==
  /\ \A fp \in found[p] : Reported(fp)
  /\ found[p] \subseteq linked
  /\ \A fp \in Fingerprints \ found[p] : status[fp] # "open"

\* How far an undisturbed scan has come, at each of its statements.
ScanProgress(p) ==
  /\ pc[p] \in {"idle", "evaluate", "upsert", "write", "link"}
  /\ pc[p] \in {"upsert", "write", "link"} =>
       /\ todo[p] \subseteq found[p]
       /\ \A fp \in found[p] \ todo[p] : Reported(fp) /\ fp \in linked
       /\ \A fp \in Fingerprints \ found[p] : status[fp] # "open"
  /\ pc[p] = "evaluate" => \A fp \in Fingerprints : status[fp] # "open"
  /\ pc[p] = "write" => arg[p] \in todo[p] /\ (seen[p] <=> arg[p] \in suppressions)
  /\ pc[p] = "link" => arg[p] \in todo[p] /\ Reported(arg[p])
  /\ Idle(p) => Reconciled(p)

\* While a scan is undisturbed nobody else is under way.
QuietInv ==
  \A p \in Procs : quiet = p =>
    /\ \A q \in Procs : q # p => Idle(q)
    /\ ScanProgress(p)

LEMMA TornInvStep == TypeOK /\ TornInv /\ QuietInv /\ [Next]_vars => TornInv'
<1> SUFFICES ASSUME TypeOK, TornInv, QuietInv, [Next]_vars PROVE TornInv'
  OBVIOUS
<1> USE NoneAssumption DEF TypeOK, TornInv, Agrees, Halfway, tables, locals, history, Goto, Idle
<1>1. ASSUME NEW p \in Procs, ResolveOpenFindings(p) PROVE TornInv'
  BY <1>1 DEF ResolveOpenFindings
<1>2. ASSUME NEW p \in Procs, NEW fp \in Fingerprints, NEW label \in {"suppress", "unsuppress"},
             GetFinding(p, fp, label)
      PROVE  TornInv'
  BY <1>2 DEF GetFinding
<1>3. ASSUME NEW p \in Procs, NEW fp \in Fingerprints, EvaluateRule(p, fp) PROVE TornInv'
  BY <1>3 DEF EvaluateRule
<1>4. ASSUME NEW p \in Procs, NEW fp \in Fingerprints, ReadSuppression(p, fp) PROVE TornInv'
  <2>1. pc'[p] = "write" /\ arg'[p] = fp /\ (seen'[p] <=> fp \in suppressions)
    BY <1>4, Zenon DEF ReadSuppression
  <2>2. /\ pc[p] = "upsert" /\ UNCHANGED <<status, suppressions, torn>>
        /\ \A q \in Procs : q # p => pc'[q] = pc[q] /\ arg'[q] = arg[q] /\ (seen'[q] <=> seen[q])
    BY <1>4 DEF ReadSuppression
  <2> QED
    BY <2>1, <2>2
<1>5. ASSUME NEW p \in Procs, StartUpserts(p) \/ ScanReturns(p) PROVE TornInv'
  BY <1>5 DEF StartUpserts, ScanReturns
<1>6. ASSUME NEW p \in Procs, WriteFinding(p) PROVE TornInv'
  <2>1. /\ pc[p] = "write" /\ pc' = [pc EXCEPT ![p] = "link"]
        /\ UNCHANGED <<suppressions, arg, seen>>
        /\ status' = [status EXCEPT ![arg[p]] = IF seen[p] THEN "suppressed" ELSE "open"]
        /\ torn' = IF quiet = p THEN torn \ {arg[p]} ELSE torn
    BY <1>6 DEF WriteFinding
  <2>2. quiet = p => /\ \A q \in Procs : q # p => pc[q] = "idle"
                     /\ seen[p] <=> arg[p] \in suppressions
    BY <2>1 DEF QuietInv, ScanProgress
  <2> QED
    BY <2>1, <2>2
<1>7. ASSUME NEW p \in Procs, LinkEvidence(p) PROVE TornInv'
  BY <1>7 DEF LinkEvidence
<1>8. ASSUME NEW p \in Procs, InsertSuppression(p) \/ DeleteSuppression(p) PROVE TornInv'
  <2>1. \A fp \in torn : fp \in torn'
    BY <1>8 DEF InsertSuppression, DeleteSuppression, TornBy
  <2>2. \A q \in Procs \ {p} : pc[q] \in {"write", "mark", "reopen"} /\ arg[q] = arg[p] => arg[q] \in torn'
    BY <1>8 DEF InsertSuppression, DeleteSuppression, TornBy, Between
  <2> QED
    BY <1>8, <2>1, <2>2 DEF InsertSuppression, DeleteSuppression
<1>9. ASSUME NEW p \in Procs, MarkSuppressed(p) \/ ReopenFinding(p) PROVE TornInv'
  BY <1>9 DEF MarkSuppressed, ReopenFinding, Finish, Updated
<1>10. ASSUME NEW p \in Procs, Abort(p) PROVE TornInv'
  BY <1>10 DEF Abort
<1>11. CASE ResetInventory
  BY <1>11 DEF ResetInventory, AllIdle
<1>12. CASE GraphChanges \/ UNCHANGED vars
  BY <1>12 DEF GraphChanges, vars
<1> QED
  BY <1>1, <1>2, <1>3, <1>4, <1>5, <1>6, <1>7, <1>8, <1>9, <1>10, <1>11, <1>12
  DEF Next, Begin, Continue

\* A scan undisturbed by other commands leaves findings, suppressions and
\* evidence in agreement with what it found, from any state that crashes and
\* races may have left behind; of the findings it did not return none is open,
\* and only the torn ones may disagree with their suppressions.
THEOREM QuietScanSettlesCorrect == Spec => []QuietScanSettles
<1>1. Init => QuietInv
  BY NoneAssumption DEF Init, QuietInv
<1>2. TypeOK /\ QuietInv /\ [Next]_vars => QuietInv'
  <2> SUFFICES ASSUME TypeOK, QuietInv, [Next]_vars PROVE QuietInv'
    OBVIOUS
  <2> USE NoneAssumption DEF TypeOK, QuietInv, tables, locals, history, Goto, Idle
  <2>1. ASSUME NEW p \in Procs, ResolveOpenFindings(p) PROVE QuietInv'
    BY <2>1 DEF ResolveOpenFindings, ScanProgress, Status, AllIdle
  <2>2. ASSUME NEW p \in Procs, NEW fp \in Fingerprints, NEW label \in {"suppress", "unsuppress"},
               GetFinding(p, fp, label)
        PROVE  QuietInv'
    BY <2>2 DEF GetFinding
  <2>3. ASSUME NEW p \in Procs, NEW fp \in Fingerprints, EvaluateRule(p, fp) PROVE QuietInv'
    BY <2>3 DEF EvaluateRule, ScanProgress, Reconciled
  <2>4. ASSUME NEW p \in Procs, NEW fp \in Fingerprints, ReadSuppression(p, fp) PROVE QuietInv'
    <3>1. pc'[p] = "write" /\ arg'[p] = fp /\ (seen'[p] <=> fp \in suppressions)
      BY <2>4, Zenon DEF ReadSuppression
    <3>2. \A q \in Procs : q # p => pc'[q] = pc[q]
      BY <2>4 DEF ReadSuppression
    <3>3. UNCHANGED <<status, suppressions, linked, todo, found, quiet>> /\ fp \in todo[p] /\ pc[p] = "upsert"
      BY <2>4 DEF ReadSuppression
    <3>4. SUFFICES ASSUME quiet = p PROVE ScanProgress(p)'
      BY <3>2, <3>3
    <3> QED
      BY <3>1, <3>3, <3>4 DEF ScanProgress, Reported
  <2>5. ASSUME NEW p \in Procs, StartUpserts(p) PROVE QuietInv'
    BY <2>5 DEF StartUpserts, ScanProgress
  <2>6. ASSUME NEW p \in Procs, WriteFinding(p) PROVE QuietInv'
    BY <2>6 DEF WriteFinding, ScanProgress, Reported
  <2>7. ASSUME NEW p \in Procs, LinkEvidence(p) PROVE QuietInv'
    BY <2>7 DEF LinkEvidence, ScanProgress, Reported
  <2>8. ASSUME NEW p \in Procs, ScanReturns(p) PROVE QuietInv'
    BY <2>8 DEF ScanReturns, ScanProgress, Reconciled, Reported
  <2>9. ASSUME NEW p \in Procs,
               InsertSuppression(p) \/ MarkSuppressed(p) \/ DeleteSuppression(p) \/ ReopenFinding(p)
        PROVE  QuietInv'
    <3>1. quiet = None /\ quiet' = None
      BY <2>9 DEF InsertSuppression, MarkSuppressed, DeleteSuppression, ReopenFinding, Finish,
                  ScanProgress
    <3> QED
      BY <3>1
  <2>10. ASSUME NEW p \in Procs, Abort(p) PROVE QuietInv'
    BY <2>10 DEF Abort
  <2>11. CASE ResetInventory
    BY <2>11 DEF ResetInventory
  <2>12. CASE GraphChanges
    BY <2>12 DEF GraphChanges, ScanProgress, Reconciled, Reported
  <2>13. CASE UNCHANGED vars
    BY <2>13 DEF vars, ScanProgress, Reconciled, Reported
  <2> QED
    BY <2>1, <2>2, <2>3, <2>4, <2>5, <2>6, <2>7, <2>8, <2>9, <2>10, <2>11, <2>12, <2>13
    DEF Next, Begin, Continue
<1>3. QuietInv /\ TornInv => QuietScanSettles
  BY DEF QuietInv, TornInv, QuietScanSettles, ScanProgress, Reconciled, Reported, Settled,
         Halfway, Idle
<1> QED
  BY <1>1, <1>2, <1>3, TypeCorrect, TornInvInit, TornInvStep, PTL DEF Spec

-----------------------------------------------------------------------------
\* One command at a time: at most one is under way, what it read is still so,
\* and the finding a suppress or unsuppress command looked up still exists.
OneCommand ==
  /\ \A p, q \in Procs : ~ Idle(p) /\ ~ Idle(q) => p = q
  /\ \A p \in Procs :
       /\ pc[p] = "write" => (seen[p] <=> arg[p] \in suppressions)
       /\ pc[p] \in {"suppress", "mark", "unsuppress", "reopen"} => status[arg[p]] # "absent"
       /\ pc[p] = "mark" => arg[p] \in suppressions
       /\ pc[p] = "reopen" => arg[p] \notin suppressions

LEMMA OneCommandInit == Init => OneCommand
BY DEF Init, OneCommand, Idle

LEMMA CrashingIsNext == [CrashingNext]_vars => [Next]_vars
BY DEF CrashingNext, SerialNext, Next

LEMMA OneCommandStep == TypeOK /\ OneCommand /\ [CrashingNext]_vars => OneCommand'
<1> SUFFICES ASSUME TypeOK, OneCommand, [CrashingNext]_vars PROVE OneCommand'
  OBVIOUS
<1> USE NoneAssumption DEF TypeOK, OneCommand, tables, locals, history, Goto, Idle
<1>1. ASSUME AllIdle, NEW p \in Procs, Begin(p) PROVE OneCommand'
  BY <1>1 DEF AllIdle, Begin, ResolveOpenFindings, GetFinding
<1>2. ASSUME NEW p \in Procs, NEW fp \in Fingerprints, EvaluateRule(p, fp) PROVE OneCommand'
  BY <1>2 DEF EvaluateRule
<1>3. ASSUME NEW p \in Procs, NEW fp \in Fingerprints, ReadSuppression(p, fp) PROVE OneCommand'
  <2>1. pc'[p] = "write" /\ arg'[p] = fp /\ (seen'[p] <=> fp \in suppressions)
    BY <1>3, Zenon DEF ReadSuppression
  <2>2. \A q \in Procs : q # p => pc'[q] = pc[q] /\ pc[q] = "idle"
    BY <1>3 DEF ReadSuppression
  <2> QED
    BY <1>3, <2>1, <2>2 DEF ReadSuppression
<1>4. ASSUME NEW p \in Procs, StartUpserts(p) \/ ScanReturns(p) PROVE OneCommand'
  BY <1>4 DEF StartUpserts, ScanReturns
<1>5. ASSUME NEW p \in Procs, WriteFinding(p) PROVE OneCommand'
  BY <1>5 DEF WriteFinding, Status
<1>6. ASSUME NEW p \in Procs, LinkEvidence(p) PROVE OneCommand'
  BY <1>6 DEF LinkEvidence
<1>7. ASSUME NEW p \in Procs, InsertSuppression(p) \/ DeleteSuppression(p) PROVE OneCommand'
  BY <1>7 DEF InsertSuppression, DeleteSuppression
<1>8. ASSUME NEW p \in Procs, MarkSuppressed(p) \/ ReopenFinding(p) PROVE OneCommand'
  BY <1>8 DEF MarkSuppressed, ReopenFinding, Finish, Updated
<1>9. ASSUME AllIdle, ResetInventory \/ GraphChanges PROVE OneCommand'
  BY <1>9 DEF AllIdle, ResetInventory, GraphChanges
<1>10. ASSUME NEW p \in Procs, Abort(p) PROVE OneCommand'
  BY <1>10 DEF Abort
<1>11. CASE UNCHANGED vars
  BY <1>11 DEF vars
<1> QED
  BY <1>1, <1>2, <1>3, <1>4, <1>5, <1>6, <1>7, <1>8, <1>9, <1>10, <1>11
  DEF CrashingNext, SerialNext, Continue

LEMMA CrashingInvariant == CrashingSpec => [](TypeOK /\ OneCommand)
<1>1. CrashingSpec => Spec
  BY CrashingIsNext, PTL DEF CrashingSpec, Spec
<1> QED
  BY <1>1, TypeCorrect, OneCommandInit, OneCommandStep, PTL DEF CrashingSpec

\* When commands do not overlap, no step opens a finding whose suppression is
\* on record, even if any of the commands was killed half way.
THEOREM SuppressionHolds == CrashingSpec => SuppressedStaysSuppressed
<1> DEFINE Opens == \A fp \in Fingerprints :
             status[fp] # "open" /\ status'[fp] = "open" => fp \notin suppressions
<1>1. TypeOK /\ OneCommand /\ [CrashingNext]_vars => [Opens]_vars
  <2> SUFFICES ASSUME TypeOK, OneCommand, CrashingNext, NEW fp \in Fingerprints,
                      status[fp] # "open", status'[fp] = "open"
               PROVE  fp \notin suppressions
    BY DEF Opens
  <2>1. PICK p \in Procs : WriteFinding(p) \/ ReopenFinding(p)
    BY DEF CrashingNext, SerialNext, Begin, Continue, ResolveOpenFindings, GetFinding,
           EvaluateRule, ReadSuppression, StartUpserts, LinkEvidence, ScanReturns,
           InsertSuppression, MarkSuppressed, DeleteSuppression, Abort, ResetInventory,
           GraphChanges, Updated, Finish, tables, TypeOK
  <2>2. CASE WriteFinding(p)
    BY <2>2 DEF WriteFinding, OneCommand, TypeOK
  <2>3. CASE ReopenFinding(p)
    BY <2>3 DEF ReopenFinding, OneCommand, TypeOK, Updated
  <2> QED
    BY <2>1, <2>2, <2>3
<1> QED
  BY <1>1, CrashingInvariant, PTL DEF CrashingSpec, SuppressedStaysSuppressed, Opens

-----------------------------------------------------------------------------
(* Commands that do not overlap implement FindingLedger. *)

LEMMA SerialIsCrashing == [SerialNext]_vars => [CrashingNext]_vars
BY DEF CrashingNext

LEMMA SerialInvariant == SerialSpec => [](TypeOK /\ OneCommand)
<1>1. SerialSpec => CrashingSpec
  BY SerialIsCrashing, PTL DEF SerialSpec, CrashingSpec
<1> QED
  BY <1>1, CrashingInvariant, PTL

\* Between two commands the mapped status is the status column.
LEMMA NothingPending ==
  ASSUME TypeOK, AllIdle
  PROVE  CompletedStatus = status
BY DEF TypeOK, AllIdle, Idle, CompletedStatus, Pending

\* Only one process can have a second statement pending.
LEMMA PendingOf ==
  ASSUME TypeOK, OneCommand, NEW p \in Procs, ~ Idle(p), NEW fp \in Fingerprints,
         NEW label \in {"mark", "reopen"}
  PROVE  Pending(fp, label) <=> pc[p] = label /\ arg[p] = fp
BY DEF Pending, OneCommand, Idle

LEMMA InitMaps == Init => Ledger!LedgerInit
BY DEF Init, Ledger!LedgerInit, CompletedStatus, Pending

LEMMA StepMaps ==
  TypeOK /\ TypeOK' /\ OneCommand /\ OneCommand' /\ [SerialNext]_vars
    => [Ledger!LedgerNext]_(Ledger!ledgerVars)
<1> SUFFICES ASSUME TypeOK, TypeOK', OneCommand, OneCommand', [SerialNext]_vars
             PROVE  [Ledger!LedgerNext]_(Ledger!ledgerVars)
  OBVIOUS
<1> USE DEF Ledger!LedgerNext, Ledger!ledgerVars
<1>1. ASSUME AllIdle, NEW p \in Procs, ResolveOpenFindings(p)
      PROVE  Ledger!ResolveAll
  <2>1. CompletedStatus = status
    BY <1>1, NothingPending
  <2>2. \A q \in Procs : pc'[q] \in {"idle", "evaluate"}
    BY <1>1 DEF AllIdle, Idle, ResolveOpenFindings, Goto, TypeOK
  <2>3. CompletedStatus' = status'
    BY <2>2, <1>1 DEF CompletedStatus, Pending, TypeOK, ResolveOpenFindings
  <2> QED
    BY <1>1, <2>1, <2>3 DEF Ledger!ResolveAll, ResolveOpenFindings
<1>2. ASSUME AllIdle, NEW p \in Procs, NEW fp \in Fingerprints,
             NEW label \in {"suppress", "unsuppress"}, GetFinding(p, fp, label)
      PROVE  UNCHANGED Ledger!ledgerVars
  <2>1. CompletedStatus = status
    BY <1>2, NothingPending
  <2>2. \A q \in Procs : pc'[q] \notin {"mark", "reopen"}
    BY <1>2 DEF AllIdle, Idle, GetFinding, Goto, TypeOK
  <2>3. CompletedStatus' = status'
    BY <2>2, <1>2 DEF CompletedStatus, Pending, TypeOK, GetFinding, tables
  <2> QED
    BY <1>2, <2>1, <2>3 DEF GetFinding, tables
<1>3. ASSUME NEW p \in Procs,
             \/ \E fp \in Fingerprints : EvaluateRule(p, fp) \/ ReadSuppression(p, fp)
             \/ StartUpserts(p) \/ LinkEvidence(p) \/ ScanReturns(p)
      PROVE  UNCHANGED Ledger!ledgerVars
  <2>1. UNCHANGED <<status, suppressions>> /\ pc[p] \in {"evaluate", "upsert", "link"}
    BY <1>3 DEF EvaluateRule, ReadSuppression, StartUpserts, LinkEvidence, ScanReturns, tables
  <2>2. \A q \in Procs : pc[q] \notin {"mark", "reopen"} /\ pc'[q] \notin {"mark", "reopen"}
    BY <1>3, <2>1 DEF EvaluateRule, ReadSuppression, StartUpserts, LinkEvidence, ScanReturns,
                      Goto, OneCommand, Idle, TypeOK
  <2> QED
    BY <2>1, <2>2 DEF CompletedStatus, Pending
<1>4. ASSUME NEW p \in Procs, WriteFinding(p)
      PROVE  Ledger!Report(arg[p])
  <2>1. \A q \in Procs : pc[q] \notin {"mark", "reopen"} /\ pc'[q] \notin {"mark", "reopen"}
    BY <1>4 DEF WriteFinding, Goto, OneCommand, Idle, TypeOK
  <2>2. CompletedStatus = status /\ CompletedStatus' = status'
    BY <2>1 DEF CompletedStatus, Pending, TypeOK
  <2> QED
    BY <1>4, <2>2 DEF WriteFinding, Ledger!Report, OneCommand
<1>5. ASSUME NEW p \in Procs, InsertSuppression(p)
      PROVE  Ledger!Suppress(arg[p])
  <2>1. pc[p] = "suppress" /\ pc'[p] = "mark" /\ status' = status /\ arg' = arg
    BY <1>5 DEF InsertSuppression, Goto, locals, TypeOK
  <2>2. status[arg[p]] # "absent" /\ arg[p] \in Fingerprints
    BY <2>1 DEF OneCommand, TypeOK
  <2>3. CompletedStatus = status
    BY <2>1, PendingOf DEF CompletedStatus, Idle, TypeOK
  <2>4. \A fp \in Fingerprints : /\ Pending(fp, "mark")' <=> fp = arg[p]
                                 /\ ~ Pending(fp, "reopen")'
    BY <2>1 DEF Pending, OneCommand, Idle
  <2>5. CompletedStatus' = [fp \in Fingerprints |-> IF fp = arg[p] THEN "suppressed" ELSE status[fp]]
    BY <2>1, <2>2, <2>4, Zenon DEF CompletedStatus
  <2>6. CompletedStatus' = [status EXCEPT ![arg[p]] = "suppressed"]
    BY <2>2, <2>5 DEF TypeOK
  <2> QED
    BY <1>5, <2>2, <2>3, <2>6 DEF InsertSuppression, Ledger!Suppress
<1>6. ASSUME NEW p \in Procs, DeleteSuppression(p)
      PROVE  Ledger!Unsuppress(arg[p])
  <2>1. pc[p] = "unsuppress" /\ pc'[p] = "reopen" /\ status' = status /\ arg' = arg
    BY <1>6 DEF DeleteSuppression, Goto, locals, TypeOK
  <2>2. status[arg[p]] # "absent" /\ arg[p] \in Fingerprints
    BY <2>1 DEF OneCommand, TypeOK
  <2>3. CompletedStatus = status
    BY <2>1, PendingOf DEF CompletedStatus, Idle, TypeOK
  <2>4. \A fp \in Fingerprints : /\ Pending(fp, "reopen")' <=> fp = arg[p]
                                 /\ ~ Pending(fp, "mark")'
    BY <2>1 DEF Pending, OneCommand, Idle
  <2>5. CompletedStatus' = [status EXCEPT ![arg[p]] = IF @ = "suppressed" THEN "open" ELSE @]
    BY <2>1, <2>2, <2>4 DEF CompletedStatus, TypeOK
  <2> QED
    BY <1>6, <2>2, <2>3, <2>5 DEF DeleteSuppression, Ledger!Unsuppress
<1>7. ASSUME NEW p \in Procs, MarkSuppressed(p) \/ ReopenFinding(p)
      PROVE  UNCHANGED Ledger!ledgerVars
  <2>1. pc[p] \in {"mark", "reopen"} /\ UNCHANGED suppressions
    BY <1>7 DEF MarkSuppressed, ReopenFinding
  <2>2. \A q \in Procs : pc'[q] = "idle"
    BY <1>7, <2>1 DEF MarkSuppressed, ReopenFinding, Finish, Goto, OneCommand, Idle, TypeOK
  <2>3. CompletedStatus' = status'
    BY <2>2 DEF CompletedStatus, Pending, TypeOK
  <2>4. CompletedStatus = [fp \in Fingerprints |->
           IF pc[p] = "mark" /\ arg[p] = fp /\ status[fp] # "absent" THEN "suppressed"
           ELSE IF pc[p] = "reopen" /\ arg[p] = fp /\ status[fp] = "suppressed" THEN "open"
           ELSE status[fp]]
    BY <2>1, PendingOf DEF CompletedStatus, Idle
  <2>5. status' = CompletedStatus
    BY <1>7, <2>4 DEF MarkSuppressed, ReopenFinding, Updated, TypeOK
  <2> QED
    BY <2>1, <2>3, <2>5
<1>8. ASSUME AllIdle, ResetInventory
      PROVE  Ledger!Clear
  <2>1. pc' = pc /\ CompletedStatus = status
    BY <1>8, NothingPending DEF ResetInventory
  <2>2. CompletedStatus' = status'
    BY <2>1, <1>8 DEF CompletedStatus, Pending, AllIdle, Idle, TypeOK
  <2> QED
    BY <1>8, <2>1, <2>2 DEF Ledger!Clear, ResetInventory
<1>9. ASSUME GraphChanges \/ UNCHANGED vars
      PROVE  UNCHANGED Ledger!ledgerVars
  BY <1>9 DEF GraphChanges, vars, tables, locals, history, CompletedStatus, Pending
<1> QED
  BY <1>1, <1>2, <1>3, <1>4, <1>5, <1>6, <1>7, <1>8, <1>9
  DEF SerialNext, Begin, Continue, WriteFinding, InsertSuppression, DeleteSuppression, TypeOK

\* Whatever the user does, one command after the other, the status column and
\* the suppression rows agree.
THEOREM LedgerIsConsistent == Ledger!LedgerSpec => []Ledger!LedgerInv
<1>1. Ledger!LedgerInit => Ledger!LedgerInv
  BY DEF Ledger!LedgerInit, Ledger!LedgerInv, Ledger!LedgerConsistent
<1>2. Ledger!LedgerInv /\ [Ledger!LedgerNext]_(Ledger!ledgerVars) => Ledger!LedgerInv'
  <2> SUFFICES ASSUME Ledger!LedgerInv, [Ledger!LedgerNext]_(Ledger!ledgerVars) PROVE Ledger!LedgerInv'
    OBVIOUS
  <2> USE DEF Ledger!LedgerInv, Ledger!LedgerConsistent
  <2>1. ASSUME NEW fp \in Fingerprints, Ledger!Suppress(fp) PROVE Ledger!LedgerInv'
    BY <2>1 DEF Ledger!Suppress
  <2>2. ASSUME NEW fp \in Fingerprints, Ledger!Unsuppress(fp) PROVE Ledger!LedgerInv'
    BY <2>2 DEF Ledger!Unsuppress
  <2>3. ASSUME NEW fp \in Fingerprints, Ledger!Report(fp) PROVE Ledger!LedgerInv'
    BY <2>3 DEF Ledger!Report
  <2>4. CASE Ledger!ResolveAll
    BY <2>4 DEF Ledger!ResolveAll
  <2>5. CASE Ledger!Clear
    BY <2>5 DEF Ledger!Clear
  <2>6. CASE UNCHANGED Ledger!ledgerVars
    BY <2>6 DEF Ledger!ledgerVars
  <2> QED
    BY <2>1, <2>2, <2>3, <2>4, <2>5, <2>6 DEF Ledger!LedgerNext
<1> QED
  BY <1>1, <1>2, PTL DEF Ledger!LedgerSpec

\* One at a time, the statements of scan, suppress, unsuppress and reset add up
\* to the atomic operations of FindingLedger.
THEOREM SerialImplementsLedger == SerialSpec => ImplementsLedger
<1> QED
  BY InitMaps, StepMaps, SerialInvariant, PTL
  DEF SerialSpec, ImplementsLedger, Ledger!LedgerSpec

\* Between commands a finding is suppressed exactly when its suppression is on
\* record; inherited from the ledger the commands implement.
THEOREM TablesAgreeCorrect == SerialSpec => []TablesAgree
<1>1. TypeOK /\ Ledger!LedgerInv => TablesAgree
  BY NothingPending DEF Ledger!LedgerInv, Ledger!LedgerConsistent, TablesAgree
<1> QED
  BY <1>1, SerialImplementsLedger, SerialInvariant, LedgerIsConsistent, PTL
  DEF ImplementsLedger
=============================================================================

------------------------- MODULE FindingsRefinement -------------------------
(***************************************************************************)
(* Findings implements FindingLedger when commands do not overlap.  A      *)
(* suppress or unsuppress command takes effect at its first statement: the *)
(* mapped status is the one its second statement is about to write.        *)
(***************************************************************************)
EXTENDS Findings

Pending(fp, label) == \E p \in Procs : pc[p] = label /\ arg[p] = fp

\* The status column as it reads once the command under way has finished.
CompletedStatus ==
  [fp \in Fingerprints |->
     IF Pending(fp, "mark") /\ status[fp] # "absent" THEN "suppressed"
     ELSE IF Pending(fp, "reopen") /\ status[fp] = "suppressed" THEN "open"
     ELSE status[fp]]

Ledger == INSTANCE FindingLedger WITH status <- CompletedStatus

\* One at a time, suppress, unsuppress, scan and reset behave as the atomic
\* operations of FindingLedger, though each is several statements.
ImplementsLedger == Ledger!LedgerSpec

\* The status the user sees and the suppression rows agree between commands
\* (Suppress and Unsuppress keep the two tables together).
TablesAgree ==
  AllIdle => \A fp \in Fingerprints :
    status[fp] # "absent" => (status[fp] = "suppressed" <=> fp \in suppressions)
=============================================================================

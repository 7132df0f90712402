--------------------------- MODULE FindingLedger ---------------------------
(***************************************************************************)
(* What the findings and suppressions tables promise a user who runs one   *)
(* command at a time: a suppression and the status of its finding change   *)
(* together, and every report honours the suppressions in force.  Findings *)
(* implements it when commands do not overlap and run to their end.        *)
(***************************************************************************)
CONSTANT Fingerprints
VARIABLES status, suppressions

ledgerVars == <<status, suppressions>>

LedgerInit ==
  /\ status = [fp \in Fingerprints |-> "absent"]
  /\ suppressions = {}

Suppress(fp) ==
  /\ status[fp] # "absent"
  /\ status' = [status EXCEPT ![fp] = "suppressed"]
  /\ suppressions' = suppressions \cup {fp}

Unsuppress(fp) ==
  /\ status[fp] # "absent"
  /\ status' = [status EXCEPT ![fp] = IF @ = "suppressed" THEN "open" ELSE @]
  /\ suppressions' = suppressions \ {fp}

\* A scan closes what was open, then reports what it found, one at a time.
ResolveAll ==
  /\ status' = [fp \in Fingerprints |->
                  IF status[fp] = "open" THEN "resolved" ELSE status[fp]]
  /\ UNCHANGED suppressions

Report(fp) ==
  /\ status' = [status EXCEPT ![fp] = IF fp \in suppressions THEN "suppressed" ELSE "open"]
  /\ UNCHANGED suppressions

\* A forced collection drops the findings and keeps the suppressions.
Clear ==
  /\ status' = [fp \in Fingerprints |-> "absent"]
  /\ UNCHANGED suppressions

LedgerNext ==
  \/ \E fp \in Fingerprints : Suppress(fp) \/ Unsuppress(fp) \/ Report(fp)
  \/ ResolveAll
  \/ Clear

LedgerSpec == LedgerInit /\ [][LedgerNext]_ledgerVars

-----------------------------------------------------------------------------
\* A finding is suppressed exactly when its suppression is on record: findings
\* list never hides a finding without one, never shows a hidden one as open.
LedgerConsistent ==
  \A fp \in Fingerprints :
    status[fp] # "absent" => (status[fp] = "suppressed" <=> fp \in suppressions)

LedgerInv ==
  /\ status \in [Fingerprints -> {"absent", "open", "resolved", "suppressed"}]
  /\ suppressions \subseteq Fingerprints
  /\ LedgerConsistent
=============================================================================

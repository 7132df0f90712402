------------------------------- MODULE Upserts -------------------------------
(***************************************************************************)
(* Rows kept by id: a function from the ids to what their rows hold.       *)
(***************************************************************************)

\* A row of an id seen before is replaced.
Upsert(rows, new) ==
  [id \in DOMAIN rows \cup DOMAIN new |-> IF id \in DOMAIN new THEN new[id] ELSE rows[id]]

Row(id, content) == [x \in {id} |-> content]
=============================================================================

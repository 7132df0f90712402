------------------------------ MODULE AclPorts ------------------------------
(***************************************************************************)
(* openACLPorts: the ports that a network ACL opens to the world in one    *)
(* direction.  From the range of each allow entry the ranges of the deny   *)
(* entries before it are subtracted.  The entries are a sequence in the    *)
(* order of their rule numbers, in which AWS lets the first match decide.  *)
(***************************************************************************)
EXTENDS PortRanges, Sequences

CONSTANTS Families,       \* address families
          EntryOptions,   \* entries that ACLs may hold
          MaxEntries

Entries == [egress : BOOLEAN, allow : BOOLEAN, family : Families,
            world : BOOLEAN,  \* the block is every address of the family
            range : Ranges]

\* Assumed where the constants get their values.
EntryAssumption == EntryOptions \subseteq Entries /\ MaxEntries \in Nat

VARIABLES entries, egress,
          i,         \* entry in hand
          j,         \* earlier entry to subtract, 0 before the first
          segments,  \* what is left of the range of entry i
          allowed,   \* ranges found open
          done

vars == <<entries, egress, i, j, segments, allowed, done>>

TypeOK ==
  /\ entries \in UNION {[1..n -> EntryOptions] : n \in 0..MaxEntries} /\ egress \in BOOLEAN
  /\ i \in 1..(Len(entries) + 1) /\ j \in 0..Len(entries)
  /\ segments \subseteq Ranges /\ allowed \subseteq Ranges
  /\ done \in BOOLEAN

Init ==
  /\ entries \in UNION {[1..n -> EntryOptions] : n \in 0..MaxEntries} /\ egress \in BOOLEAN
  /\ i = 1 /\ j = 0 /\ segments = {} /\ allowed = {} /\ done = FALSE

Selected(k, allow) == entries[k].egress = egress /\ entries[k].allow = allow /\ entries[k].world

SkipEntry ==
  /\ i <= Len(entries) /\ j = 0 /\ ~Selected(i, TRUE)
  /\ i' = i + 1
  /\ UNCHANGED <<entries, egress, j, segments, allowed, done>>

StartEntry ==
  /\ i <= Len(entries) /\ j = 0 /\ Selected(i, TRUE)
  /\ segments' = {entries[i].range} /\ j' = 1
  /\ UNCHANGED <<entries, egress, i, allowed, done>>

SkipEarlier ==
  /\ j \in 1..(i - 1) /\ ~Selected(j, FALSE)
  /\ j' = j + 1
  /\ UNCHANGED <<entries, egress, i, segments, allowed, done>>

Disjoint(a, deny) ==
  deny.protocol \notin {"*", a.protocol} \/ deny.to < a.from \/ deny.from > a.to

\* Fault: the first port that is denied is kept.
SubtractedAfterFirst(a, deny) ==
  IF Disjoint(a, deny) THEN {a}
  ELSE {r \in {PortRange(a.protocol, a.from, deny.from), PortRange(a.protocol, deny.to + 1, a.to)} :
          r.from <= r.to}

\* subtractACLPortSpec.  A deny of one protocol leaves a range of all protocols
\* as it is: the branch of the code that would drop it comes after this one.
Subtracted(a, deny) ==
  IF Disjoint(a, deny) THEN {a}
  ELSE {r \in {PortRange(a.protocol, a.from, deny.from - 1), PortRange(a.protocol, deny.to + 1, a.to)} :
          r.from <= r.to}

Subtract ==
  /\ j \in 1..(i - 1) /\ Selected(j, FALSE)
  /\ segments' = UNION {Subtracted(a, entries[j].range) : a \in segments}
  /\ j' = j + 1
  /\ UNCHANGED <<entries, egress, i, allowed, done>>

EndEntry ==
  /\ j = i
  /\ allowed' = allowed \cup segments
  /\ i' = i + 1 /\ j' = 0 /\ segments' = {}
  /\ UNCHANGED <<entries, egress, done>>

End ==
  /\ ~done /\ i > Len(entries)
  /\ done' = TRUE
  /\ UNCHANGED <<entries, egress, i, j, segments, allowed>>

Next == SkipEntry \/ StartEntry \/ SkipEarlier \/ Subtract \/ EndEntry \/ End

Spec == Init /\ [][Next]_vars

-----------------------------------------------------------------------------
(* Properties *)

\* The first entry that covers a packet to or from an address of its own, one
\* that no narrower block contains, decides.
Deciding(family, packet) ==
  {k \in DOMAIN entries : /\ entries[k].egress = egress /\ entries[k].family = family
                          /\ entries[k].world /\ Covers(entries[k].range, packet)}
Lets(family, packet) ==
  \E k \in Deciding(family, packet) :
    entries[k].allow /\ \A m \in Deciding(family, packet) : k <= m

\* The ports of one protocol that are said to be open are "explicitly allowed from
\* 0.0.0.0/0 or ::/0": the rules are subtracted in order, and no deny that precedes
\* an allow is missed.  Ranges of all protocols are left out, as Subtracted keeps
\* them whole when one protocol is denied.
OpenRangesAreAllowed ==
  done => \A packet \in Open({r \in allowed : r.protocol # "*"}) :
            \E family \in Families : Lets(family, packet)

\* An ACL of one address family is not said to close what it opens.
AllowedPortsAreOpen ==
  done => \A family \in Families, packet \in Packets :
            /\ \A k \in DOMAIN entries : entries[k].family = family
            /\ Lets(family, packet)
            => packet \in Open(allowed)

\* The summary of an ACL node agrees with its rules, taken in order: "Ordered deny
\* rules are applied conservatively".
FirstMatchDecides == OpenRangesAreAllowed /\ AllowedPortsAreOpen
=============================================================================

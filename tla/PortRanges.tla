----------------------------- MODULE PortRanges -----------------------------
(***************************************************************************)
(* Port summaries ("tcp/22, udp/all") as sets of ranges.  The protocol "*" *)
(* stands for all; its range is always the full one.                       *)
(***************************************************************************)
EXTENDS Integers, FiniteSets

CONSTANTS Protocols, MaxPort

ASSUME PortAssumption == "*" \notin Protocols /\ MaxPort \in Nat

Ports == 0..MaxPort
Packets == Protocols \X Ports

PortRange(protocol, from, to) == [protocol |-> protocol, from |-> from, to |-> to]
Ranges ==
  {r \in [protocol : Protocols \cup {"*"}, from : Ports, to : Ports] :
     /\ r.from <= r.to
     /\ r.protocol = "*" => r.from = 0 /\ r.to = MaxPort}

Covers(range, packet) == range.protocol \in {"*", packet[1]} /\ packet[2] \in range.from..range.to
Open(ranges) == {packet \in Packets : \E r \in ranges : Covers(r, packet)}

Later(a, b) == IF a > b THEN a ELSE b
Earlier(a, b) == IF a < b THEN a ELSE b

Meet(a, b) ==
  /\ a.protocol = b.protocol \/ "*" \in {a.protocol, b.protocol}
  /\ Later(a.from, b.from) <= Earlier(a.to, b.to)
Common(a, b) ==
  PortRange(IF a.protocol = "*" THEN b.protocol ELSE a.protocol,
            Later(a.from, b.from), Earlier(a.to, b.to))

Intersection(left, right) ==
  {Common(m[1], m[2]) : m \in {x \in left \X right : Meet(x[1], x[2])}}
=============================================================================

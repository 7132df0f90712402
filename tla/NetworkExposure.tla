--------------------------- MODULE NetworkExposure --------------------------
(***************************************************************************)
(* DeriveNetworkExposure: which resources the internet reaches, on which   *)
(* ports and how certainly, from the collected security groups, subnets    *)
(* and network ACLs; and scanNetwork, which reports them.  The graph is    *)
(* that of a finished collection, in which a listing that failed half-way  *)
(* has left groups, subnets or ACLs out.  A failed read ends the           *)
(* derivation, and the scan passes over a node that it cannot read.        *)
(***************************************************************************)
EXTENDS PortRanges

CONSTANTS Resources, Groups, Subnets,
          ResourceOptions,  \* what a resource may be
          GroupOptions,     \* the ranges that a group may open to the world
          SubnetOptions,    \* what a subnet may be
          Ephemeral,        \* first port that answers may need, 1024
          None

ResourceType == [type : {"ec2", "elb", "rds"},
                 public : BOOLEAN,           \* public address, scheme or flag
                 groups : SUBSET Groups,     \* attached-to edges
                 listeners : SUBSET Ranges,  \* of a load balancer; the port of a database
                 network : BOOLEAN,          \* a network load balancer
                 subnets : SUBSET Subnets]   \* deployed-in edges

\* Databases of earlier versions hold ACLs whose egress is unknown.
AclType == [ingress : SUBSET Ranges, egress : (SUBSET Ranges) \cup {None}]

Exposures == [ports : (SUBSET Ranges) \ {{}}, confidence : {"definite", "possible"}]

ExposureAssumption ==
  /\ ResourceOptions \subseteq ResourceType
  /\ GroupOptions \subseteq SUBSET Ranges
  /\ \A s \in SubnetOptions : s.present \in BOOLEAN /\ s.public \in BOOLEAN /\ \A a \in s.acls : a \in AclType
  /\ Ephemeral \in Ports
  /\ None \notin Resources /\ None \notin Exposures
ASSUME ExposureAssumption

VARIABLES resource, group, subnet,  \* the graph: what every node is; a group that is missing is None
          pc, todo,                 \* resources to look at
          current, ports,           \* the resource in hand and the ports it opens
          left,                     \* its deployed-in edges to follow
          definite, possible,       \* port ranges found so far
          exposed,                  \* reachable-from edges, by resource
          findings,                 \* findings of scanNetwork
          unread                    \* history: nodes that scanNetwork could not read

graph == <<resource, group, subnet>>
vars == <<graph, pc, todo, current, ports, left, definite, possible, exposed, findings, unread>>

TypeOK ==
  /\ resource \in [Resources -> ResourceOptions]
  /\ group \in [Groups -> GroupOptions \cup {None}] /\ subnet \in [Subnets -> SubnetOptions]
  /\ pc \in {"derive", "route", "scan", "done", "error"}
  /\ todo \subseteq Resources /\ current \in Resources \cup {None}
  /\ ports \subseteq Ranges /\ left \subseteq Subnets
  /\ definite \subseteq Ranges /\ possible \subseteq Ranges
  /\ \A r \in Resources : exposed[r] = None \/ exposed[r] \in Exposures
  /\ findings \subseteq [rule : {"NET-001", "NET-002", "NET-003", "NET-004"}, target : Resources \cup Groups,
                         confidence : {"definite", "possible"}]
  /\ unread \subseteq Resources \cup Groups

Init ==
  /\ resource \in [Resources -> ResourceOptions]
  /\ group \in [Groups -> GroupOptions \cup {None}]
  /\ subnet \in [Subnets -> SubnetOptions]
  /\ pc = "derive" /\ todo = Resources /\ current = None /\ ports = {}
  /\ left = {} /\ definite = {} /\ possible = {}
  /\ exposed = [r \in Resources |-> None] /\ findings = {} /\ unread = {}

Present(r) == {g \in resource[r].groups : group[g] # None}
WorldOpen(r) == UNION {group[g] : g \in Present(r)}

\* Fault: a port must be open in every group.
OpenInEvery(r) == {range \in WorldOpen(r) : \A g \in Present(r) : range \in group[g]}
NeedsEveryGroup(r) == IF resource[r].type = "ec2" THEN OpenInEvery(r)
                      ELSE Intersection(resource[r].listeners, OpenInEvery(r))

\* resourceOpenPorts.  Edges to missing groups count as groups.
OpenPorts(r) ==
  IF resource[r].type = "ec2" THEN WorldOpen(r)
  ELSE IF resource[r].type = "rds" \/ resource[r].groups # {}
       THEN Intersection(resource[r].listeners, WorldOpen(r))
  ELSE IF resource[r].network THEN resource[r].listeners ELSE {}

Skip(r) ==
  /\ pc = "derive" /\ r \in todo
  /\ ~resource[r].public \/ OpenPorts(r) = {}
  /\ todo' = todo \ {r}
  /\ UNCHANGED <<graph, pc, current, ports, left, definite, possible, exposed, findings, unread>>

StartRoute(r) ==
  /\ pc = "derive" /\ r \in todo
  /\ resource[r].public /\ OpenPorts(r) # {}
  /\ todo' = todo \ {r} /\ current' = r /\ ports' = OpenPorts(r)
  /\ left' = resource[r].subnets /\ definite' = {} /\ possible' = {}
  /\ pc' = "route"
  /\ UNCHANGED <<graph, exposed, findings, unread>>

\* aclAllowsResponseTraffic: one range of the egress must hold every port that
\* an answer may need.  All protocols are covered by any one.
AllowsResponses(inbound, egress) ==
  \A in \in inbound : \E out \in egress :
    /\ out.protocol = in.protocol \/ "*" \in {in.protocol, out.protocol}
    /\ out.from <= Ephemeral /\ out.to = MaxPort

\* Fault: egress is not looked at.
RouteWithoutEgress(s) ==
  /\ pc = "route" /\ s \in left /\ subnet[s].present /\ subnet[s].public
  /\ left' = left \ {s}
  /\ definite' = definite \cup UNION {Intersection(ports, a.ingress) : a \in subnet[s].acls}
  /\ possible' = possible \cup (IF subnet[s].acls = {} THEN ports ELSE {})
  /\ UNCHANGED <<graph, pc, todo, current, ports, exposed, findings, unread>>

\* A step of routedPorts' loop, for a public subnet.
Route(s) ==
  LET Known(a) == a.egress # None
      Reachable(a) == Intersection(ports, a.ingress)
  IN  /\ pc = "route" /\ s \in left /\ subnet[s].present /\ subnet[s].public
      /\ left' = left \ {s}
      /\ definite' = definite \cup
           UNION {Reachable(a) : a \in {x \in subnet[s].acls : Known(x) /\ AllowsResponses(Reachable(x), x.egress)}}
      /\ possible' = possible \cup (IF subnet[s].acls = {} THEN ports ELSE {})
                              \cup UNION {Reachable(a) : a \in {x \in subnet[s].acls : ~Known(x)}}
      /\ UNCHANGED <<graph, pc, todo, current, ports, exposed, findings, unread>>

SkipSubnet(s) ==
  /\ pc = "route" /\ s \in left /\ ~(subnet[s].present /\ subnet[s].public)
  /\ left' = left \ {s}
  /\ UNCHANGED <<graph, pc, todo, current, ports, definite, possible, exposed, findings, unread>>

\* What is certain wins; what is only possible is used when nothing is.
Exposure ==
  CASE definite # {} -> [ports |-> definite, confidence |-> "definite"]
    [] definite = {} /\ possible # {} -> [ports |-> possible, confidence |-> "possible"]
    [] OTHER -> None

EndRoute ==
  /\ pc = "route" /\ left = {}
  /\ exposed' = [exposed EXCEPT ![current] = Exposure]
  /\ pc' = "derive" /\ current' = None /\ ports' = {} /\ definite' = {} /\ possible' = {}
  /\ UNCHANGED <<graph, todo, left, findings, unread>>

Import ==
  /\ pc = "derive" /\ todo = {}
  /\ pc' = "scan"
  /\ UNCHANGED <<graph, todo, current, ports, left, definite, possible, exposed, findings, unread>>

\* Groups that are open to the world, by their allows-ingress edges, and resources that
\* have a reachable-from edge.
OpenGroups == {g \in Groups : group[g] \notin {None, {}}}
Reached == {r \in Resources : exposed[r] # None}

GroupFindings(read) ==
  {[rule |-> "NET-001", target |-> g, confidence |-> "definite"] : g \in OpenGroups \cap read}

Rule(type) == CASE type = "rds" -> "NET-003" [] type = "elb" -> "NET-004" [] OTHER -> "NET-002"

ResourceFindings(read) ==
  {[rule |-> Rule(resource[r].type), target |-> r, confidence |-> exposed[r].confidence] : r \in Reached \cap read}

\* Fault: findings are always sure.
ScanForgetsConfidence ==
  /\ pc = "scan"
  /\ \E read \in SUBSET (OpenGroups \cup Reached) :
       /\ findings' = GroupFindings(read) \cup {[f EXCEPT !.confidence = "definite"] : f \in ResourceFindings(read)}
       /\ unread' = (OpenGroups \cup Reached) \ read
  /\ pc' = "done"
  /\ UNCHANGED <<graph, todo, current, ports, left, definite, possible, exposed>>

\* Each node at the end of an edge is read; one whose read fails is passed over, and the
\* scan goes on.
ScanNetwork ==
  /\ pc = "scan"
  /\ \E read \in SUBSET (OpenGroups \cup Reached) :
       /\ findings' = GroupFindings(read) \cup ResourceFindings(read)
       /\ unread' = (OpenGroups \cup Reached) \ read
  /\ pc' = "done"
  /\ UNCHANGED <<graph, todo, current, ports, left, definite, possible, exposed>>

\* Any other store call fails.  Nothing is imported, or nothing is reported.
Fail ==
  /\ pc \in {"derive", "route", "scan"}
  /\ pc' = "error"
  /\ exposed' = IF pc = "scan" THEN exposed ELSE [r \in Resources |-> None]
  /\ todo' = {} /\ current' = None /\ ports' = {} /\ left' = {} /\ definite' = {} /\ possible' = {}
  /\ UNCHANGED <<graph, findings, unread>>

Next ==
  \/ \E r \in Resources : Skip(r) \/ StartRoute(r)
  \/ \E s \in Subnets : Route(s) \/ SkipSubnet(s)
  \/ EndRoute \/ Import \/ ScanNetwork \/ Fail

Spec == Init /\ [][Next]_vars

-----------------------------------------------------------------------------
(* Properties.  A packet is a protocol and a port of the resource. *)

\* The resource is addressable and takes the packet.
Takes(r, packet) ==
  LET admitted == \E g \in Present(r) : packet \in Open(group[g])
      listening == packet \in Open(resource[r].listeners)
  IN  /\ resource[r].public
      /\ CASE resource[r].type = "ec2" -> admitted
           [] resource[r].type = "rds" -> admitted /\ listening
           [] resource[r].type = "elb" ->
                listening /\ (admitted \/ (resource[r].network /\ resource[r].groups = {}))

PublicSubnets(r) == {s \in resource[r].subnets : subnet[s].present /\ subnet[s].public}
Answers(acl, packet) ==
  acl.egress # None /\ \A p \in Ephemeral..MaxPort : <<packet[1], p>> \in Open(acl.egress)
Passes(r, packet) ==
  \E s \in PublicSubnets(r) : \E acl \in subnet[s].acls : packet \in Open(acl.ingress) /\ Answers(acl, packet)

ReportedAs(r, confidence) ==
  [rule |-> Rule(resource[r].type), target |-> r, confidence |-> confidence] \in findings
Definite(r) == ReportedAs(r, "definite")

\* The packet is on the edge of the resource, which has this confidence; and the
\* resource is reported so, unless the scan could not read it.
Exposed(r, packet, confidence) ==
  /\ exposed[r] # None /\ exposed[r].confidence = confidence /\ packet \in Open(exposed[r].ports)
  /\ r \in unread \/ ReportedAs(r, confidence)

\* A resource that is reported reachable for sure, on ports of named protocols,
\* has the whole path: address, open group or listener, public subnet, and an
\* ACL that lets the packet in and its answer out.
DefiniteIsComplete ==
  \A r \in Resources : Definite(r) =>
    \A range \in exposed[r].ports : range.protocol # "*" =>
      \A packet \in Open({range}) : Takes(r, packet) /\ Passes(r, packet)

\* A complete path through an ACL that lets every answer out gives a definite edge, and
\* a definite finding unless the scan could not read the resource.
OpenPathIsDefinite ==
  pc = "done" => \A r \in Resources, s \in Subnets, packet \in Packets :
    /\ Takes(r, packet) /\ s \in PublicSubnets(r)
    /\ \E acl \in subnet[s].acls : /\ packet \in Open(acl.ingress)
                                  /\ acl.egress # None /\ PortRange("*", 0, MaxPort) \in acl.egress
    => Exposed(r, packet, "definite")

\* Where no ACL of a resource's subnets is known, all it takes is possibly reachable and
\* reported as that, unless the scan could not read the resource; never for sure.
UnknownIsPossible ==
  pc = "done" => \A r \in Resources, packet \in Packets :
    Takes(r, packet) /\ PublicSubnets(r) # {} /\ (\A s \in PublicSubnets(r) : subnet[s].acls = {})
    => Exposed(r, packet, "possible") /\ ~Definite(r)
=============================================================================

---------------------------- MODULE NetworkProofs ----------------------------
(***************************************************************************)
(* Theorems about what is reachable from outside, for every network, every *)
(* ACL and every resource policy.                                          *)
(***************************************************************************)
EXTENDS Network, Sequences, FiniteSetTheorems, TLAPS

-----------------------------------------------------------------------------
(* Sets of port ranges *)

LEMMA RangeIsTyped ==
  ASSUME NEW r \in Ranges
  PROVE  /\ r = PortRange(r.protocol, r.from, r.to)
         /\ r.protocol \in Protocols \cup {"*"}
         /\ r.from \in Int /\ r.to \in Int
         /\ 0 <= r.from /\ r.from <= r.to /\ r.to <= MaxPort
         /\ r.protocol = "*" => r.from = 0 /\ r.to = MaxPort
BY PortAssumption DEF Ranges, Ports, PortRange

LEMMA IsRange ==
  ASSUME NEW protocol \in Protocols \cup {"*"}, NEW from \in Int, NEW to \in Int,
         0 <= from, from <= to, to <= MaxPort, protocol = "*" => from = 0 /\ to = MaxPort
  PROVE  PortRange(protocol, from, to) \in Ranges
BY PortAssumption DEF Ranges, Ports, PortRange

LEMMA OpenIsPackets == \A ranges : Open(ranges) \subseteq Packets
BY DEF Open

LEMMA OpenOfUnion ==
  ASSUME NEW packet, NEW sets, packet \in Packets
  PROVE  packet \in Open(UNION sets) <=> \E ranges \in sets : packet \in Open(ranges)
BY DEF Open

LEMMA InIntersection ==
  \A one, other, range : range \in Intersection(one, other)
     <=> \E a \in one, b \in other : Meet(a, b) /\ range = Common(a, b)
<1> TAKE one, other, range
<1>1. \A a \in one, b \in other : Meet(a, b) =>
        \E m \in {x \in one \X other : Meet(x[1], x[2])} : m[1] = a /\ m[2] = b
  <2> TAKE a \in one, b \in other
  <2> HAVE Meet(a, b)
  <2> WITNESS <<a, b>> \in {x \in one \X other : Meet(x[1], x[2])}
  <2> QED OBVIOUS
<1> QED
  BY <1>1 DEF Intersection

\* What two sets of ranges have in common is a set of ranges.
LEMMA IntersectionIsRanges ==
  ASSUME NEW one \in SUBSET Ranges, NEW other \in SUBSET Ranges
  PROVE  Intersection(one, other) \subseteq Ranges
<1> SUFFICES ASSUME NEW a \in one, NEW b \in other, Meet(a, b)
             PROVE  Common(a, b) \in Ranges
  BY InIntersection
<1> QED
  BY RangeIsTyped, IsRange DEF Meet, Common, Later, Earlier

\* A packet is open in the intersection exactly when it is open in both.
LEMMA OpenOfIntersection ==
  ASSUME NEW one \in SUBSET Ranges, NEW other \in SUBSET Ranges
  PROVE  Open(Intersection(one, other)) = Open(one) \cap Open(other)
<1>1. ASSUME NEW packet \in Packets, NEW a \in one, NEW b \in other
      PROVE  Meet(a, b) /\ Covers(Common(a, b), packet) <=> Covers(a, packet) /\ Covers(b, packet)
  <2>1. packet[1] \in Protocols /\ packet[1] # "*" /\ packet[2] \in Int
    BY PortAssumption DEF Packets, Ports
  <2> QED
    BY <2>1, RangeIsTyped DEF Covers, Meet, Common, Later, Earlier, PortRange
<1> QED
  BY <1>1, InIntersection DEF Open

-----------------------------------------------------------------------------
(* NetworkExposure *)

\* What a subnet on the way to a resource contributes.
DefiniteVia(r, s) ==
  UNION {Intersection(OpenPorts(r), a.ingress) :
           a \in {x \in subnet[s].acls :
                    /\ x.egress # None
                    /\ AllowsResponses(Intersection(OpenPorts(r), x.ingress), x.egress)}}
PossibleVia(r, s) ==
  (IF subnet[s].acls = {} THEN OpenPorts(r) ELSE {})
  \cup UNION {Intersection(OpenPorts(r), a.ingress) : a \in {x \in subnet[s].acls : x.egress = None}}

AllDefinite(r) == UNION {DefiniteVia(r, s) : s \in PublicSubnets(r)}
AllPossible(r) == UNION {PossibleVia(r, s) : s \in PublicSubnets(r)}
ExposureOf(r) ==
  CASE resource[r].public /\ OpenPorts(r) # {} /\ AllDefinite(r) # {} ->
         [ports |-> AllDefinite(r), confidence |-> "definite"]
    [] resource[r].public /\ OpenPorts(r) # {} /\ AllDefinite(r) = {} /\ AllPossible(r) # {} ->
         [ports |-> AllPossible(r), confidence |-> "possible"]
    [] OTHER -> None

InHand(r) == pc = "route" /\ r = current

\* The resource in hand: its ranges are those of the subnets followed so far.
RouteInv ==
  pc = "route" =>
    /\ current \in Resources /\ current \notin todo
    /\ resource[current].public /\ ports = OpenPorts(current) /\ OpenPorts(current) # {}
    /\ left \subseteq resource[current].subnets
    /\ definite = UNION {DefiniteVia(current, s) : s \in PublicSubnets(current) \ left}
    /\ possible = UNION {PossibleVia(current, s) : s \in PublicSubnets(current) \ left}

\* The resources dealt with have the exposure of all their subnets.
ExposedInv ==
  /\ exposed \in [Resources -> Exposures \cup {None}]
  /\ pc # "error" =>
       \A r \in Resources : exposed[r] = IF r \in todo \/ InHand(r) THEN None ELSE ExposureOf(r)
  /\ pc \in {"scan", "done"} => todo = {}

Read == (OpenGroups \cup Reached) \ unread

\* What was read is reported.
FindingsInv ==
  /\ pc # "done" => findings = {}
  /\ pc = "done" => findings = GroupFindings(Read) \cup ResourceFindings(Read)

ExposureInv == TypeOK /\ RouteInv /\ ExposedInv /\ FindingsInv

LEMMA ResourceIsTyped ==
  ASSUME resource \in [Resources -> ResourceOptions], NEW r \in Resources
  PROVE  /\ resource[r].type \in {"ec2", "elb", "rds"}
         /\ resource[r].public \in BOOLEAN /\ resource[r].network \in BOOLEAN
         /\ resource[r].groups \subseteq Groups /\ resource[r].subnets \subseteq Subnets
         /\ resource[r].listeners \subseteq Ranges
BY ExposureAssumption DEF ExposureAssumption, ResourceType

LEMMA GroupIsTyped ==
  ASSUME group \in [Groups -> GroupOptions \cup {None}], NEW g \in Groups, group[g] # None
  PROVE  group[g] \subseteq Ranges
BY ExposureAssumption DEF ExposureAssumption

LEMMA AclIsTyped ==
  ASSUME subnet \in [Subnets -> SubnetOptions], NEW s \in Subnets, NEW a \in subnet[s].acls
  PROVE  a.ingress \subseteq Ranges /\ (a.egress # None => a.egress \subseteq Ranges)
BY ExposureAssumption DEF ExposureAssumption, AclType

LEMMA OpenPortsAreRanges ==
  ASSUME TypeOK, NEW r \in Resources
  PROVE  WorldOpen(r) \subseteq Ranges /\ OpenPorts(r) \subseteq Ranges
<1>1. \A g \in Present(r) : g \in Groups /\ group[g] \subseteq Ranges
  BY ResourceIsTyped, GroupIsTyped DEF Present, TypeOK
<1>2. WorldOpen(r) \subseteq Ranges
  BY <1>1 DEF WorldOpen
<1> QED
  BY <1>2, ResourceIsTyped, IntersectionIsRanges DEF OpenPorts, TypeOK

LEMMA ViaIsRanges ==
  ASSUME TypeOK, NEW r \in Resources, NEW s \in Subnets
  PROVE  DefiniteVia(r, s) \subseteq Ranges /\ PossibleVia(r, s) \subseteq Ranges
<1>1. \A a \in subnet[s].acls : Intersection(OpenPorts(r), a.ingress) \subseteq Ranges
  BY OpenPortsAreRanges, AclIsTyped, IntersectionIsRanges DEF TypeOK
<1>2. OpenPorts(r) \subseteq Ranges
  BY OpenPortsAreRanges
<1>3. DefiniteVia(r, s) \subseteq Ranges
  BY <1>1 DEF DefiniteVia
<1>4. PossibleVia(r, s) \subseteq Ranges
  <2> DEFINE unknown == UNION {Intersection(OpenPorts(r), a.ingress) : a \in {x \in subnet[s].acls : x.egress = None}}
             missing == IF subnet[s].acls = {} THEN OpenPorts(r) ELSE {}
  <2>1. unknown \subseteq Ranges
    BY <1>1
  <2>2. missing \subseteq Ranges
    BY <1>2
  <2>3. PossibleVia(r, s) = unknown \cup missing
    BY DEF PossibleVia
  <2> HIDE DEF unknown, missing
  <2> QED
    BY <2>1, <2>2, <2>3
<1> QED
  BY <1>3, <1>4

LEMMA ExposureIsTyped ==
  ASSUME TypeOK, NEW r \in Resources
  PROVE  ExposureOf(r) \in Exposures \cup {None}
<1>1. PublicSubnets(r) \subseteq Subnets
  BY ResourceIsTyped DEF PublicSubnets, TypeOK
<1>2. AllDefinite(r) \subseteq Ranges /\ AllPossible(r) \subseteq Ranges
  BY <1>1, ViaIsRanges DEF AllDefinite, AllPossible
<1> QED
  BY <1>2 DEF ExposureOf, Exposures

\* The graph does not change.
LEMMA GraphStays ==
  ASSUME UNCHANGED graph
  PROVE  /\ OpenGroups' = OpenGroups
         /\ \A r : /\ OpenPorts(r)' = OpenPorts(r) /\ PublicSubnets(r)' = PublicSubnets(r)
                   /\ ExposureOf(r)' = ExposureOf(r)
                   /\ \A s : DefiniteVia(r, s)' = DefiniteVia(r, s) /\ PossibleVia(r, s)' = PossibleVia(r, s)
<1>1. \A r : /\ OpenPorts(r)' = OpenPorts(r) /\ PublicSubnets(r)' = PublicSubnets(r)
  BY DEF graph, OpenPorts, PublicSubnets, WorldOpen, Present
<1>2. \A r, s : DefiniteVia(r, s)' = DefiniteVia(r, s) /\ PossibleVia(r, s)' = PossibleVia(r, s)
  BY <1>1 DEF graph, DefiniteVia, PossibleVia
<1>3. \A r : AllDefinite(r)' = AllDefinite(r) /\ AllPossible(r)' = AllPossible(r)
  BY <1>1, <1>2 DEF AllDefinite, AllPossible
<1>4. \A r : ExposureOf(r)' = ExposureOf(r)
  BY <1>1, <1>3 DEF graph, ExposureOf
<1> QED
  BY <1>1, <1>2, <1>4 DEF graph, OpenGroups

LEMMA ExposureInit == Init => ExposureInv
<1> SUFFICES ASSUME Init PROVE ExposureInv
  OBVIOUS
<1>1. TypeOK
  BY DEF Init, TypeOK
<1> QED
  BY <1>1 DEF Init, ExposureInv, RouteInv, ExposedInv, FindingsInv, InHand

LEMMA SkipStep ==
  ASSUME ExposureInv, NEW r \in Resources, Skip(r)
  PROVE  ExposureInv'
<1>1. UNCHANGED graph /\ UNCHANGED <<pc, current, exposed, findings>> /\ pc = "derive"
  BY DEF Skip
<1>2. TypeOK'
  BY DEF ExposureInv, TypeOK, Skip, graph
<1>3. RouteInv'
  BY <1>1 DEF RouteInv
<1>4. ExposureOf(r) = None
  BY DEF Skip, ExposureOf
<1>5. ExposedInv'
  BY <1>1, <1>4, GraphStays DEF ExposureInv, ExposedInv, Skip, InHand
<1>6. FindingsInv'
  BY <1>1 DEF ExposureInv, FindingsInv
<1> QED
  BY <1>2, <1>3, <1>5, <1>6 DEF ExposureInv

LEMMA StartRouteStep ==
  ASSUME ExposureInv, NEW r \in Resources, StartRoute(r)
  PROVE  ExposureInv'
<1>1. UNCHANGED graph /\ UNCHANGED <<exposed, findings>> /\ pc = "derive" /\ pc' = "route"
  BY DEF StartRoute
<1>2. TypeOK'
  BY OpenPortsAreRanges, ResourceIsTyped DEF ExposureInv, TypeOK, StartRoute, graph
<1>3. RouteInv'
  <2>1. PublicSubnets(r) \ resource[r].subnets = {}
    BY DEF PublicSubnets
  <2> QED
    BY <1>1, <2>1, GraphStays DEF RouteInv, StartRoute, graph
<1>4. ExposedInv'
  BY <1>1, GraphStays DEF ExposureInv, ExposedInv, StartRoute, InHand
<1>5. FindingsInv'
  BY <1>1 DEF ExposureInv, FindingsInv
<1> QED
  BY <1>2, <1>3, <1>4, <1>5 DEF ExposureInv

LEMMA RouteStep ==
  ASSUME ExposureInv, NEW s \in Subnets, Route(s)
  PROVE  ExposureInv'
<1>1. /\ UNCHANGED graph /\ UNCHANGED <<pc, todo, current, ports, exposed, findings, unread>> /\ pc = "route"
      /\ s \in left /\ left' = left \ {s}
  BY DEF Route
<1>2. s \in PublicSubnets(current) /\ ports = OpenPorts(current) /\ current \in Resources
  BY <1>1 DEF ExposureInv, RouteInv, Route, PublicSubnets
<1>3. /\ definite' = definite \cup DefiniteVia(current, s)
      /\ possible' = possible \cup PossibleVia(current, s)
  BY <1>2 DEF Route, DefiniteVia, PossibleVia
<1>4. PublicSubnets(current) \ left' = (PublicSubnets(current) \ left) \cup {s}
  BY <1>1, <1>2
<1>5. TypeOK'
  BY <1>1, <1>2, <1>3, ViaIsRanges DEF ExposureInv, TypeOK, graph
<1>6. RouteInv'
  <2>1. definite' = UNION {DefiniteVia(current, t) : t \in PublicSubnets(current) \ left'}
    BY <1>1, <1>3, <1>4 DEF ExposureInv, RouteInv
  <2>2. possible' = UNION {PossibleVia(current, t) : t \in PublicSubnets(current) \ left'}
    BY <1>1, <1>3, <1>4 DEF ExposureInv, RouteInv
  <2> QED
    BY <1>1, <2>1, <2>2, GraphStays DEF ExposureInv, RouteInv, graph
<1>7. ExposedInv'
  BY <1>1, GraphStays DEF ExposureInv, ExposedInv, InHand
<1>8. FindingsInv'
  BY <1>1 DEF ExposureInv, FindingsInv
<1> QED
  BY <1>5, <1>6, <1>7, <1>8 DEF ExposureInv

LEMMA SkipSubnetStep ==
  ASSUME ExposureInv, NEW s \in Subnets, SkipSubnet(s)
  PROVE  ExposureInv'
<1>1. /\ UNCHANGED graph /\ UNCHANGED <<pc, todo, current, ports, definite, possible, exposed, findings, unread>>
      /\ pc = "route" /\ s \in left /\ left' = left \ {s}
  BY DEF SkipSubnet
<1>2. PublicSubnets(current) \ left' = PublicSubnets(current) \ left
  BY <1>1 DEF SkipSubnet, PublicSubnets
<1>3. TypeOK'
  BY <1>1 DEF ExposureInv, TypeOK, graph
<1>4. RouteInv'
  BY <1>1, <1>2, GraphStays DEF ExposureInv, RouteInv, graph
<1>5. ExposedInv'
  BY <1>1, GraphStays DEF ExposureInv, ExposedInv, InHand
<1>6. FindingsInv'
  BY <1>1 DEF ExposureInv, FindingsInv
<1> QED
  BY <1>3, <1>4, <1>5, <1>6 DEF ExposureInv

LEMMA EndRouteStep ==
  ASSUME ExposureInv, EndRoute
  PROVE  ExposureInv'
<1>1. /\ UNCHANGED graph /\ UNCHANGED <<todo, left, findings>> /\ pc = "route" /\ pc' = "derive"
      /\ left = {} /\ exposed' = [exposed EXCEPT ![current] = Exposure]
  BY DEF EndRoute
<1>2. /\ current \in Resources /\ current \notin todo
      /\ resource[current].public /\ OpenPorts(current) # {}
      /\ definite = AllDefinite(current) /\ possible = AllPossible(current)
  BY <1>1 DEF ExposureInv, RouteInv, AllDefinite, AllPossible
<1>3. Exposure = ExposureOf(current)
  BY <1>2 DEF Exposure, ExposureOf
<1>4. ExposureOf(current) \in Exposures \cup {None}
  BY <1>2, ExposureIsTyped DEF ExposureInv
<1>5. ExposedInv'
  BY <1>1, <1>2, <1>3, <1>4, GraphStays DEF ExposureInv, ExposedInv, InHand
<1>6. TypeOK'
  BY <1>1, <1>5 DEF ExposureInv, TypeOK, EndRoute, graph, ExposedInv
<1>7. RouteInv' /\ FindingsInv'
  BY <1>1 DEF ExposureInv, RouteInv, FindingsInv
<1> QED
  BY <1>5, <1>6, <1>7 DEF ExposureInv

LEMMA ImportStep ==
  ASSUME ExposureInv, Import
  PROVE  ExposureInv'
<1>1. /\ UNCHANGED graph /\ UNCHANGED <<todo, current, exposed, findings>>
      /\ pc = "derive" /\ pc' = "scan" /\ todo = {}
  BY DEF Import
<1>2. TypeOK'
  BY DEF ExposureInv, TypeOK, Import, graph
<1>3. ExposedInv'
  BY <1>1, GraphStays DEF ExposureInv, ExposedInv, InHand
<1>4. RouteInv' /\ FindingsInv'
  BY <1>1 DEF ExposureInv, RouteInv, FindingsInv
<1> QED
  BY <1>2, <1>3, <1>4 DEF ExposureInv

LEMMA ScanNetworkStep ==
  ASSUME ExposureInv, ScanNetwork
  PROVE  ExposureInv'
<1>1. UNCHANGED graph /\ UNCHANGED <<todo, current, exposed>> /\ pc = "scan" /\ pc' = "done"
  BY DEF ScanNetwork
<1>2. ExposedInv'
  BY <1>1, GraphStays DEF ExposureInv, ExposedInv, InHand
<1>3. RouteInv'
  BY <1>1 DEF RouteInv
<1>4. PICK read \in SUBSET (OpenGroups \cup Reached) :
        /\ findings' = GroupFindings(read) \cup ResourceFindings(read)
        /\ unread' = (OpenGroups \cup Reached) \ read
  BY DEF ScanNetwork
<1>5. Read' = read
  BY <1>1, <1>4, GraphStays DEF Read, Reached
<1>6. FindingsInv'
  BY <1>1, <1>4, <1>5 DEF FindingsInv, GroupFindings, ResourceFindings, OpenGroups, Reached, graph
<1>7. \A r \in Resources : exposed[r] # None => exposed[r].confidence \in {"definite", "possible"}
  BY DEF ExposureInv, ExposedInv, Exposures
<1>8. TypeOK'
  <2>1. findings' \subseteq [rule : {"NET-001", "NET-002", "NET-003", "NET-004"}, target : Resources \cup Groups,
                             confidence : {"definite", "possible"}]
    BY <1>4, <1>7 DEF GroupFindings, ResourceFindings, OpenGroups, Reached, Rule
  <2>2. unread' \subseteq Resources \cup Groups
    BY <1>4 DEF OpenGroups, Reached
  <2> QED
    BY <1>1, <2>1, <2>2 DEF ExposureInv, TypeOK, ScanNetwork, graph
<1> QED
  BY <1>2, <1>3, <1>6, <1>8 DEF ExposureInv

LEMMA FailStep ==
  ASSUME ExposureInv, Fail
  PROVE  ExposureInv'
<1>1. /\ UNCHANGED graph /\ UNCHANGED <<findings, unread>> /\ pc # "done" /\ pc' = "error"
      /\ exposed' = exposed \/ exposed' = [r \in Resources |-> None]
  BY DEF Fail
<1>2. TypeOK'
  BY <1>1 DEF ExposureInv, TypeOK, Fail, graph
<1>3. exposed' \in [Resources -> Exposures \cup {None}]
  BY <1>1 DEF ExposureInv, ExposedInv
<1> QED
  BY <1>1, <1>2, <1>3 DEF ExposureInv, RouteInv, ExposedInv, FindingsInv

LEMMA ExposureInvariant == Spec => []ExposureInv
<1>1. ExposureInv /\ [Next]_vars => ExposureInv'
  <2> SUFFICES ASSUME ExposureInv, [Next]_vars PROVE ExposureInv'
    OBVIOUS
  <2>1. CASE UNCHANGED vars
    <3>1. UNCHANGED graph
      BY <2>1 DEF vars
    <3>2. TypeOK' /\ ExposedInv'
      BY <2>1, <3>1, GraphStays DEF vars, ExposureInv, TypeOK, ExposedInv, InHand, graph
    <3>3. RouteInv'
      BY <2>1, <3>1, GraphStays DEF vars, ExposureInv, RouteInv, graph
    <3>4. FindingsInv'
      BY <2>1, <3>1, GraphStays
      DEF vars, ExposureInv, FindingsInv, GroupFindings, ResourceFindings, Read, Reached, graph
    <3> QED
      BY <3>2, <3>3, <3>4 DEF ExposureInv
  <2> QED
    BY <2>1, SkipStep, StartRouteStep, RouteStep, SkipSubnetStep, EndRouteStep, ImportStep, ScanNetworkStep,
       FailStep
    DEF Next
<1> QED
  BY <1>1, ExposureInit, PTL DEF Spec

-----------------------------------------------------------------------------
(* What the invariant says of packets *)

\* The open ports of an addressable resource are the packets it takes.
LEMMA OpenPortsAreTaken ==
  ASSUME TypeOK, NEW r \in Resources, resource[r].public, NEW packet \in Packets
  PROVE  packet \in Open(OpenPorts(r)) <=> Takes(r, packet)
<1> DEFINE admitted == \E g \in Present(r) : packet \in Open(group[g])
           listening == packet \in Open(resource[r].listeners)
<1>1. WorldOpen(r) \subseteq Ranges
  BY OpenPortsAreRanges
<1>2. /\ resource[r].type \in {"ec2", "elb", "rds"} /\ resource[r].listeners \subseteq Ranges
      /\ resource[r].network \in BOOLEAN
  BY ResourceIsTyped DEF TypeOK
<1>3. packet \in Open(WorldOpen(r)) <=> admitted
  BY DEF WorldOpen, Open
<1>4. packet \in Open(Intersection(resource[r].listeners, WorldOpen(r))) <=> admitted /\ listening
  BY <1>1, <1>2, <1>3, OpenOfIntersection
<1>5. admitted => resource[r].groups # {}
  BY DEF Present
<1>6. packet \notin Open({})
  BY DEF Open
<1>7. Takes(r, packet) <=> CASE resource[r].type = "ec2" -> admitted
                             [] resource[r].type = "rds" -> admitted /\ listening
                             [] resource[r].type = "elb" ->
                                  listening /\ (admitted \/ (resource[r].network /\ resource[r].groups = {}))
  BY DEF Takes
<1> HIDE DEF admitted, listening
<1>8. CASE resource[r].type = "ec2"
  <2>1. OpenPorts(r) = WorldOpen(r)
    BY <1>8 DEF OpenPorts
  <2> QED
    BY <1>8, <1>3, <1>7, <2>1
<1>9. CASE resource[r].type = "rds"
  <2>1. OpenPorts(r) = Intersection(resource[r].listeners, WorldOpen(r))
    BY <1>9 DEF OpenPorts
  <2> QED
    BY <1>9, <1>4, <1>7, <2>1
<1>10. CASE resource[r].type = "elb"
  <2>1. CASE resource[r].groups # {}
    BY <1>10, <2>1, <1>4, <1>7 DEF OpenPorts
  <2>2. CASE resource[r].groups = {} /\ resource[r].network
    BY <1>10, <2>2, <1>7 DEF OpenPorts, listening
  <2>3. CASE resource[r].groups = {} /\ ~ resource[r].network
    BY <1>10, <2>3, <1>5, <1>6, <1>7 DEF OpenPorts
  <2> QED
    BY <1>2, <2>1, <2>2, <2>3
<1> QED
  BY <1>2, <1>8, <1>9, <1>10

\* A finding on a resource has the confidence of its exposure, and one that was read is
\* reported.
LEMMA ReportedIsExposed ==
  ASSUME ExposureInv, NEW r \in Resources
  PROVE  /\ \A c : ReportedAs(r, c) => pc = "done" /\ exposed[r] # None /\ exposed[r].confidence = c
         /\ pc = "done" /\ exposed[r] # None => r \in unread \/ ReportedAs(r, exposed[r].confidence)
<1>1. Rule(resource[r].type) # "NET-001"
  BY DEF Rule
<1>2. ASSUME NEW c, ReportedAs(r, c)
      PROVE  pc = "done" /\ exposed[r] # None /\ exposed[r].confidence = c
  <2>1. pc = "done" /\ findings = GroupFindings(Read) \cup ResourceFindings(Read)
    BY <1>2 DEF ReportedAs, ExposureInv, FindingsInv
  <2>2. \A f \in GroupFindings(Read) : f.rule = "NET-001"
    BY DEF GroupFindings
  <2>3. [rule |-> Rule(resource[r].type), target |-> r, confidence |-> c] \in ResourceFindings(Read)
    BY <1>1, <1>2, <2>1, <2>2 DEF ReportedAs
  <2> QED
    BY <2>1, <2>3 DEF ResourceFindings, Reached
<1>3. pc = "done" /\ exposed[r] # None => r \in unread \/ ReportedAs(r, exposed[r].confidence)
  BY DEF ReportedAs, ExposureInv, FindingsInv, ResourceFindings, Read, Reached
<1> QED
  BY <1>2, <1>3

\* Exposures are those of public resources with open ports.
LEMMA ExposedIs ==
  ASSUME ExposureInv, pc # "error", NEW r \in Resources, exposed[r] # None
  PROVE  /\ exposed[r] \in Exposures /\ resource[r].public
         /\ \/ exposed[r].confidence = "definite" /\ exposed[r].ports = AllDefinite(r)
            \/ exposed[r].confidence = "possible" /\ exposed[r].ports = AllPossible(r) /\ AllDefinite(r) = {}
BY DEF ExposureInv, ExposedInv, ExposureOf

LEMMA ExposedWhenDone ==
  ASSUME ExposureInv, pc = "done", NEW r \in Resources
  PROVE  exposed[r] = ExposureOf(r)
BY DEF ExposureInv, ExposedInv, InHand

\* An answer to a packet of a range that is let in passes the ACL.
LEMMA ResponsesPass ==
  ASSUME NEW inbound \in SUBSET Ranges, NEW acl, acl.egress # None, acl.egress \subseteq Ranges,
         AllowsResponses(inbound, acl.egress),
         NEW range \in inbound, range.protocol # "*", NEW packet \in Packets, Covers(range, packet)
  PROVE  Answers(acl, packet)
<1>1. packet[1] = range.protocol /\ packet[1] \in Protocols
  BY DEF Covers, Packets
<1>2. PICK out \in acl.egress : /\ out.protocol = range.protocol \/ "*" \in {range.protocol, out.protocol}
                                /\ out.from <= Ephemeral /\ out.to = MaxPort
  BY DEF AllowsResponses
<1>3. Ephemeral \in Int /\ 0 <= Ephemeral /\ MaxPort \in Nat
  BY ExposureAssumption, PortAssumption DEF ExposureAssumption, Ports
<1>4. ASSUME NEW p \in Ephemeral..MaxPort
      PROVE  <<packet[1], p>> \in Open(acl.egress)
  <2>1. <<packet[1], p>> \in Packets
    BY <1>1, <1>3 DEF Packets, Ports
  <2>2. Covers(out, <<packet[1], p>>)
    BY <1>1, <1>2, <1>3, RangeIsTyped DEF Covers
  <2> QED
    BY <1>2, <2>1, <2>2 DEF Open
<1> QED
  BY <1>4 DEF Answers

-----------------------------------------------------------------------------
\* What DeriveNetworkExposure and scanNetwork call definitely reachable has the
\* whole path, whatever the groups, subnets and ACLs are and whatever is missing.
THEOREM DefiniteIsCompleteCorrect == Spec => []DefiniteIsComplete
<1>1. ExposureInv => DefiniteIsComplete
  <2> SUFFICES ASSUME ExposureInv, NEW r \in Resources, Definite(r),
                      NEW range \in exposed[r].ports, range.protocol # "*",
                      NEW packet \in Open({range})
               PROVE  Takes(r, packet) /\ Passes(r, packet)
    BY DEF DefiniteIsComplete
  <2>1. pc = "done" /\ exposed[r] # None /\ exposed[r].confidence = "definite"
    BY ReportedIsExposed DEF Definite
  <2>2. range \in AllDefinite(r) /\ resource[r].public
    BY <2>1, ExposedIs
  <2>3. PICK s \in PublicSubnets(r) : range \in DefiniteVia(r, s)
    BY <2>2 DEF AllDefinite
  <2>4. PICK a \in subnet[s].acls : /\ a.egress # None
                                    /\ AllowsResponses(Intersection(OpenPorts(r), a.ingress), a.egress)
                                    /\ range \in Intersection(OpenPorts(r), a.ingress)
    BY <2>3 DEF DefiniteVia
  <2>5. s \in Subnets /\ TypeOK
    BY ResourceIsTyped DEF PublicSubnets, ExposureInv, TypeOK
  <2>6. /\ OpenPorts(r) \subseteq Ranges /\ a.ingress \subseteq Ranges /\ a.egress \subseteq Ranges
    BY <2>4, <2>5, OpenPortsAreRanges, AclIsTyped DEF TypeOK
  <2>7. packet \in Packets /\ Covers(range, packet)
    BY DEF Open
  <2>8. packet \in Open(OpenPorts(r)) /\ packet \in Open(a.ingress)
    <3>1. packet \in Open(Intersection(OpenPorts(r), a.ingress))
      BY <2>4, <2>7 DEF Open
    <3> QED
      BY <3>1, <2>6, OpenOfIntersection
  <2>9. Takes(r, packet)
    BY <2>2, <2>5, <2>7, <2>8, OpenPortsAreTaken
  <2>10. Intersection(OpenPorts(r), a.ingress) \in SUBSET Ranges
    BY <2>6, IntersectionIsRanges
  <2>11. Answers(a, packet)
    BY <2>4, <2>6, <2>7, <2>10, ResponsesPass
  <2> QED
    BY <2>8, <2>9, <2>11 DEF Passes
<1> QED
  BY <1>1, ExposureInvariant, PTL

\* A complete path through an ACL that lets every answer out always gives a definite
\* edge, and it is reported for sure unless the scan could not read the resource.
THEOREM OpenPathIsDefiniteCorrect == Spec => []OpenPathIsDefinite
<1>1. ExposureInv => OpenPathIsDefinite
  <2> SUFFICES ASSUME ExposureInv, pc = "done",
                      NEW r \in Resources, NEW s \in Subnets, NEW packet \in Packets,
                      Takes(r, packet), s \in PublicSubnets(r),
                      NEW a \in subnet[s].acls, packet \in Open(a.ingress),
                      a.egress # None, PortRange("*", 0, MaxPort) \in a.egress
               PROVE  Exposed(r, packet, "definite")
    BY DEF OpenPathIsDefinite
  <2>1. TypeOK /\ resource[r].public
    BY DEF ExposureInv, Takes
  <2>2. OpenPorts(r) \subseteq Ranges /\ a.ingress \subseteq Ranges
    BY <2>1, OpenPortsAreRanges, AclIsTyped DEF TypeOK
  <2>3. packet \in Open(OpenPorts(r))
    BY <2>1, OpenPortsAreTaken
  <2>4. packet \in Open(Intersection(OpenPorts(r), a.ingress))
    BY <2>2, <2>3, OpenOfIntersection
  <2>5. AllowsResponses(Intersection(OpenPorts(r), a.ingress), a.egress)
    <3>1. PortRange("*", 0, MaxPort).from <= Ephemeral
      BY ExposureAssumption DEF ExposureAssumption, PortRange, Ports
    <3> QED
      BY <3>1 DEF AllowsResponses, PortRange
  <2>6. packet \in Open(DefiniteVia(r, s))
    BY <2>4, <2>5 DEF DefiniteVia, Open
  <2>7. packet \in Open(AllDefinite(r))
    BY <2>6 DEF AllDefinite, Open
  <2>8. AllDefinite(r) # {} /\ OpenPorts(r) # {}
    BY <2>3, <2>7 DEF Open
  <2>9. ExposureOf(r) = [ports |-> AllDefinite(r), confidence |-> "definite"]
    BY <2>1, <2>8 DEF ExposureOf
  <2>10. exposed[r] = ExposureOf(r)
    BY ExposedWhenDone
  <2>11. exposed[r] # None
    <3>1. PublicSubnets(r) \subseteq Subnets
      BY <2>1, ResourceIsTyped DEF PublicSubnets, TypeOK
    <3>2. AllDefinite(r) \subseteq Ranges
      BY <2>1, <3>1, ViaIsRanges DEF AllDefinite
    <3> QED
      BY <2>8, <2>9, <2>10, <3>2, ExposureAssumption DEF ExposureAssumption, Exposures
  <2> QED
    BY <2>7, <2>9, <2>10, <2>11, ReportedIsExposed DEF Exposed
<1> QED
  BY <1>1, ExposureInvariant, PTL

\* Where no ACL of a resource's subnets is known, all it takes is possibly reachable, and
\* reported so unless the scan could not read the resource; nothing is for sure.
THEOREM UnknownIsPossibleCorrect == Spec => []UnknownIsPossible
<1>1. ExposureInv => UnknownIsPossible
  <2> SUFFICES ASSUME ExposureInv, pc = "done", NEW r \in Resources, NEW packet \in Packets,
                      Takes(r, packet), PublicSubnets(r) # {},
                      \A s \in PublicSubnets(r) : subnet[s].acls = {}
               PROVE  Exposed(r, packet, "possible") /\ ~ Definite(r)
    BY DEF UnknownIsPossible
  <2>1. TypeOK /\ resource[r].public
    BY DEF ExposureInv, Takes
  <2>2. packet \in Open(OpenPorts(r)) /\ OpenPorts(r) # {}
    BY <2>1, OpenPortsAreTaken DEF Open
  <2>3. AllDefinite(r) = {}
    BY DEF AllDefinite, DefiniteVia
  <2>4. OpenPorts(r) \subseteq AllPossible(r)
    BY DEF AllPossible, PossibleVia
  <2>5. packet \in Open(AllPossible(r)) /\ AllPossible(r) # {}
    BY <2>2, <2>4 DEF Open
  <2>6. ExposureOf(r) = [ports |-> AllPossible(r), confidence |-> "possible"]
    BY <2>1, <2>2, <2>3, <2>5 DEF ExposureOf
  <2>7. exposed[r] = ExposureOf(r)
    BY ExposedWhenDone
  <2>8. AllPossible(r) \subseteq Ranges
    <3>1. PublicSubnets(r) \subseteq Subnets
      BY <2>1, ResourceIsTyped DEF PublicSubnets, TypeOK
    <3> QED
      BY <2>1, <3>1, ViaIsRanges DEF AllPossible
  <2>9. exposed[r] # None
    BY <2>5, <2>6, <2>7, <2>8, ExposureAssumption DEF ExposureAssumption, Exposures
  <2> QED
    BY <2>5, <2>6, <2>7, <2>9, ReportedIsExposed DEF Exposed, Definite
<1> QED
  BY <1>1, ExposureInvariant, PTL

-----------------------------------------------------------------------------
(* AclPorts *)

\* A set of numbers that is not empty has a least member.
LEMMA HasLeast ==
  ASSUME NEW S \in SUBSET Nat, S # {}
  PROVE  \E k \in S : \A m \in S : k <= m
<1> DEFINE T == {0..k : k \in S}
           R == StrictSubsetOrdering(Nat)
<1>1. T \subseteq FiniteSubsetsOf(Nat) /\ T # {}
  <2>1. \A k \in S : IsFiniteSet(0..k) /\ 0..k \in SUBSET Nat
    BY FS_Interval
  <2> QED
    BY <2>1 DEF FiniteSubsetsOf
<1>2. IsWellFoundedOn(R, FiniteSubsetsOf(Nat))
  BY FS_StrictSubsetOrderingWellFounded
<1>3. PICK x \in T : \A y \in T : <<y, x>> \notin R
  <2> HIDE DEF T, R
  <2> QED
    BY <1>1, <1>2, WFMin
<1>4. PICK k \in S : x = 0..k
  OBVIOUS
<1>5. ASSUME NEW m \in S, m < k
      PROVE  FALSE
  <2>1. 0..m \in T
    OBVIOUS
  <2>2. 0..m \in SUBSET Nat /\ 0..k \in SUBSET Nat /\ 0..m \subseteq 0..k
    BY <1>5
  <2>3. k \in 0..k /\ k \notin 0..m
    BY <1>5
  <2>4. <<0..m, 0..k>> \in R
    BY <2>2, <2>3 DEF StrictSubsetOrdering
  <2> QED
    BY <1>3, <1>4, <2>1, <2>4
<1> QED
  BY <1>5

\* What is left of a range keeps its protocol and every port that is not denied;
\* of one protocol it keeps no other.
LEMMA SubtractedIs ==
  ASSUME NEW a \in Ranges, NEW deny \in Ranges
  PROVE  /\ Acls!Subtracted(a, deny) \subseteq Ranges
         /\ \A r \in Acls!Subtracted(a, deny) : r.protocol = a.protocol
         /\ \A packet \in Packets :
              /\ Covers(a, packet) /\ ~ Covers(deny, packet) => packet \in Open(Acls!Subtracted(a, deny))
              /\ packet \in Open(Acls!Subtracted(a, deny)) =>
                   Covers(a, packet) /\ (a.protocol # "*" => ~ Covers(deny, packet))
<1> DEFINE below == PortRange(a.protocol, a.from, deny.from - 1)
           above == PortRange(a.protocol, deny.to + 1, a.to)
<1>1. \A packet \in Packets : packet[1] \in Protocols /\ packet[1] # "*" /\ packet[2] \in 0..MaxPort
  BY PortAssumption DEF Packets, Ports
<1>2. CASE Acls!Disjoint(a, deny)
  <2>1. Acls!Subtracted(a, deny) = {a}
    BY <1>2 DEF Acls!Subtracted
  <2>2. ASSUME NEW packet \in Packets, Covers(a, packet), Covers(deny, packet)
        PROVE  a.protocol = "*"
    BY <1>1, <1>2, <2>2, RangeIsTyped DEF Acls!Disjoint, Covers
  <2> QED
    BY <2>1, <2>2 DEF Open
<1>3. CASE ~ Acls!Disjoint(a, deny)
  <2>1. Acls!Subtracted(a, deny) = {r \in {below, above} : r.from <= r.to}
    BY <1>3 DEF Acls!Subtracted, Acls!PortRange, PortRange
  <2>2. deny.protocol \in {"*", a.protocol} /\ a.from <= deny.to /\ deny.from <= a.to
    BY <1>3, RangeIsTyped DEF Acls!Disjoint
  <2>3. /\ below.from <= below.to => below \in Ranges
        /\ above.from <= above.to => above \in Ranges
    <3>1. /\ below.from = a.from /\ below.to = deny.from - 1
          /\ above.from = deny.to + 1 /\ above.to = a.to
      BY DEF PortRange
    <3>2. CASE a.protocol = "*"
      <4>1. ~ (below.from <= below.to) /\ ~ (above.from <= above.to)
        BY <2>2, <3>1, <3>2, RangeIsTyped, PortAssumption
      <4> QED
        BY <4>1
    <3>3. CASE a.protocol # "*"
      <4>1. a.protocol \in Protocols /\ a.from \in Int /\ a.to \in Int /\ deny.from \in Int /\ deny.to \in Int
            /\ 0 <= a.from /\ a.to <= MaxPort /\ 0 <= deny.from /\ deny.to <= MaxPort
        BY <3>3, RangeIsTyped
      <4>2. MaxPort \in Int
        BY PortAssumption
      <4>3. a.from <= deny.from - 1 => below \in Ranges
        BY <2>2, <3>3, <4>1, <4>2, IsRange
      <4>4. deny.to + 1 <= a.to => above \in Ranges
        BY <2>2, <3>3, <4>1, <4>2, IsRange
      <4> QED
        BY <3>1, <4>3, <4>4
    <3> QED
      BY <3>2, <3>3
  <2>4. below.protocol = a.protocol /\ above.protocol = a.protocol
    BY DEF PortRange
  <2>5. ASSUME NEW packet \in Packets
        PROVE  /\ Covers(a, packet) /\ ~ Covers(deny, packet) =>
                    \E r \in {below, above} : r.from <= r.to /\ Covers(r, packet)
               /\ \A r \in {below, above} : Covers(r, packet) => Covers(a, packet) /\ ~ Covers(deny, packet)
    BY <1>1, <2>2, RangeIsTyped DEF Covers, PortRange
  <2> HIDE DEF below, above
  <2> QED
    BY <2>1, <2>3, <2>4, <2>5 DEF Open
<1> QED
  BY <1>2, <1>3

\* The port ranges of the component are those of PortRanges.
LEMMA SameRanges ==
  /\ Acls!Ranges = Ranges /\ Acls!Packets = Packets
  /\ \A ranges : Acls!Open(ranges) = Open(ranges)
  /\ \A range, packet : Acls!Covers(range, packet) <=> Covers(range, packet)
BY DEF Acls!Ranges, Ranges, Acls!Ports, Ports, Acls!Packets, Packets, Acls!Open, Open, Acls!Covers, Covers

\* A deny before entry m closes the packet.
Closed(packet, m) == \E k \in 1..(m - 1) : Acls!Selected(k, FALSE) /\ Covers(entries[k].range, packet)

\* Entry k opens the packet.
Opens(k, packet) == Acls!Selected(k, TRUE) /\ Covers(entries[k].range, packet) /\ ~ Closed(packet, k)

AclTypes ==
  /\ entries \in Seq(EntryOptions) /\ \A k \in 1..Len(entries) : entries[k] \in Acls!Entries
  /\ i \in 1..(Len(entries) + 1) /\ j \in 0..i
  /\ segments \subseteq Ranges /\ allowed \subseteq Ranges
  /\ done \in BOOLEAN

\* What is left of the range of the entry in hand is what the denies so far leave open.
SegmentsInv ==
  j # 0 =>
    /\ i <= Len(entries) /\ Acls!Selected(i, TRUE)
    /\ \A r \in segments : r.protocol = entries[i].range.protocol
    /\ \A packet \in Packets :
         /\ Covers(entries[i].range, packet) /\ ~ Closed(packet, j) => packet \in Open(segments)
         /\ packet \in Open(segments) =>
              /\ Covers(entries[i].range, packet)
              /\ entries[i].range.protocol # "*" => ~ Closed(packet, j)

\* What is found open is what the entries passed open.
AllowedInv ==
  \A packet \in Packets :
    /\ \A r \in allowed : r.protocol # "*" /\ Covers(r, packet) => \E k \in 1..(i - 1) : Opens(k, packet)
    /\ \A k \in 1..(i - 1) : Opens(k, packet) => packet \in Open(allowed)

AclInv == AclTypes /\ SegmentsInv /\ AllowedInv /\ (done => i = Len(entries) + 1)

LEMMA EntryIsTyped ==
  ASSUME AclTypes, NEW k \in 1..Len(entries)
  PROVE  entries[k].range \in Ranges /\ entries[k].allow \in BOOLEAN
BY SameRanges DEF AclTypes, Acls!Entries

LEMMA AclInit == Acls!Init => AclInv
<1> SUFFICES ASSUME Acls!Init PROVE AclInv
  OBVIOUS
<1>1. PICK n \in 0..MaxEntries : entries \in [1..n -> EntryOptions]
  BY DEF Acls!Init
<1>2. n \in Nat /\ EntryOptions \subseteq Acls!Entries
  BY NetworkAssumption DEF Acls!EntryAssumption
<1>3. entries \in Seq(EntryOptions) /\ Len(entries) = n
  BY <1>1, <1>2
<1>4. \A k \in 1..Len(entries) : entries[k] \in Acls!Entries
  BY <1>1, <1>2, <1>3
<1>5. i = 1 /\ j = 0 /\ segments = {} /\ allowed = {} /\ done = FALSE
  BY DEF Acls!Init
<1>6. AclTypes
  <2>1. i \in 1..(Len(entries) + 1) /\ j \in 0..i
    BY <1>2, <1>3, <1>5
  <2>2. segments \subseteq Ranges /\ allowed \subseteq Ranges /\ done \in BOOLEAN
    BY <1>5
  <2> QED
    BY <1>3, <1>4, <2>1, <2>2 DEF AclTypes
<1> QED
  BY <1>5, <1>6 DEF AclInv, SegmentsInv, AllowedInv

\* The entries and the direction do not change.
LEMMA EntriesStay ==
  ASSUME UNCHANGED <<entries, egress>>
  PROVE  /\ \A k, allow : Acls!Selected(k, allow)' <=> Acls!Selected(k, allow)
         /\ \A packet, m : Closed(packet, m)' <=> Closed(packet, m)
         /\ \A k, packet : Opens(k, packet)' <=> Opens(k, packet)
BY DEF Acls!Selected, Closed, Opens

LEMMA NextClosed ==
  ASSUME NEW packet, NEW m \in Nat \ {0}
  PROVE  Closed(packet, m + 1) <=>
           Closed(packet, m) \/ (Acls!Selected(m, FALSE) /\ Covers(entries[m].range, packet))
<1>1. \A k : k \in 1..((m + 1) - 1) <=> k \in 1..(m - 1) \/ k = m
  OBVIOUS
<1> QED
  BY <1>1 DEF Closed

\* The entry in hand and the one to subtract are positions.
LEMMA PositionsAreTyped ==
  ASSUME AclTypes
  PROVE  /\ Len(entries) \in Nat /\ i \in Nat /\ 1 <= i /\ i <= Len(entries) + 1
         /\ j \in Nat /\ j <= i
BY DEF AclTypes

LEMMA SkipEntryStep == ASSUME AclInv, Acls!SkipEntry PROVE AclInv'
<1>1. /\ UNCHANGED <<entries, egress>> /\ UNCHANGED <<j, segments, allowed, done>>
      /\ i <= Len(entries) /\ j = 0 /\ i' = i + 1 /\ ~ Acls!Selected(i, TRUE)
  BY DEF Acls!SkipEntry
<1>2. AclTypes'
  BY <1>1 DEF AclInv, AclTypes
<1>3. SegmentsInv'
  BY <1>1 DEF SegmentsInv
<1>4. AllowedInv'
  <2>1. \A k : k \in 1..((i + 1) - 1) <=> k \in 1..(i - 1) \/ k = i
    BY PositionsAreTyped DEF AclInv
  <2>2. \A packet : ~ Opens(i, packet)
    BY <1>1 DEF Opens
  <2>3. \A k \in 1..((i + 1) - 1) : \A packet : Opens(k, packet) => k \in 1..(i - 1)
    BY <2>1, <2>2
  <2>4. 1..(i - 1) \subseteq 1..((i + 1) - 1)
    BY <2>1
  <2>5. 1..(i' - 1) = 1..((i + 1) - 1)
    BY <1>1
  <2> QED
    BY <1>1, <2>3, <2>4, <2>5, EntriesStay DEF AclInv, AllowedInv
<1> QED
  BY <1>1, <1>2, <1>3, <1>4 DEF AclInv, AclTypes

LEMMA StartEntryStep == ASSUME AclInv, Acls!StartEntry PROVE AclInv'
<1>1. /\ UNCHANGED <<entries, egress>> /\ UNCHANGED <<i, allowed, done>>
      /\ i <= Len(entries) /\ Acls!Selected(i, TRUE) /\ j = 0 /\ j' = 1 /\ segments' = {entries[i].range}
  BY DEF Acls!StartEntry
<1>2. entries[i].range \in Ranges
  BY <1>1, EntryIsTyped DEF AclInv, AclTypes
<1>3. AclTypes'
  BY <1>1, <1>2 DEF AclInv, AclTypes
<1>4. \A packet : ~ Closed(packet, 1)
  BY DEF Closed
<1>5. SegmentsInv'
  BY <1>1, <1>4, EntriesStay DEF SegmentsInv, Open
<1>6. AllowedInv'
  BY <1>1, EntriesStay DEF AclInv, AllowedInv
<1> QED
  BY <1>1, <1>3, <1>5, <1>6 DEF AclInv, AclTypes

LEMMA SkipEarlierStep == ASSUME AclInv, Acls!SkipEarlier PROVE AclInv'
<1>1. /\ UNCHANGED <<entries, egress>> /\ UNCHANGED <<i, segments, allowed, done>>
      /\ j \in 1..(i - 1) /\ ~ Acls!Selected(j, FALSE) /\ j' = j + 1
  BY DEF Acls!SkipEarlier
<1>2. AclTypes'
  BY <1>1 DEF AclInv, AclTypes
<1>3. j \in Nat \ {0} /\ j + 1 # 0
  BY <1>1
<1>4. \A packet : Closed(packet, j + 1) <=> Closed(packet, j)
  BY <1>1, <1>3, NextClosed
<1>5. SegmentsInv'
  <2>1. SegmentsInv /\ j # 0
    BY <1>3 DEF AclInv
  <2>2. /\ Acls!Selected(i, TRUE)' <=> Acls!Selected(i, TRUE)
        /\ \A packet : Closed(packet, j)' <=> Closed(packet, j)
    BY <1>1, <1>4, EntriesStay
  <2> QED
    BY <1>1, <2>1, <2>2 DEF SegmentsInv
<1>6. AllowedInv'
  BY <1>1, EntriesStay DEF AclInv, AllowedInv
<1> QED
  BY <1>1, <1>2, <1>5, <1>6 DEF AclInv

LEMMA SubtractStep == ASSUME AclInv, Acls!Subtract PROVE AclInv'
<1>1. /\ UNCHANGED <<entries, egress>> /\ UNCHANGED <<i, allowed, done>>
      /\ j \in 1..(i - 1) /\ Acls!Selected(j, FALSE) /\ j' = j + 1
      /\ segments' = UNION {Acls!Subtracted(a, entries[j].range) : a \in segments}
  BY DEF Acls!Subtract
<1> DEFINE deny == entries[j].range
<1>2. deny \in Ranges /\ segments \subseteq Ranges
  BY <1>1, EntryIsTyped DEF AclInv, AclTypes
<1> HIDE DEF deny
<1>3. segments' = UNION {Acls!Subtracted(a, deny) : a \in segments}
  BY <1>1 DEF deny
<1>4. /\ segments' \subseteq Ranges
      /\ \A r \in segments' : \E a \in segments : r.protocol = a.protocol
  BY <1>2, <1>3, SubtractedIs
<1>5. AclTypes'
  BY <1>1, <1>4 DEF AclInv, AclTypes
<1>6. \A packet : Closed(packet, j + 1) <=> Closed(packet, j) \/ Covers(deny, packet)
  <2>1. j \in Nat \ {0}
    BY <1>1
  <2> QED
    BY <1>1, <2>1, NextClosed DEF deny
<1>7. ASSUME NEW packet \in Packets
      PROVE  /\ packet \in Open(segments) /\ ~ Covers(deny, packet) => packet \in Open(segments')
             /\ packet \in Open(segments') =>
                  \E a \in segments : Covers(a, packet) /\ (a.protocol # "*" => ~ Covers(deny, packet))
  <2>1. \A a \in segments :
          /\ Covers(a, packet) /\ ~ Covers(deny, packet) => packet \in Open(Acls!Subtracted(a, deny))
          /\ packet \in Open(Acls!Subtracted(a, deny)) =>
               Covers(a, packet) /\ (a.protocol # "*" => ~ Covers(deny, packet))
    BY <1>2, SubtractedIs
  <2>2. packet \in Open(segments') <=> \E a \in segments : packet \in Open(Acls!Subtracted(a, deny))
    BY <1>3 DEF Open
  <2>3. packet \in Open(segments) => \E a \in segments : Covers(a, packet)
    BY DEF Open
  <2> QED
    BY <2>1, <2>2, <2>3
<1>8. SegmentsInv'
  <2>1. /\ i <= Len(entries) /\ Acls!Selected(i, TRUE)
        /\ \A r \in segments : r.protocol = entries[i].range.protocol
        /\ \A packet \in Packets :
             /\ Covers(entries[i].range, packet) /\ ~ Closed(packet, j) => packet \in Open(segments)
             /\ packet \in Open(segments) =>
                  /\ Covers(entries[i].range, packet)
                  /\ entries[i].range.protocol # "*" => ~ Closed(packet, j)
    <3>1. j # 0
      BY <1>1
    <3> QED
      BY <3>1 DEF AclInv, SegmentsInv
  <2>2. \A r \in segments' : r.protocol = entries[i].range.protocol
    BY <1>4, <2>1
  <2>3. ASSUME NEW packet \in Packets
        PROVE  /\ Covers(entries[i].range, packet) /\ ~ Closed(packet, j + 1) => packet \in Open(segments')
               /\ packet \in Open(segments') =>
                    /\ Covers(entries[i].range, packet)
                    /\ entries[i].range.protocol # "*" => ~ Closed(packet, j + 1)
    <3>1. \A a \in segments : Covers(a, packet) => packet \in Open(segments)
      BY DEF Open
    <3> QED
      BY <1>6, <1>7, <2>1, <3>1
  <2> QED
    BY <1>1, <2>1, <2>2, <2>3, EntriesStay DEF SegmentsInv
<1>9. AllowedInv'
  BY <1>1, EntriesStay DEF AclInv, AllowedInv
<1> QED
  BY <1>1, <1>5, <1>8, <1>9 DEF AclInv

LEMMA EndEntryStep == ASSUME AclInv, Acls!EndEntry PROVE AclInv'
<1>1. /\ UNCHANGED <<entries, egress, done>> /\ j = i /\ allowed' = allowed \cup segments
      /\ i' = i + 1 /\ j' = 0 /\ segments' = {}
  BY DEF Acls!EndEntry
<1>2. Len(entries) \in Nat /\ i \in Nat /\ 1 <= i /\ j # 0
  BY <1>1, PositionsAreTyped DEF AclInv
<1>3. SegmentsInv
  BY DEF AclInv
<1>4. /\ i <= Len(entries) /\ Acls!Selected(i, TRUE)
      /\ \A r \in segments : r.protocol = entries[i].range.protocol
  BY <1>2, <1>3 DEF SegmentsInv
<1>5. AclTypes'
  BY <1>1, <1>2, <1>4 DEF AclInv, AclTypes
<1>6. ASSUME NEW packet \in Packets
      PROVE  /\ Covers(entries[i].range, packet) /\ ~ Closed(packet, i) => packet \in Open(segments)
             /\ packet \in Open(segments) =>
                  /\ Covers(entries[i].range, packet)
                  /\ entries[i].range.protocol # "*" => ~ Closed(packet, i)
  BY <1>1, <1>2, <1>3 DEF SegmentsInv
<1>7. ASSUME NEW packet \in Packets
      PROVE  /\ Opens(i, packet) => packet \in Open(segments)
             /\ \A r \in segments : r.protocol # "*" /\ Covers(r, packet) => Opens(i, packet)
  <2>1. \A r \in segments : Covers(r, packet) => packet \in Open(segments)
    BY DEF Open
  <2> QED
    BY <1>4, <1>6, <2>1 DEF Opens
<1>8. AllowedInv'
  <2>1. ASSUME NEW packet \in Packets
        PROVE  /\ \A r \in allowed \cup segments : r.protocol # "*" /\ Covers(r, packet) =>
                    \E k \in 1..i : Opens(k, packet)
               /\ \A k \in 1..i : Opens(k, packet) => packet \in Open(allowed \cup segments)
    <3>1. Open(allowed \cup segments) = Open(allowed) \cup Open(segments)
      BY DEF Open
    <3>2. \A k \in 1..i : k \in 1..(i - 1) \/ k = i
      BY <1>2
    <3>3. i \in 1..i /\ 1..(i - 1) \subseteq 1..i
      BY <1>2
    <3> QED
      BY <1>7, <3>1, <3>2, <3>3 DEF AclInv, AllowedInv
  <2>2. 1..(i' - 1) = 1..i
    BY <1>1, <1>2
  <2>3. \A k, packet : Opens(k, packet)' <=> Opens(k, packet)
    BY <1>1, EntriesStay
  <2> QED
    BY <1>1, <2>1, <2>2, <2>3 DEF AllowedInv
<1>9. done' => i' = Len(entries') + 1
  BY <1>1, <1>2, <1>4 DEF AclInv
<1> QED
  BY <1>1, <1>5, <1>8, <1>9 DEF AclInv, SegmentsInv

LEMMA EndStep == ASSUME AclInv, Acls!End PROVE AclInv'
<1>1. UNCHANGED <<entries, egress>> /\ UNCHANGED <<i, j, segments, allowed>> /\ i > Len(entries) /\ done' = TRUE
  BY DEF Acls!End
<1>2. i = Len(entries) + 1
  BY <1>1, PositionsAreTyped DEF AclInv
<1>3. AclTypes'
  BY <1>1 DEF AclInv, AclTypes
<1>4. SegmentsInv' /\ AllowedInv'
  BY <1>1, EntriesStay DEF AclInv, SegmentsInv, AllowedInv
<1> QED
  BY <1>1, <1>2, <1>3, <1>4 DEF AclInv

LEMMA AclInvariant == Acls!Spec => []AclInv
<1>1. AclInv /\ [Acls!Next]_(Acls!vars) => AclInv'
  <2> SUFFICES ASSUME AclInv, [Acls!Next]_(Acls!vars) PROVE AclInv'
    OBVIOUS
  <2>1. CASE UNCHANGED Acls!vars
    BY <2>1, EntriesStay DEF Acls!vars, AclInv, AclTypes, SegmentsInv, AllowedInv
  <2> QED
    BY <2>1, SkipEntryStep, StartEntryStep, SkipEarlierStep, SubtractStep, EndEntryStep, EndStep DEF Acls!Next
<1> QED
  BY <1>1, AclInit, PTL DEF Acls!Spec

\* Of what openACLPorts says, for every sequence of entries: ports of one protocol
\* are open when the first entry that matches lets them in, and those that the
\* entries of an ACL of one address family let in are open.
THEOREM FirstMatchDecidesCorrect == Acls!Spec => []FirstMatchDecides
<1>1. ASSUME AclInv, done, NEW packet \in Packets
      PROVE  /\ \A r \in allowed : r.protocol # "*" /\ Covers(r, packet) => \E k \in 1..Len(entries) : Opens(k, packet)
             /\ \A k \in 1..Len(entries) : Opens(k, packet) => packet \in Open(allowed)
  BY <1>1 DEF AclInv, AclTypes, AllowedInv
<1>2. AclInv => Acls!OpenRangesAreAllowed
  <2> SUFFICES ASSUME AclInv, done, NEW packet \in Packets,
                      NEW r \in allowed, r.protocol # "*", Covers(r, packet)
               PROVE  \E family \in Families : Acls!Lets(family, packet)
    BY SameRanges DEF Acls!OpenRangesAreAllowed, Open
  <2>1. PICK k \in 1..Len(entries) : Opens(k, packet)
    BY <1>1
  <2> DEFINE family == entries[k].family
             deciding == Acls!Deciding(family, packet)
  <2>2. \A m : m \in deciding <=>
           /\ m \in 1..Len(entries) /\ entries[m].egress = egress /\ entries[m].family = family
           /\ entries[m].world /\ Covers(entries[m].range, packet)
    BY SameRanges DEF Acls!Deciding, AclInv, AclTypes
  <2>3. k \in deciding
    BY <2>1, <2>2 DEF Opens, Acls!Selected
  <2>4. PICK m \in deciding : \A l \in deciding : m <= l
    <3>1. deciding \in SUBSET Nat
      BY <2>2
    <3> HIDE DEF deciding
    <3> QED
      BY <2>3, <3>1, HasLeast
  <2>5. entries[m].allow
    <3> SUFFICES ASSUME ~ entries[m].allow PROVE FALSE
      OBVIOUS
    <3>1. m \in 1..(k - 1) /\ Acls!Selected(m, FALSE) /\ Covers(entries[m].range, packet)
      BY <2>1, <2>2, <2>3, <2>4, EntryIsTyped DEF Opens, Acls!Selected, AclInv
    <3> QED
      BY <2>1, <3>1 DEF Opens, Closed
  <2>6. family \in Families
    BY DEF AclInv, AclTypes, Acls!Entries
  <2> QED
    BY <2>4, <2>5, <2>6 DEF Acls!Lets
<1>3. AclInv => Acls!AllowedPortsAreOpen
  <2> SUFFICES ASSUME AclInv, done, NEW family \in Families, NEW packet \in Packets,
                      \A k \in DOMAIN entries : entries[k].family = family,
                      Acls!Lets(family, packet)
               PROVE  packet \in Open(allowed)
    BY SameRanges DEF Acls!AllowedPortsAreOpen
  <2>1. \A m : m \in Acls!Deciding(family, packet) <=>
           /\ m \in 1..Len(entries) /\ entries[m].egress = egress /\ entries[m].family = family
           /\ entries[m].world /\ Covers(entries[m].range, packet)
    BY SameRanges DEF Acls!Deciding, AclInv, AclTypes
  <2>2. PICK k \in Acls!Deciding(family, packet) :
           entries[k].allow /\ \A m \in Acls!Deciding(family, packet) : k <= m
    BY DEF Acls!Lets
  <2>3. ~ Closed(packet, k)
    <3> SUFFICES ASSUME NEW m \in 1..(k - 1), Acls!Selected(m, FALSE), Covers(entries[m].range, packet)
                 PROVE  FALSE
      BY DEF Closed
    <3>1. m \in 1..Len(entries) /\ k \in 1..Len(entries) /\ ~ (k <= m)
      BY <2>1, <2>2 DEF AclInv, AclTypes
    <3>2. m \in Acls!Deciding(family, packet)
      BY <2>1, <3>1 DEF Acls!Selected, AclInv, AclTypes
    <3> QED
      BY <2>2, <3>1, <3>2
  <2>4. k \in 1..Len(entries) /\ Opens(k, packet)
    BY <2>1, <2>2, <2>3, EntryIsTyped DEF Opens, Acls!Selected, AclInv
  <2> QED
    BY <1>1, <2>4
<1> QED
  BY <1>2, <1>3, AclInvariant, PTL DEF FirstMatchDecides, Acls!FirstMatchDecides

-----------------------------------------------------------------------------
(* ResourcePolicies *)

\* Statement k of the policy of r lets anyone in; it names the other account a.
Counts(r, k) == holder[r].policy[k].allow /\ holder[r].policy[k].named
LetsAnyoneIn(r, k) == Counts(r, k) /\ Policies!ToAnyone(holder[r].policy[k])
LetsOnCondition(r, k) == LetsAnyoneIn(r, k) /\ holder[r].policy[k].conditional
Names(r, k, a) == Counts(r, k) /\ a \in Policies!Others(holder[r].policy[k])

\* Which requests the resource in hand is asked, and when it is a node.
RequestInv ==
  /\ \A r \in Holders : holder[r] \in Policies!ResourceType
  /\ waiting \subseteq Holders
  /\ step \in {"list", "describe", "block", "policy", "analyze"}
  /\ step # "list" => asked \in Holders /\ asked \notin waiting
  /\ step = "describe" => holder[asked].service \in {"kms", "sqs", "sns", "ecs"}
  /\ step = "block" => holder[asked].service = "s3"
  /\ step \in {"block", "policy", "analyze"} => holder[asked].service # "ecs" /\ asked \in nodes

\* AnalyzeResourceExposure found what the statements read so far say.
AnalysisInv ==
  /\ open \in BOOLEAN /\ gated \in BOOLEAN
  /\ step # "analyze" => at = 1 /\ ~ open /\ ~ gated /\ external = {}
  /\ step = "analyze" =>
       /\ at \in Nat \ {0} /\ at <= Len(holder[asked].policy) + 1
       /\ open <=> \E k \in 1..(at - 1) : LetsAnyoneIn(asked, k)
       /\ gated <=> \E k \in 1..(at - 1) : LetsOnCondition(asked, k)
       /\ \A a : a \in external <=> \E k \in 1..(at - 1) : Names(asked, k, a)

\* The block of a bucket is known unless it could not be asked for.
BlockInv ==
  /\ blocks \in BOOLEAN
  /\ blocks => step \in {"policy", "analyze"} /\ Policies!Blocked(asked)
  /\ step \in {"policy", "analyze"} /\ Policies!Blocked(asked) => blocks \/ <<asked, "block">> \in failed

\* What is recorded of a resource is so, and of one that was dealt with in full it is all.
OpenIsGranted(r) ==
  \A e \in Policies!OpenTo(r) :
    /\ Policies!Public(r) # {}
    /\ edges[e] = "definite" <=> \A st \in Policies!Public(r) : ~ st.conditional
    /\ Policies!Blocked(r) => <<r, "block">> \in failed
Others(r) == UNION {Policies!Others(st) : st \in Policies!Grants(r)}
RecordedInFull(r) ==
  /\ r \in nodes
  /\ holder[r].service # "ecs" =>
       /\ Policies!OpenTo(r) # {} <=> Policies!Public(r) # {} /\ ~ Policies!Blocked(r)
       /\ Policies!SharedWith(r) = Others(r)
DealtWith(r) ==
  /\ r \notin waiting /\ (step # "list" => r # asked)
  /\ holder[r].service \notin warned /\ \A q \in failed : q[1] # r

GrantsInv == \A r \in Holders : OpenIsGranted(r) /\ Policies!SharedWith(r) \subseteq Others(r)
DealtInv == \A r \in Holders : DealtWith(r) => RecordedInFull(r)

PolicyInv == RequestInv /\ AnalysisInv /\ BlockInv /\ GrantsInv /\ DealtInv

\* The policy of a resource, by the statements' places in it.
LEMMA PolicyIs ==
  ASSUME RequestInv, NEW r \in Holders
  PROVE  /\ Len(holder[r].policy) \in Nat /\ DOMAIN holder[r].policy = 1..Len(holder[r].policy)
         /\ Policies!Public(r) # {} <=> \E k \in 1..Len(holder[r].policy) : LetsAnyoneIn(r, k)
         /\ (\A st \in Policies!Public(r) : ~ st.conditional) <=>
              ~ \E k \in 1..Len(holder[r].policy) : LetsOnCondition(r, k)
         /\ \A a : a \in Others(r) <=> \E k \in 1..Len(holder[r].policy) : Names(r, k, a)
<1> DEFINE P == holder[r].policy
<1>1. PICK S : P \in Seq(S)
  BY DEF RequestInv, Policies!ResourceType
<1>2. Len(P) \in Nat /\ DOMAIN P = 1..Len(P)
  BY <1>1
<1>3. \A st : st \in Policies!Grants(r) <=> \E k \in 1..Len(P) : st = P[k] /\ Counts(r, k)
  BY <1>2 DEF Policies!Grants, Counts
<1>4. \A st : st \in Policies!Public(r) <=> \E k \in 1..Len(P) : st = P[k] /\ LetsAnyoneIn(r, k)
  BY <1>3 DEF Policies!Public, LetsAnyoneIn
<1>5. \A a : a \in Others(r) <=> \E k \in 1..Len(P) : Names(r, k, a)
  BY <1>3 DEF Others, Names
<1>6. (\A st \in Policies!Public(r) : ~ st.conditional) <=> ~ \E k \in 1..Len(P) : LetsOnCondition(r, k)
  BY <1>4 DEF LetsOnCondition
<1> QED
  BY <1>2, <1>4, <1>5, <1>6

\* The policies do not change.
LEMMA PoliciesStay ==
  ASSUME UNCHANGED holder
  PROVE  /\ \A r, k : LetsAnyoneIn(r, k)' <=> LetsAnyoneIn(r, k)
         /\ \A r, k : LetsOnCondition(r, k)' <=> LetsOnCondition(r, k)
         /\ \A r, k, a : Names(r, k, a)' <=> Names(r, k, a)
         /\ \A r : /\ Policies!Public(r)' = Policies!Public(r) /\ Others(r)' = Others(r)
                   /\ Policies!Blocked(r)' <=> Policies!Blocked(r)
BY DEF LetsAnyoneIn, LetsOnCondition, Names, Counts, Policies!Public, Policies!Grants, Others, Policies!Blocked

\* Nothing is recorded of who may use a resource but by ResourcePolicyEdges.
SameGrants ==
  /\ \A r : Policies!OpenTo(r)' = Policies!OpenTo(r) /\ Policies!SharedWith(r)' = Policies!SharedWith(r)
  /\ \A r : \A e \in Policies!OpenTo(r) : edges'[e] = edges[e]

LEMMA EdgesStay == ASSUME UNCHANGED edges PROVE SameGrants
BY DEF SameGrants, Policies!OpenTo, Policies!SharedWith

LEMMA RecordKeeps ==
  ASSUME NEW r, Policies!Record(r)
  PROVE  r \in nodes' /\ nodes \subseteq nodes' /\ SameGrants
<1>1. PICK type \in {"encrypted-by", "runs-as"} :
        /\ nodes' = nodes \cup {r}
        /\ edges' = Policies!Upsert(edges, [e \in {Policies!Edge(r, type, t) : t \in holder[r].uses} |-> "definite"])
  BY DEF Policies!Record, Policies!Add
<1> DEFINE new == {Policies!Edge(r, type, t) : t \in holder[r].uses}
<1>2. \A e \in new : e.type = type
  BY DEF Policies!Edge
<1>3. edges' = Policies!Upsert(edges, [e \in new |-> "definite"])
  BY <1>1
<1> HIDE DEF new
<1>4. /\ DOMAIN edges' = DOMAIN edges \cup new
      /\ \A e \in DOMAIN edges : e \notin new => edges'[e] = edges[e]
  BY <1>3 DEF Policies!Upsert
<1>5. \A e \in new : e.type # "public-access" /\ e.type # "cross-account-access"
  BY <1>2
<1>6. \A x : Policies!OpenTo(x)' = Policies!OpenTo(x) /\ Policies!SharedWith(x)' = Policies!SharedWith(x)
  BY <1>4, <1>5 DEF Policies!OpenTo, Policies!SharedWith
<1>7. \A x : \A e \in Policies!OpenTo(x) : edges'[e] = edges[e]
  BY <1>4, <1>5 DEF Policies!OpenTo
<1> QED
  BY <1>1, <1>6, <1>7 DEF SameGrants

\* Steps that record no grant keep those recorded; they have to show that no resource
\* becomes dealt with by them, unless it is one of a service that has no policies.
LEMMA GrantsStay ==
  ASSUME PolicyInv, SameGrants, UNCHANGED holder, nodes \subseteq nodes', failed \subseteq failed',
         \A r \in Holders : DealtWith(r)' => DealtWith(r) \/ (r \in nodes' /\ holder[r].service = "ecs")
  PROVE  GrantsInv' /\ DealtInv'
<1>1. GrantsInv'
  <2> SUFFICES ASSUME NEW r \in Holders
               PROVE  OpenIsGranted(r)' /\ Policies!SharedWith(r)' \subseteq Others(r)'
    BY DEF GrantsInv
  <2>1. OpenIsGranted(r)
    BY DEF PolicyInv, GrantsInv
  <2>2. OpenIsGranted(r)'
    BY <2>1, PoliciesStay DEF SameGrants, OpenIsGranted
  <2> QED
    BY <2>2, PoliciesStay DEF SameGrants, PolicyInv, GrantsInv
<1>2. DealtInv'
  <2> SUFFICES ASSUME NEW r \in Holders, DealtWith(r)'
               PROVE  RecordedInFull(r)'
    BY DEF DealtInv
  <2> QED
    BY PoliciesStay DEF SameGrants, PolicyInv, DealtInv, RecordedInFull
<1> QED
  BY <1>1, <1>2

LEMMA PolicyInit == Policies!Init => PolicyInv
<1> SUFFICES ASSUME Policies!Init PROVE PolicyInv
  OBVIOUS
<1>1. \A r \in Holders : holder[r] \in Policies!ResourceType
  <2>1. HolderOptions \in [Holders -> SUBSET Policies!ResourceType]
    BY NetworkAssumption DEF Policies!ResourceAssumption
  <2>2. \A r \in Holders : holder[r] \in HolderOptions[r]
    BY DEF Policies!Init
  <2> QED
    BY <2>1, <2>2
<1>2. /\ waiting = Holders /\ step = "list" /\ blocks = FALSE /\ at = 1 /\ open = FALSE /\ gated = FALSE
      /\ external = {} /\ edges = << >>
  BY DEF Policies!Init
<1>3. \A r : Policies!OpenTo(r) = {} /\ Policies!SharedWith(r) = {}
  <2>1. DOMAIN edges = {}
    BY <1>2
  <2> QED
    BY <2>1 DEF Policies!OpenTo, Policies!SharedWith
<1>4. RequestInv /\ AnalysisInv /\ BlockInv
  BY <1>1, <1>2 DEF RequestInv, AnalysisInv, BlockInv
<1>5. GrantsInv
  BY <1>3 DEF GrantsInv, OpenIsGranted
<1>6. DealtInv
  BY <1>2 DEF DealtInv, DealtWith
<1> QED
  BY <1>4, <1>5, <1>6 DEF PolicyInv

LEMMA TakeStep == ASSUME PolicyInv, NEW r \in Holders, Policies!Take(r) PROVE PolicyInv'
<1>1. /\ step = "list" /\ r \in waiting /\ waiting' = waiting \ {r} /\ asked' = r
      /\ UNCHANGED <<holder, blocks, at, open, gated, external, warned, failed>>
  BY DEF Policies!Take, Policies!exposure
<1>2. \/ /\ holder[r].service \in {"kms", "sqs", "sns", "ecs"} /\ step' = "describe"
         /\ UNCHANGED <<nodes, edges>>
      \/ /\ holder[r].service \notin {"kms", "sqs", "sns", "ecs"} /\ Policies!Record(r)
         /\ step' = IF holder[r].service = "s3" THEN "block" ELSE "policy"
  BY DEF Policies!Take
<1>3. SameGrants /\ nodes \subseteq nodes' /\ (step' # "describe" => r \in nodes')
  BY <1>2, EdgesStay, RecordKeeps
<1>4. step' \in {"describe", "block", "policy"}
  BY <1>2
<1>5. RequestInv'
  BY <1>1, <1>2, <1>3, <1>4 DEF PolicyInv, RequestInv
<1>6. AnalysisInv'
  BY <1>1, <1>4 DEF PolicyInv, AnalysisInv
<1>7. BlockInv'
  BY <1>1, <1>2, <1>4, PoliciesStay DEF PolicyInv, BlockInv, Policies!Blocked
<1>8. \A x \in Holders : DealtWith(x)' => DealtWith(x)
  BY <1>1, <1>4 DEF DealtWith
<1>9. GrantsInv' /\ DealtInv'
  BY <1>1, <1>3, <1>8, GrantsStay
<1> QED
  BY <1>5, <1>6, <1>7, <1>9 DEF PolicyInv

LEMMA FailPageStep ==
  ASSUME PolicyInv, NEW service \in Policies!Services, Policies!FailPage(service) PROVE PolicyInv'
<1> DEFINE rest == {r \in Holders : holder[r].service = service} \cap waiting
<1>1. /\ step = "list" /\ waiting' = waiting \ rest /\ warned' = warned \cup {service}
      /\ UNCHANGED <<holder, asked, step, blocks, at, open, gated, external, nodes, edges, failed>>
  BY DEF Policies!FailPage, Policies!exposure
<1>2. RequestInv'
  BY <1>1 DEF PolicyInv, RequestInv
<1>3. AnalysisInv'
  BY <1>1 DEF PolicyInv, AnalysisInv
<1>4. BlockInv'
  BY <1>1, PoliciesStay DEF PolicyInv, BlockInv
<1>5. \A x \in Holders : DealtWith(x)' => DealtWith(x)
  BY <1>1 DEF DealtWith
<1>6. GrantsInv' /\ DealtInv'
  BY <1>1, <1>5, GrantsStay, EdgesStay
<1> QED
  BY <1>2, <1>3, <1>4, <1>6 DEF PolicyInv

LEMMA FailRequestStep == ASSUME PolicyInv, Policies!FailRequest PROVE PolicyInv'
<1>1. /\ step \in {"describe", "block", "policy"} /\ blocks' = FALSE
      /\ failed' = failed \cup {<<asked, step>>}
      /\ UNCHANGED <<holder, waiting, at, open, gated, external, nodes, edges, warned>>
  BY DEF Policies!FailRequest, Policies!exposure
<1>2. \/ step = "block" /\ step' = "policy" /\ asked' = asked
      \/ step # "block" /\ step' = "list"
  BY DEF Policies!FailRequest, Policies!Skip
<1>3. RequestInv'
  BY <1>1, <1>2 DEF PolicyInv, RequestInv
<1>4. AnalysisInv'
  BY <1>1, <1>2 DEF PolicyInv, AnalysisInv
<1>5. BlockInv'
  BY <1>1, <1>2, PoliciesStay DEF PolicyInv, BlockInv
<1>6. \A x \in Holders : DealtWith(x)' => DealtWith(x)
  <2> SUFFICES ASSUME NEW x \in Holders, DealtWith(x)' PROVE DealtWith(x)
    OBVIOUS
  <2>1. <<asked, step>>[1] # x
    BY <1>1 DEF DealtWith
  <2> QED
    BY <1>1, <2>1 DEF DealtWith
<1>7. GrantsInv' /\ DealtInv'
  BY <1>1, <1>6, GrantsStay, EdgesStay
<1> QED
  BY <1>3, <1>4, <1>5, <1>7 DEF PolicyInv

LEMMA DescribeStep == ASSUME PolicyInv, Policies!Describe PROVE PolicyInv'
<1>1. /\ step = "describe" /\ Policies!Record(asked)
      /\ UNCHANGED <<holder, waiting, blocks, at, open, gated, external, warned, failed>>
  BY DEF Policies!Describe, Policies!exposure
<1>2. SameGrants /\ asked \in nodes' /\ nodes \subseteq nodes'
  BY <1>1, RecordKeeps
<1>3. holder[asked].service \in {"kms", "sqs", "sns", "ecs"} /\ asked \in Holders /\ asked \notin waiting
  BY <1>1 DEF PolicyInv, RequestInv
<1>4. \/ holder[asked].service = "kms" /\ step' = "policy" /\ asked' = asked
      \/ holder[asked].service \in {"sqs", "sns"} /\ step' = "analyze" /\ asked' = asked
      \/ holder[asked].service = "ecs" /\ step' = "list"
  <2>1. CASE holder[asked].service = "kms"
    BY <2>1 DEF Policies!Describe, Policies!Service
  <2>2. CASE holder[asked].service \in {"sqs", "sns"}
    BY <2>2 DEF Policies!Describe, Policies!Service
  <2>3. CASE holder[asked].service = "ecs"
    BY <2>3 DEF Policies!Describe, Policies!Service, Policies!Skip
  <2> QED
    BY <1>3, <2>1, <2>2, <2>3
<1>5. RequestInv'
  BY <1>1, <1>2, <1>3, <1>4 DEF PolicyInv, RequestInv
<1>6. AnalysisInv'
  <2>1. /\ open \in BOOLEAN /\ gated \in BOOLEAN
        /\ at = 1 /\ ~ open /\ ~ gated /\ external = {}
    BY <1>1 DEF PolicyInv, AnalysisInv
  <2>2. Len(holder[asked].policy) \in Nat
    BY <1>3, PolicyIs DEF PolicyInv
  <2>3. step' = "analyze" => asked' = asked
    BY <1>4
  <2> QED
    BY <1>1, <2>1, <2>2, <2>3 DEF AnalysisInv
<1>7. BlockInv'
  <2>1. ~ Policies!Blocked(asked)
    BY <1>3 DEF Policies!Blocked
  <2> QED
    BY <1>1, <1>4, <2>1, PoliciesStay DEF PolicyInv, BlockInv
<1>8. \A x \in Holders : DealtWith(x)' => DealtWith(x) \/ (x \in nodes' /\ holder[x].service = "ecs")
  BY <1>1, <1>2, <1>4 DEF DealtWith
<1>9. GrantsInv' /\ DealtInv'
  BY <1>1, <1>2, <1>8, GrantsStay
<1> QED
  BY <1>5, <1>6, <1>7, <1>9 DEF PolicyInv

LEMMA BlockStep == ASSUME PolicyInv, Policies!publicAccessBlocked PROVE PolicyInv'
<1>1. /\ step = "block" /\ step' = "policy" /\ blocks' = holder[asked].blocked
      /\ UNCHANGED <<holder, waiting, asked, at, open, gated, external, nodes, edges, warned, failed>>
  BY DEF Policies!publicAccessBlocked, Policies!exposure
<1>2. asked \in Holders /\ holder[asked].service = "s3" /\ holder[asked].blocked \in BOOLEAN
  BY <1>1 DEF PolicyInv, RequestInv, Policies!ResourceType
<1>3. RequestInv'
  BY <1>1 DEF PolicyInv, RequestInv
<1>4. AnalysisInv'
  BY <1>1 DEF PolicyInv, AnalysisInv
<1>5. BlockInv'
  BY <1>1, <1>2 DEF BlockInv, Policies!Blocked
<1>6. \A x \in Holders : DealtWith(x)' => DealtWith(x)
  BY <1>1 DEF DealtWith
<1>7. GrantsInv' /\ DealtInv'
  BY <1>1, <1>6, GrantsStay, EdgesStay
<1> QED
  BY <1>3, <1>4, <1>5, <1>7 DEF PolicyInv

LEMMA GetPolicyStep == ASSUME PolicyInv, Policies!GetPolicy PROVE PolicyInv'
<1>1. /\ step = "policy" /\ step' = "analyze"
      /\ UNCHANGED <<holder, waiting, asked, blocks, at, open, gated, external, nodes, edges, warned, failed>>
  BY DEF Policies!GetPolicy, Policies!exposure
<1>2. asked \in Holders
  BY <1>1 DEF PolicyInv, RequestInv
<1>3. RequestInv'
  BY <1>1 DEF PolicyInv, RequestInv
<1>4. AnalysisInv'
  <2>1. Len(holder[asked].policy) \in Nat
    BY <1>2, PolicyIs DEF PolicyInv
  <2>2. open \in BOOLEAN /\ gated \in BOOLEAN /\ at = 1 /\ ~ open /\ ~ gated /\ external = {}
    BY <1>1 DEF PolicyInv, AnalysisInv
  <2> QED
    BY <1>1, <2>1, <2>2 DEF AnalysisInv
<1>5. BlockInv'
  BY <1>1, PoliciesStay DEF PolicyInv, BlockInv
<1>6. \A x \in Holders : DealtWith(x)' => DealtWith(x)
  BY <1>1 DEF DealtWith
<1>7. GrantsInv' /\ DealtInv'
  BY <1>1, <1>6, GrantsStay, EdgesStay
<1> QED
  BY <1>3, <1>4, <1>5, <1>7 DEF PolicyInv

LEMMA AnalyzeStep == ASSUME PolicyInv, Policies!Analyze PROVE PolicyInv'
<1>1. /\ step = "analyze" /\ at <= Len(holder[asked].policy) /\ at' = at + 1
      /\ UNCHANGED <<holder, waiting, asked, step, blocks, nodes, edges, warned, failed>>
  BY DEF Policies!Analyze, Policies!Policy
<1>2. /\ open' = (open \/ LetsAnyoneIn(asked, at))
      /\ gated' = (gated \/ LetsOnCondition(asked, at))
      /\ \A a : a \in external' <=> a \in external \/ Names(asked, at, a)
  BY DEF Policies!Analyze, Policies!Policy, LetsAnyoneIn, LetsOnCondition, Names, Counts
<1>3. asked \in Holders
  BY <1>1 DEF PolicyInv, RequestInv
<1>4. RequestInv'
  BY <1>1 DEF PolicyInv, RequestInv
<1>5. AnalysisInv'
  <2>1. /\ open \in BOOLEAN /\ gated \in BOOLEAN /\ at \in Nat \ {0}
        /\ open <=> \E k \in 1..(at - 1) : LetsAnyoneIn(asked, k)
        /\ gated <=> \E k \in 1..(at - 1) : LetsOnCondition(asked, k)
        /\ \A a : a \in external <=> \E k \in 1..(at - 1) : Names(asked, k, a)
    BY <1>1 DEF PolicyInv, AnalysisInv
  <2>2. Len(holder[asked].policy) \in Nat
    BY <1>3, PolicyIs DEF PolicyInv
  <2>3. \A k : k \in 1..(at' - 1) <=> k \in 1..(at - 1) \/ k = at
    BY <1>1, <2>1
  <2>4. /\ open' <=> \E k \in 1..(at' - 1) : LetsAnyoneIn(asked, k)
        /\ gated' <=> \E k \in 1..(at' - 1) : LetsOnCondition(asked, k)
        /\ \A a : a \in external' <=> \E k \in 1..(at' - 1) : Names(asked, k, a)
    BY <1>2, <2>1, <2>3
  <2>5. open' \in BOOLEAN /\ gated' \in BOOLEAN
    BY <1>2, <2>1
  <2>6. at' \in Nat \ {0} /\ at' <= Len(holder[asked].policy) + 1
    BY <1>1, <2>1, <2>2
  <2> QED
    BY <1>1, <2>4, <2>5, <2>6, PoliciesStay DEF AnalysisInv
<1>6. BlockInv'
  BY <1>1, PoliciesStay DEF PolicyInv, BlockInv
<1>7. \A x \in Holders : DealtWith(x)' => DealtWith(x)
  BY <1>1 DEF DealtWith
<1>8. GrantsInv' /\ DealtInv'
  BY <1>1, <1>7, GrantsStay, EdgesStay
<1> QED
  BY <1>4, <1>5, <1>6, <1>8 DEF PolicyInv

\* What ResourcePolicyEdges adds for the resource in hand.
LEMMA AddedEdges ==
  ASSUME PolicyInv, Policies!PolicyEdges, NEW c, c = asked
  PROVE  /\ \A r : r # c =>
              /\ Policies!OpenTo(r)' = Policies!OpenTo(r) /\ Policies!SharedWith(r)' = Policies!SharedWith(r)
              /\ \A e \in Policies!OpenTo(r) : edges'[e] = edges[e]
         /\ Policies!SharedWith(c)' = Policies!SharedWith(c) \cup external
         /\ open /\ ~ blocks => Policies!OpenTo(c)' # {}
         /\ \A e \in Policies!OpenTo(c)' :
              \/ e \in Policies!OpenTo(c) /\ edges'[e] = edges[e]
              \/ open /\ ~ blocks /\ edges'[e] = IF gated THEN "possible" ELSE "definite"
<1> DEFINE public == IF open /\ ~ blocks THEN {Policies!Edge(Anonymous, "public-access", c)} ELSE {}
           shared == {Policies!Edge(a, "cross-account-access", c) : a \in external}
           new == public \cup shared
           confidence(e) == IF e.type = "public-access" /\ ~ gated THEN "definite" ELSE "possible"
<1>1. edges' = Policies!Upsert(edges, [e \in new |-> confidence(e)])
  BY DEF Policies!PolicyEdges, Policies!Add
<1>2. /\ \A e \in public : e.type = "public-access" /\ e.to = c /\ open /\ ~ blocks
      /\ \A e \in shared : e.type = "cross-account-access" /\ e.to = c /\ e.from \in external
      /\ open /\ ~ blocks => public # {}
      /\ \A a \in external : \E e \in shared : e.from = a
  <2>1. \A a, type : LET e == Policies!Edge(a, type, c) IN e.from = a /\ e.type = type /\ e.to = c
    BY DEF Policies!Edge
  <2> QED
    BY <2>1
<1> HIDE DEF public, shared
<1>3. /\ DOMAIN edges' = DOMAIN edges \cup new
      /\ \A e \in new : edges'[e] = confidence(e)
      /\ \A e \in DOMAIN edges : e \notin new => edges'[e] = edges[e]
  BY <1>1 DEF Policies!Upsert
<1>4. \A e \in new : e.to = c
  BY <1>2
<1>5. ASSUME NEW r, r # c
      PROVE  /\ Policies!OpenTo(r)' = Policies!OpenTo(r) /\ Policies!SharedWith(r)' = Policies!SharedWith(r)
             /\ \A e \in Policies!OpenTo(r) : edges'[e] = edges[e]
  BY <1>3, <1>4, <1>5 DEF Policies!OpenTo, Policies!SharedWith
<1>6. Policies!SharedWith(c)' = Policies!SharedWith(c) \cup external
  <2>1. \A e \in DOMAIN edges' : e.type = "cross-account-access" /\ e.to = c' =>
          (e \in DOMAIN edges \/ e \in shared)
    BY <1>2, <1>3
  <2> QED
    BY <1>2, <1>3, <2>1 DEF Policies!SharedWith
<1>7. open /\ ~ blocks => Policies!OpenTo(c)' # {}
  BY <1>2, <1>3 DEF Policies!OpenTo
<1>8. ASSUME NEW e \in Policies!OpenTo(c)'
      PROVE  \/ e \in Policies!OpenTo(c) /\ edges'[e] = edges[e]
             \/ open /\ ~ blocks /\ edges'[e] = IF gated THEN "possible" ELSE "definite"
  BY <1>2, <1>3 DEF Policies!OpenTo
<1> QED
  BY <1>5, <1>6, <1>7, <1>8

LEMMA PolicyEdgesStep == ASSUME PolicyInv, Policies!PolicyEdges PROVE PolicyInv'
<1>1. /\ step = "analyze" /\ at > Len(holder[asked].policy) /\ step' = "list"
      /\ external \subseteq nodes' /\ nodes \subseteq nodes'
      /\ at' = 1 /\ open' = FALSE /\ gated' = FALSE /\ external' = {} /\ blocks' = FALSE
      /\ UNCHANGED <<holder, waiting, warned, failed>>
  BY DEF Policies!PolicyEdges, Policies!Policy, Policies!Skip, Policies!Add
<1> DEFINE P == holder[asked].policy
<1>2. /\ asked \in Holders /\ asked \in nodes /\ asked \notin waiting /\ holder[asked].service # "ecs"
  BY <1>1 DEF PolicyInv, RequestInv
<1>3. /\ open <=> Policies!Public(asked) # {}
      /\ (~ gated) <=> \A st \in Policies!Public(asked) : ~ st.conditional
      /\ external = Others(asked)
  <2>1. Len(P) \in Nat
    BY <1>2, PolicyIs DEF PolicyInv
  <2>2. at \in Nat /\ at = Len(P) + 1
    BY <1>1, <2>1 DEF PolicyInv, AnalysisInv
  <2>3. 1..(at - 1) = 1..Len(P)
    BY <2>1, <2>2
  <2>4. /\ open <=> \E k \in 1..Len(P) : LetsAnyoneIn(asked, k)
        /\ gated <=> \E k \in 1..Len(P) : LetsOnCondition(asked, k)
        /\ \A a : a \in external <=> \E k \in 1..Len(P) : Names(asked, k, a)
    BY <1>1, <2>3 DEF PolicyInv, AnalysisInv
  <2>5. RequestInv
    BY DEF PolicyInv
  <2> HIDE DEF P
  <2>6. /\ Policies!Public(asked) # {} <=> \E k \in 1..Len(holder[asked].policy) : LetsAnyoneIn(asked, k)
        /\ (\A st \in Policies!Public(asked) : ~ st.conditional) <=>
             ~ \E k \in 1..Len(holder[asked].policy) : LetsOnCondition(asked, k)
        /\ \A a : a \in Others(asked) <=> \E k \in 1..Len(holder[asked].policy) : Names(asked, k, a)
    BY <1>2, <2>5, PolicyIs
  <2> QED
    BY <2>4, <2>6 DEF P
<1>4. Policies!Blocked(asked) <=> blocks \/ (Policies!Blocked(asked) /\ <<asked, "block">> \in failed)
  BY <1>1 DEF PolicyInv, BlockInv
<1>5. RequestInv'
  BY <1>1 DEF PolicyInv, RequestInv
<1>6. AnalysisInv' /\ BlockInv'
  BY <1>1 DEF AnalysisInv, BlockInv
<1>7. ASSUME NEW r \in Holders, r # asked
      PROVE  /\ OpenIsGranted(r)' /\ Policies!SharedWith(r)' \subseteq Others(r)'
             /\ DealtWith(r)' => RecordedInFull(r)'
  <2>1. /\ Policies!OpenTo(r)' = Policies!OpenTo(r) /\ Policies!SharedWith(r)' = Policies!SharedWith(r)
        /\ \A e \in Policies!OpenTo(r) : edges'[e] = edges[e]
    BY <1>7, AddedEdges
  <2>2. OpenIsGranted(r) /\ Policies!SharedWith(r) \subseteq Others(r)
    BY DEF PolicyInv, GrantsInv
  <2>3. DealtWith(r)' => RecordedInFull(r)
    BY <1>1, <1>7 DEF DealtWith, PolicyInv, DealtInv
  <2> QED
    BY <1>1, <2>1, <2>2, <2>3, PoliciesStay DEF OpenIsGranted, RecordedInFull
<1>8. ASSUME NEW r \in Holders, r = asked
      PROVE  /\ OpenIsGranted(r)' /\ Policies!SharedWith(r)' \subseteq Others(r)'
             /\ DealtWith(r)' => RecordedInFull(r)'
  <2>1. /\ Policies!SharedWith(r)' = Policies!SharedWith(r) \cup external
        /\ open /\ ~ blocks => Policies!OpenTo(r)' # {}
        /\ \A e \in Policies!OpenTo(r)' :
             \/ e \in Policies!OpenTo(r) /\ edges'[e] = edges[e]
             \/ open /\ ~ blocks /\ edges'[e] = IF gated THEN "possible" ELSE "definite"
    BY <1>8, AddedEdges
  <2>2. OpenIsGranted(r) /\ Policies!SharedWith(r) \subseteq Others(r)
    BY DEF PolicyInv, GrantsInv
  <2>3. /\ Policies!Public(r)' = Policies!Public(r) /\ Others(r)' = Others(r)
        /\ Policies!Blocked(r)' <=> Policies!Blocked(r)
    BY <1>1, PoliciesStay
  <2>4. ASSUME NEW e \in Policies!OpenTo(r)'
        PROVE  /\ Policies!Public(r) # {}
               /\ edges'[e] = "definite" <=> \A st \in Policies!Public(r) : ~ st.conditional
               /\ Policies!Blocked(r) => <<r, "block">> \in failed
    <3>1. CASE e \in Policies!OpenTo(r) /\ edges'[e] = edges[e]
      BY <2>2, <3>1 DEF OpenIsGranted
    <3>2. CASE open /\ ~ blocks /\ edges'[e] = IF gated THEN "possible" ELSE "definite"
      BY <1>3, <1>4, <1>8, <3>2
    <3> QED
      BY <2>1, <3>1, <3>2
  <2>5. OpenIsGranted(r)'
    BY <1>1, <2>3, <2>4 DEF OpenIsGranted
  <2>6. Policies!SharedWith(r)' = Others(r)
    BY <1>3, <1>8, <2>1, <2>2
  <2>7. ASSUME \A q \in failed : q[1] # r
        PROVE  Policies!OpenTo(r)' # {} <=> Policies!Public(r) # {} /\ ~ Policies!Blocked(r)
    <3>1. <<r, "block">> \notin failed
      BY <2>7
    <3> QED
      BY <1>3, <1>4, <1>8, <2>1, <2>4, <3>1
  <2>8. DealtWith(r)' => RecordedInFull(r)'
    BY <1>1, <1>2, <1>8, <2>3, <2>6, <2>7 DEF DealtWith, RecordedInFull
  <2> QED
    BY <2>3, <2>5, <2>6, <2>8
<1>9. GrantsInv' /\ DealtInv'
  BY <1>7, <1>8 DEF GrantsInv, DealtInv
<1> QED
  BY <1>5, <1>6, <1>9 DEF PolicyInv

LEMMA PolicyInvariant == Policies!Spec => []PolicyInv
<1>1. PolicyInv /\ [Policies!Next]_(Policies!vars) => PolicyInv'
  <2> SUFFICES ASSUME PolicyInv, [Policies!Next]_(Policies!vars) PROVE PolicyInv'
    OBVIOUS
  <2>1. CASE UNCHANGED Policies!vars
    <3>1. UNCHANGED <<holder, waiting, asked, step, blocks, at, open, gated, external, nodes, edges, warned, failed>>
      BY <2>1 DEF Policies!vars, Policies!exposure
    <3>2. RequestInv' /\ AnalysisInv' /\ BlockInv'
      BY <3>1, PoliciesStay DEF PolicyInv, RequestInv, AnalysisInv, BlockInv
    <3>3. \A x \in Holders : DealtWith(x)' => DealtWith(x)
      BY <3>1 DEF DealtWith
    <3> QED
      BY <3>1, <3>2, <3>3, GrantsStay, EdgesStay DEF PolicyInv
  <2> QED
    BY <2>1, TakeStep, FailPageStep, FailRequestStep, DescribeStep, BlockStep, GetPolicyStep, AnalyzeStep,
       PolicyEdgesStep DEF Policies!Next
<1> QED
  BY <1>1, PolicyInit, PTL DEF Policies!Spec

\* Of the grants recorded by the resource collectors, for all resources, policies and
\* failures: what is recorded is granted, with its condition, and when every request
\* for a resource was answered all that is granted is recorded.
THEOREM PublicAccessIsGrantedCorrect == Policies!Spec => []PublicAccessIsGranted
<1>1. PolicyInv => Policies!PublicAccessIsGranted
  <2> SUFFICES ASSUME PolicyInv, NEW r \in Holders
               PROVE  /\ \A e \in Policies!OpenTo(r) :
                           /\ Policies!Public(r) # {}
                           /\ edges[e] = "definite" <=> \A st \in Policies!Public(r) : ~ st.conditional
                           /\ Policies!Blocked(r) => <<r, "block">> \in failed
                      /\ Policies!SharedWith(r) \subseteq Others(r)
                      /\ Policies!Answered(r) =>
                           /\ r \in nodes
                           /\ holder[r].service # "ecs" =>
                                /\ Policies!OpenTo(r) # {} <=> Policies!Public(r) # {} /\ ~ Policies!Blocked(r)
                                /\ Policies!SharedWith(r) = Others(r)
    BY DEF Policies!PublicAccessIsGranted, Others
  <2>1. OpenIsGranted(r) /\ Policies!SharedWith(r) \subseteq Others(r)
    BY DEF PolicyInv, GrantsInv
  <2>2. Policies!Answered(r) => RecordedInFull(r)
    BY DEF PolicyInv, DealtInv, DealtWith, Policies!Answered, Policies!Done
  <2> QED
    BY <2>1, <2>2 DEF OpenIsGranted, RecordedInFull
<1> QED
  BY <1>1, PolicyInvariant, PTL DEF PublicAccessIsGranted

-----------------------------------------------------------------------------
(* Topology *)

\* What is still to be listed of a service.
OfTables == <<"tables", "subnets", "interfaces">>
OfSubnets == <<"subnets", "interfaces">>
OfInterfaces == <<"interfaces">>
OfInstances == <<"instances">>

\* The services in the order in which they are collected unless some are named.
InOrder == <<"ec2", "vpc">>

\* The listing in hand is one of the service that was started last.
ListingInv ==
  /\ net \in NetworkOptions /\ order \in Orders /\ started \in 0..Len(order)
  /\ listing \in {<<>>, OfTables, OfSubnets, OfInterfaces, OfInstances}
  /\ order = InOrder => \/ started = 0 /\ listing = <<>>
                        \/ started = 1 /\ listing \in {<<>>, OfInstances}
                        \/ started = 2 /\ listing # OfInstances

\* publicRouteInfo is what the tables T say.
RoutesOf(T) ==
  /\ associated = {s \in Subnets : net.table[s] \in T}
  /\ routed = {s \in Subnets : net.table[s] \in T /\ net.gateway[net.table[s]] # None}
  /\ mains = {v \in Vpcs : net.main[v] \in T /\ net.gateway[net.main[v]] # None}

\* Subnets are listed when the routes of all tables are known, unless those broke off.
RoutesInv ==
  \E T \in SUBSET Tables :
    /\ RoutesOf(T)
    /\ listing = OfTables => Tables \ unlisted \subseteq T
    /\ listing \in {OfSubnets, OfInterfaces} /\ "tables" \notin broken => T = Tables

SubnetsInv == DOMAIN publicSubnet \subseteq Subnets /\ Topologies!SubnetsArePublicAsRouted

GroupsOf(x) == {e[3] : e \in {l \in links : l[1] = x /\ l[2] = "attached-to"}}

\* An instance has no address and no group but of its interfaces.
OwnInv ==
  \A x \in Instances :
    /\ x \in DOMAIN address /\ address[x] # None => address[x] \in Topologies!InterfacesOf(x) \cap net.addressed
    /\ \A g \in GroupsOf(x) : \E e \in Topologies!InterfacesOf(x) : g \in net.groups[e]

\* The instances that were listed are nodes.
InstancesInv ==
  order = InOrder /\ "instances" \notin broken =>
    \A x \in Instances : started = 2 \/ (started = 1 /\ (listing = <<>> \/ x \notin unlisted)) => x \in DOMAIN address

\* In order, an interface is listed after the instances, and its instance keeps what it adds.
Listed(e) == \/ listing = OfInterfaces /\ e \notin unlisted
             \/ started = 2 /\ listing = <<>> /\ "interfaces" \notin broken
InterfacesInv ==
  order = InOrder =>
    \A x \in Instances : \A e \in Topologies!InterfacesOf(x) :
      Listed(e) => /\ e \in net.addressed => x \in DOMAIN address /\ address[x] # None
                   /\ net.groups[e] \subseteq GroupsOf(x)

TopologyInv == ListingInv /\ RoutesInv /\ SubnetsInv /\ OwnInv /\ InstancesInv /\ InterfacesInv

LEMMA Listings ==
  /\ Tail(OfTables) = OfSubnets /\ Tail(OfSubnets) = OfInterfaces
  /\ Tail(OfInterfaces) = <<>> /\ Tail(OfInstances) = <<>>
  /\ OfTables[1] = "tables" /\ OfSubnets[1] = "subnets" /\ OfInterfaces[1] = "interfaces" /\ OfInstances[1] = "instances"
  /\ <<>> \notin {OfTables, OfSubnets, OfInterfaces, OfInstances}
  /\ InOrder[1] = "ec2" /\ InOrder[2] = "vpc" /\ Len(InOrder) = 2
  /\ Topologies!Listings["ec2"] = OfInstances /\ Topologies!Listings["vpc"] = OfTables
BY DEF OfTables, OfSubnets, OfInterfaces, OfInstances, InOrder, Topologies!Listings

LEMMA NetIsTyped ==
  ASSUME ListingInv
  PROVE  /\ None \notin Tables \cup Gateways \cup Instances \cup Interfaces
         /\ \A s \in Subnets : /\ net.table[s] \in Tables \cup {None} /\ net.vpc[s] \in Vpcs
                               /\ net.main[net.vpc[s]] \in Tables
         /\ \A x \in Instances : net.primary[x] \in Interfaces /\ net.instance[net.primary[x]] = x
         /\ \A e \in Interfaces : net.instance[e] \in Instances \cup {None} /\ net.groups[e] \subseteq Groups
<1>1. /\ NetworkOptions \subseteq Topologies!NetworkType
      /\ None \notin Tables \cup Gateways \cup Instances \cup Interfaces
      /\ \A n \in NetworkOptions : \A x \in Instances : n.instance[n.primary[x]] = x
  BY NetworkAssumption DEF Topologies!TopologyAssumption
<1>2. /\ net.vpc \in [Subnets \cup Tables -> Vpcs] /\ net.main \in [Vpcs -> Tables]
      /\ net.table \in [Subnets -> Tables \cup {None}] /\ net.instance \in [Interfaces -> Instances \cup {None}]
      /\ net.primary \in [Instances -> Interfaces] /\ net.groups \in [Interfaces -> SUBSET Groups]
  BY <1>1 DEF ListingInv, Topologies!NetworkType
<1> QED
  BY <1>1, <1>2 DEF ListingInv

LEMMA TopologyInit == Topologies!Init => TopologyInv
<1> SUFFICES ASSUME Topologies!Init PROVE TopologyInv
  OBVIOUS
<1>1. /\ net \in NetworkOptions /\ order \in Orders /\ started = 0 /\ listing = <<>>
      /\ associated = {} /\ routed = {} /\ mains = {} /\ links = {} /\ broken = {}
      /\ DOMAIN address = {} /\ DOMAIN publicSubnet = {}
  BY DEF Topologies!Init
<1>2. ListingInv
  <2>1. Len(order) \in Nat
    BY <1>1, NetworkAssumption DEF Topologies!TopologyAssumption
  <2> QED
    BY <1>1, <2>1 DEF ListingInv
<1>3. RoutesInv
  <2>1. RoutesOf({})
    BY <1>1 DEF RoutesOf
  <2> QED
    BY <1>1, <2>1, Listings DEF RoutesInv
<1>4. SubnetsInv
  BY <1>1 DEF SubnetsInv, Topologies!SubnetsArePublicAsRouted
<1>5. OwnInv
  BY <1>1 DEF OwnInv, GroupsOf
<1>6. InstancesInv /\ InterfacesInv
  BY <1>1, Listings DEF InstancesInv, InterfacesInv, Listed
<1> QED
  BY <1>2, <1>3, <1>4, <1>5, <1>6 DEF TopologyInv

\* Listing goes on: a service is started, or the next of its listings is.
LEMMA StartServiceStep == ASSUME TopologyInv, Topologies!StartService PROVE TopologyInv'
<1>1. /\ listing = <<>> /\ started < Len(order) /\ started' = started + 1
      /\ listing' = Topologies!Listings[order[started + 1]]
      /\ unlisted' = IF listing' = <<>> THEN {} ELSE Topologies!ItemsOf(listing'[1])
      /\ UNCHANGED <<net, order, associated, routed, mains, address, publicSubnet, links, broken>>
  BY DEF Topologies!StartService, Topologies!Start, Topologies!routes
<1>2. /\ ListingInv /\ Len(order) \in Nat /\ started \in Nat
      /\ order[started + 1] \in {"ec2", "vpc"}
  <2>1. ListingInv
    BY DEF TopologyInv
  <2>2. order \in Seq({"ec2", "vpc"})
    BY <2>1, NetworkAssumption DEF ListingInv, Topologies!TopologyAssumption
  <2>3. Len(order) \in Nat /\ started \in Nat
    BY <2>1, <2>2 DEF ListingInv
  <2>4. started + 1 \in 1..Len(order)
    BY <1>1, <2>3
  <2> QED
    BY <2>1, <2>2, <2>3, <2>4
<1>3. listing' \in {OfInstances, OfTables} /\ unlisted' = Topologies!ItemsOf(listing'[1])
  BY <1>1, <1>2, Listings
<1>4. /\ listing' = OfTables => unlisted' = Tables
      /\ listing' = OfInstances => unlisted' = Instances
  BY <1>3, Listings DEF Topologies!ItemsOf
<1>5. order = InOrder => \/ started = 0 /\ listing' = OfInstances
                         \/ started = 1 /\ listing' = OfTables
  <2>1. order = InOrder => started = 0 \/ started = 1
    <3>1. order = InOrder => started = 0 \/ started = 1 \/ started = 2
      BY <1>2 DEF ListingInv
    <3>2. order = InOrder => Len(order) = 2
      BY Listings
    <3>3. order = InOrder => started < 2
      BY <1>1, <3>2
    <3>4. ~ (2 < 2)
      OBVIOUS
    <3> QED
      BY <3>1, <3>3, <3>4
  <2>2. order = InOrder /\ started = 0 => order[started + 1] = "ec2"
    BY Listings
  <2>3. order = InOrder /\ started = 1 => order[started + 1] = "vpc"
    BY Listings
  <2> QED
    BY <1>1, <2>1, <2>2, <2>3, Listings
<1>6. ListingInv'
  <2>1. started' \in 0..Len(order')
    BY <1>1, <1>2
  <2>2. order = InOrder => \/ started' = 1 /\ listing' = OfInstances
                           \/ started' = 2 /\ listing' # OfInstances
    BY <1>1, <1>5, Listings
  <2> QED
    BY <1>1, <1>2, <1>3, <2>1, <2>2 DEF ListingInv
<1>7. RoutesInv'
  <2>1. PICK T \in SUBSET Tables : RoutesOf(T)
    BY DEF TopologyInv, RoutesInv
  <2>2. RoutesOf(T)'
    BY <1>1, <2>1 DEF RoutesOf
  <2>3. listing' \notin {OfSubnets, OfInterfaces}
    BY <1>3, Listings
  <2> QED
    BY <1>4, <2>2, <2>3 DEF RoutesInv
<1>8. SubnetsInv' /\ OwnInv'
  BY <1>1 DEF TopologyInv, SubnetsInv, OwnInv, GroupsOf, Topologies!SubnetsArePublicAsRouted,
              Topologies!TableOf, Topologies!InterfacesOf
<1>9. InstancesInv'
  BY <1>1, <1>3, <1>4, <1>5, Listings DEF TopologyInv, InstancesInv
<1>10. InterfacesInv'
  BY <1>3, Listings DEF InterfacesInv, Listed
<1> QED
  BY <1>6, <1>7, <1>8, <1>9, <1>10 DEF TopologyInv

LEMMA NextListing ==
  ASSUME ListingInv, listing # <<>>, Topologies!Start(Tail(listing))
  PROVE  /\ listing = OfInstances => listing' = <<>>
         /\ listing = OfTables => listing' = OfSubnets
         /\ listing = OfSubnets => listing' = OfInterfaces /\ unlisted' = Interfaces
         /\ listing = OfInterfaces => listing' = <<>>
<1>1. listing' = Tail(listing) /\ unlisted' = IF listing' = <<>> THEN {} ELSE Topologies!ItemsOf(listing'[1])
  BY DEF Topologies!Start
<1>2. listing = OfSubnets => unlisted' = Interfaces
  BY <1>1, Listings DEF Topologies!ItemsOf
<1> QED
  BY <1>1, <1>2, Listings

\* The listing in hand ends, when it is complete or when it breaks off.
LEMMA EndListingStep ==
  ASSUME TopologyInv, listing # <<>>, Topologies!Start(Tail(listing)),
         \/ unlisted = {} /\ broken' = broken
         \/ broken' = broken \cup {listing[1]},
         UNCHANGED <<net, order, started, associated, routed, mains, address, publicSubnet, links>>
  PROVE  TopologyInv'
<1>1. /\ listing = OfInstances => listing' = <<>>
      /\ listing = OfTables => listing' = OfSubnets
      /\ listing = OfSubnets => listing' = OfInterfaces /\ unlisted' = Interfaces
      /\ listing = OfInterfaces => listing' = <<>>
      /\ listing \in {OfTables, OfSubnets, OfInterfaces, OfInstances} /\ ListingInv
  BY NextListing DEF TopologyInv, ListingInv
<1>2. broken \subseteq broken'
  OBVIOUS
<1>3. ListingInv'
  BY <1>1, Listings DEF ListingInv
<1>4. RoutesInv'
  <2>1. PICK T \in SUBSET Tables :
          /\ RoutesOf(T)
          /\ listing = OfTables => Tables \ unlisted \subseteq T
          /\ listing \in {OfSubnets, OfInterfaces} /\ "tables" \notin broken => T = Tables
    BY DEF TopologyInv, RoutesInv
  <2>2. RoutesOf(T)'
    BY <2>1 DEF RoutesOf
  <2>3. listing = OfTables /\ "tables" \notin broken' => unlisted = {}
    BY Listings
  <2>4. listing' \in {OfSubnets, OfInterfaces} /\ "tables" \notin broken' => T = Tables
    BY <1>1, <1>2, <2>1, <2>3, Listings
  <2>5. listing' # OfTables
    BY <1>1, Listings
  <2> QED
    BY <2>2, <2>4, <2>5 DEF RoutesInv
<1>5. SubnetsInv' /\ OwnInv'
  BY <1>2 DEF TopologyInv, SubnetsInv, OwnInv, GroupsOf, Topologies!SubnetsArePublicAsRouted,
              Topologies!TableOf, Topologies!InterfacesOf
<1>6. InstancesInv'
  <2>1. listing = OfInstances /\ "instances" \notin broken' => unlisted = {}
    BY Listings
  <2>2. InstancesInv
    BY DEF TopologyInv
  <2>3. order = InOrder /\ started = 1 => listing = OfInstances
    BY <1>1, Listings DEF ListingInv
  <2> QED
    BY <1>2, <2>1, <2>2, <2>3 DEF InstancesInv
<1>7. InterfacesInv'
  <2>1. \A e : order = InOrder /\ e \in Interfaces /\ Listed(e)' => Listed(e)
    <3>1. listing = OfInterfaces /\ "interfaces" \notin broken' => unlisted = {}
      BY Listings
    <3>2. order = InOrder /\ started = 2 => listing \in {OfTables, OfSubnets, OfInterfaces}
      BY <1>1 DEF ListingInv
    <3> QED
      BY <1>1, <1>2, <3>1, <3>2, Listings DEF Listed
  <2>2. InterfacesInv
    BY DEF TopologyInv
  <2> QED
    BY <2>1, <2>2 DEF InterfacesInv, GroupsOf, Topologies!InterfacesOf
<1> QED
  BY <1>3, <1>4, <1>5, <1>6, <1>7 DEF TopologyInv

\* The route tables listed so far are those and one more.
LEMMA AddTableStep == ASSUME TopologyInv, NEW t \in Tables, Topologies!AddTable(t) PROVE TopologyInv'
<1> DEFINE subnets == {s \in Subnets : net.table[s] = t}
           leads == net.gateway[t] # None
<1>1. /\ listing # <<>> /\ listing[1] = "tables" /\ t \in unlisted /\ unlisted' = unlisted \ {t}
      /\ UNCHANGED <<net, order, started, listing, broken, address, publicSubnet>>
  BY DEF Topologies!AddTable, Topologies!Take
<1>2. /\ associated' = associated \cup subnets
      /\ routed' = IF leads THEN routed \cup subnets ELSE routed
      /\ mains' = IF leads THEN mains \cup {v \in Vpcs : net.main[v] = t} ELSE mains
      /\ links' = IF leads THEN links \cup {<<t, "routes-to", net.gateway[t]>>} ELSE links
  BY DEF Topologies!AddTable
<1>3. listing = OfTables
  BY <1>1, Listings DEF TopologyInv, ListingInv
<1>4. ListingInv'
  BY <1>1 DEF TopologyInv, ListingInv
<1>5. RoutesInv'
  <2>1. PICK T \in SUBSET Tables : RoutesOf(T) /\ Tables \ unlisted \subseteq T
    BY <1>3 DEF TopologyInv, RoutesInv
  <2>2. RoutesOf(T \cup {t})'
    BY <1>1, <1>2, <2>1 DEF RoutesOf
  <2>3. T \cup {t} \in SUBSET Tables /\ Tables \ unlisted' \subseteq T \cup {t}
    BY <1>1, <2>1
  <2>4. listing' \notin {OfSubnets, OfInterfaces}
    BY <1>1, <1>3, Listings
  <2> QED
    BY <2>2, <2>3, <2>4 DEF RoutesInv
<1>6. \A x : GroupsOf(x)' = GroupsOf(x)
  BY <1>2 DEF GroupsOf
<1>7. SubnetsInv' /\ OwnInv'
  BY <1>1, <1>6 DEF TopologyInv, SubnetsInv, OwnInv, Topologies!SubnetsArePublicAsRouted,
                    Topologies!TableOf, Topologies!InterfacesOf
<1>8. InstancesInv'
  BY <1>1, <1>3, Listings DEF TopologyInv, InstancesInv, ListingInv
<1>9. InterfacesInv'
  BY <1>1, <1>3, Listings DEF InterfacesInv, Listed
<1> QED
  BY <1>4, <1>5, <1>7, <1>8, <1>9 DEF TopologyInv

LEMMA AddSubnetStep == ASSUME TopologyInv, NEW s \in Subnets, Topologies!AddSubnet(s) PROVE TopologyInv'
<1> DEFINE public == s \in routed \/ (s \notin associated /\ net.vpc[s] \in mains)
<1>1. /\ listing # <<>> /\ listing[1] = "subnets" /\ unlisted' = unlisted \ {s}
      /\ links' = links \cup {<<s, "deployed-in", net.vpc[s]>>}
      /\ UNCHANGED <<net, order, started, listing, broken, associated, routed, mains, address>>
  BY DEF Topologies!AddSubnet, Topologies!Take, Topologies!routes
<1>2. /\ DOMAIN publicSubnet' = DOMAIN publicSubnet \cup {s}
      /\ publicSubnet'[s] = public
      /\ \A x \in DOMAIN publicSubnet : x # s => publicSubnet'[x] = publicSubnet[x]
  BY DEF Topologies!AddSubnet, Topologies!Upsert, Topologies!Row
<1>3. listing = OfSubnets /\ ListingInv
  BY <1>1, Listings DEF TopologyInv, ListingInv
<1>4. ListingInv'
  BY <1>1 DEF TopologyInv, ListingInv
<1>5. PICK T \in SUBSET Tables : RoutesOf(T) /\ ("tables" \notin broken => T = Tables)
  BY <1>3, Listings DEF TopologyInv, RoutesInv
<1>6. RoutesInv'
  <2>1. RoutesOf(T)'
    BY <1>1, <1>5 DEF RoutesOf
  <2> QED
    BY <1>1, <1>3, <1>5, <2>1, Listings DEF RoutesInv
<1>7. /\ "tables" \notin broken => (public <=> net.gateway[Topologies!TableOf(s)] # None)
      /\ public => \E t \in {Topologies!TableOf(s), net.main[net.vpc[s]]} : net.gateway[t] # None
  <2>1. /\ net.table[s] \in Tables \cup {None} /\ net.vpc[s] \in Vpcs
        /\ net.main[net.vpc[s]] \in Tables /\ None \notin Tables
    BY <1>3, NetIsTyped
  <2>2. /\ s \in associated <=> net.table[s] \in T
        /\ s \in routed <=> net.table[s] \in T /\ net.gateway[net.table[s]] # None
        /\ net.vpc[s] \in mains <=> net.main[net.vpc[s]] \in T /\ net.gateway[net.main[net.vpc[s]]] # None
    BY <1>5, <2>1 DEF RoutesOf
  <2> QED
    BY <1>5, <2>1, <2>2 DEF Topologies!TableOf
<1>8. SubnetsInv'
  <2> SUFFICES ASSUME NEW x \in DOMAIN publicSubnet'
               PROVE  /\ x \in Subnets
                      /\ "tables" \notin broken => publicSubnet'[x] = (net.gateway[Topologies!TableOf(x)] # None)
                      /\ publicSubnet'[x] => \E t \in {Topologies!TableOf(x), net.main[net.vpc[x]]} :
                                               net.gateway[t] # None
    BY <1>1 DEF SubnetsInv, Topologies!SubnetsArePublicAsRouted, Topologies!TableOf
  <2>1. CASE x = s
    BY <1>2, <1>7, <2>1
  <2>2. CASE x # s
    BY <1>2, <2>2 DEF TopologyInv, SubnetsInv, Topologies!SubnetsArePublicAsRouted
  <2> QED
    BY <2>1, <2>2
<1>9. \A x : GroupsOf(x)' = GroupsOf(x)
  BY <1>1 DEF GroupsOf
<1>10. OwnInv'
  BY <1>1, <1>9 DEF TopologyInv, OwnInv, Topologies!InterfacesOf
<1>11. InstancesInv'
  BY <1>1, <1>3, Listings DEF TopologyInv, InstancesInv, ListingInv
<1>12. InterfacesInv'
  BY <1>1, <1>3, Listings DEF InterfacesInv, Listed
<1> QED
  BY <1>4, <1>6, <1>8, <1>10, <1>11, <1>12 DEF TopologyInv

LEMMA AddInstanceStep == ASSUME TopologyInv, NEW n \in Instances, Topologies!AddInstance(n) PROVE TopologyInv'
<1>1. /\ listing # <<>> /\ listing[1] = "instances" /\ n \in unlisted /\ unlisted' = unlisted \ {n}
      /\ links' = links \cup {<<n, "deployed-in", net.subnet[n]>>}
      /\ UNCHANGED <<net, order, started, listing, broken, associated, routed, mains, publicSubnet>>
  BY DEF Topologies!AddInstance, Topologies!Take, Topologies!routes
<1>2. /\ DOMAIN address' = DOMAIN address \cup {n}
      /\ address'[n] = IF net.primary[n] \in net.addressed THEN net.primary[n] ELSE None
      /\ \A x \in DOMAIN address : x # n => address'[x] = address[x]
  BY DEF Topologies!AddInstance, Topologies!Upsert, Topologies!Row
<1>3. listing = OfInstances /\ ListingInv
  BY <1>1, Listings DEF TopologyInv, ListingInv
<1>4. ListingInv'
  BY <1>1, <1>3 DEF ListingInv
<1>5. RoutesInv'
  <2>1. PICK T \in SUBSET Tables : RoutesOf(T)
    BY DEF TopologyInv, RoutesInv
  <2>2. RoutesOf(T)'
    BY <1>1, <2>1 DEF RoutesOf
  <2> QED
    BY <1>1, <1>3, <2>2, Listings DEF RoutesInv
<1>6. SubnetsInv'
  BY <1>1 DEF TopologyInv, SubnetsInv, Topologies!SubnetsArePublicAsRouted, Topologies!TableOf
<1>7. \A x : GroupsOf(x)' = GroupsOf(x)
  BY <1>1 DEF GroupsOf
<1>8. OwnInv'
  <2>1. /\ net.primary[n] \in Topologies!InterfacesOf(n)
        /\ net.primary[n] \in net.addressed => net.primary[n] # None
    BY <1>3, NetIsTyped DEF Topologies!InterfacesOf
  <2> QED
    BY <1>1, <1>2, <1>7, <2>1 DEF TopologyInv, OwnInv, Topologies!InterfacesOf
<1>9. InstancesInv'
  <2>1. order = InOrder => started = 1
    BY <1>3, Listings DEF ListingInv
  <2> QED
    BY <1>1, <1>2, <1>3, <2>1, Listings DEF TopologyInv, InstancesInv
<1>10. InterfacesInv'
  BY <1>1, <1>3, Listings DEF InterfacesInv, Listed
<1> QED
  BY <1>4, <1>5, <1>6, <1>8, <1>9, <1>10 DEF TopologyInv

LEMMA AddInterfaceStep ==
  ASSUME TopologyInv, NEW f \in Interfaces, Topologies!AddInterface(f) PROVE TopologyInv'
<1>1. PICK n : n = net.instance[f]
  OBVIOUS
<1> DEFINE replaces == n # None /\ f \in net.addressed
<1>2. /\ listing # <<>> /\ listing[1] = "interfaces" /\ f \in unlisted /\ unlisted' = unlisted \ {f}
      /\ UNCHANGED <<net, order, started, listing, broken, associated, routed, mains, publicSubnet>>
  BY DEF Topologies!AddInterface, Topologies!Take, Topologies!routes
<1>3. /\ address' = IF replaces THEN Topologies!Upsert(address, Topologies!Row(n, f)) ELSE address
      /\ links' = IF n = None THEN links ELSE links \cup {<<n, "attached-to", g>> : g \in net.groups[f]}
  BY <1>1 DEF Topologies!AddInterface
<1>4. listing = OfInterfaces /\ ListingInv
  BY <1>2, Listings DEF TopologyInv, ListingInv
<1>5. n \in Instances \cup {None} /\ None \notin Instances \cup Interfaces
  BY <1>1, <1>4, NetIsTyped
<1>6. /\ DOMAIN address' = IF replaces THEN DOMAIN address \cup {n} ELSE DOMAIN address
      /\ replaces => address'[n] = f
      /\ \A x \in DOMAIN address : x # n \/ ~ replaces => address'[x] = address[x]
  BY <1>3 DEF Topologies!Upsert, Topologies!Row
<1>7. /\ \A x : GroupsOf(x) \subseteq GroupsOf(x)'
      /\ \A x : x # n => GroupsOf(x)' = GroupsOf(x)
      /\ n # None => GroupsOf(n)' = GroupsOf(n) \cup net.groups[f]
  <2>1. CASE n = None
    BY <1>3, <2>1 DEF GroupsOf
  <2>2. CASE n # None
    <3>1. links' = links \cup {<<n, "attached-to", g>> : g \in net.groups[f]}
      BY <1>3, <2>2
    <3> DEFINE new == {<<n, "attached-to", g>> : g \in net.groups[f]}
    <3>2. \A x : \A l \in new : l[1] = n /\ l[2] = "attached-to" /\ l[3] \in net.groups[f]
      OBVIOUS
    <3>3. \A g \in net.groups[f] : \E l \in new : l[3] = g
      <4> TAKE g \in net.groups[f]
      <4> WITNESS <<n, "attached-to", g>> \in new
      <4> QED OBVIOUS
    <3> HIDE DEF new
    <3>4. links' = links \cup new
      BY <3>1 DEF new
    <3>5. \A x : GroupsOf(x)' = GroupsOf(x) \cup (IF x = n THEN net.groups[f] ELSE {})
      BY <3>2, <3>3, <3>4 DEF GroupsOf
    <3> QED
      BY <2>2, <3>5
  <2> QED
    BY <2>1, <2>2
<1>8. ListingInv'
  BY <1>2, <1>4 DEF ListingInv
<1>9. RoutesInv'
  BY <1>2, <1>4, Listings DEF TopologyInv, RoutesInv, RoutesOf
<1>10. SubnetsInv'
  BY <1>2 DEF TopologyInv, SubnetsInv, Topologies!SubnetsArePublicAsRouted, Topologies!TableOf
<1>11. OwnInv'
  <2>1. n # None => f \in Topologies!InterfacesOf(n)
    BY <1>1 DEF Topologies!InterfacesOf
  <2>2. \A x : Topologies!InterfacesOf(x)' = Topologies!InterfacesOf(x)
    BY <1>2 DEF Topologies!InterfacesOf
  <2> SUFFICES ASSUME NEW x \in Instances
               PROVE  /\ x \in DOMAIN address' /\ address'[x] # None =>
                           address'[x] \in Topologies!InterfacesOf(x) \cap net.addressed
                      /\ \A g \in GroupsOf(x)' : \E e \in Topologies!InterfacesOf(x) : g \in net.groups[e]
    BY <1>2, <2>2 DEF OwnInv
  <2>3. /\ x \in DOMAIN address /\ address[x] # None =>
             address[x] \in Topologies!InterfacesOf(x) \cap net.addressed
        /\ \A g \in GroupsOf(x) : \E e \in Topologies!InterfacesOf(x) : g \in net.groups[e]
    BY DEF TopologyInv, OwnInv
  <2>4. x # None
    BY <1>5
  <2>5. CASE x = n
    BY <1>6, <1>7, <2>1, <2>3, <2>4, <2>5
  <2>6. CASE x # n
    BY <1>6, <1>7, <2>3, <2>6
  <2> QED
    BY <2>5, <2>6
<1>12. InstancesInv'
  BY <1>2, <1>4, <1>6, Listings DEF TopologyInv, InstancesInv, ListingInv
<1>13. InterfacesInv'
  <2> SUFFICES ASSUME order = InOrder, NEW x \in Instances, NEW e \in Topologies!InterfacesOf(x), Listed(e)'
               PROVE  /\ e \in net.addressed => x \in DOMAIN address' /\ address'[x] # None
                      /\ net.groups[e] \subseteq GroupsOf(x)'
    BY <1>2 DEF InterfacesInv, Topologies!InterfacesOf
  <2>1. e \in Interfaces /\ net.instance[e] = x /\ x # None
    BY <1>5 DEF Topologies!InterfacesOf
  <2>2. CASE e = f
    BY <1>1, <1>5, <1>6, <1>7, <2>1, <2>2
  <2>3. CASE e # f
    <3>1. Listed(e)
      BY <1>2, <1>4, <2>3, Listings DEF Listed
    <3>2. /\ e \in net.addressed => x \in DOMAIN address /\ address[x] # None
          /\ net.groups[e] \subseteq GroupsOf(x)
      BY <3>1 DEF TopologyInv, InterfacesInv
    <3> QED
      BY <1>5, <1>6, <1>7, <3>2
  <2> QED
    BY <2>2, <2>3
<1> QED
  BY <1>8, <1>9, <1>10, <1>11, <1>12, <1>13 DEF TopologyInv

LEMMA TopologyInvariant == Topologies!Spec => []TopologyInv
<1>1. TopologyInv /\ [Topologies!Next]_(Topologies!vars) => TopologyInv'
  <2> SUFFICES ASSUME TopologyInv, [Topologies!Next]_(Topologies!vars) PROVE TopologyInv'
    OBVIOUS
  <2>1. CASE Topologies!EndListing
    BY <2>1, EndListingStep DEF Topologies!EndListing, Topologies!routes
  <2>2. CASE Topologies!FailPage
    BY <2>2, EndListingStep DEF Topologies!FailPage, Topologies!routes
  <2>3. CASE UNCHANGED Topologies!vars
    <3>1. UNCHANGED <<net, order, started, listing, unlisted, associated, routed, mains,
                      address, publicSubnet, links, broken>>
      BY <2>3 DEF Topologies!vars, Topologies!routes
    <3>2. ListingInv'
      BY <3>1 DEF TopologyInv, ListingInv
    <3>3. RoutesInv'
      BY <3>1 DEF TopologyInv, RoutesInv, RoutesOf
    <3>4. SubnetsInv'
      BY <3>1 DEF TopologyInv, SubnetsInv, Topologies!SubnetsArePublicAsRouted, Topologies!TableOf
    <3>5. OwnInv'
      BY <3>1 DEF TopologyInv, OwnInv, GroupsOf, Topologies!InterfacesOf
    <3>6. InstancesInv'
      BY <3>1 DEF TopologyInv, InstancesInv
    <3>7. InterfacesInv'
      BY <3>1 DEF TopologyInv, InterfacesInv, GroupsOf, Listed, Topologies!InterfacesOf
    <3> QED
      BY <3>2, <3>3, <3>4, <3>5, <3>6, <3>7 DEF TopologyInv
  <2> QED
    BY <2>1, <2>2, <2>3, StartServiceStep, AddInstanceStep, AddTableStep, AddSubnetStep, AddInterfaceStep
       DEF Topologies!Next
<1> QED
  BY <1>1, TopologyInit, PTL DEF Topologies!Spec

\* Of the topology that EC2Collector and VPCCollector record, for every network, every
\* order of pages and every listing that breaks off: subnets are public as the table in
\* force leads out, and instances have the addresses and groups of their interfaces.
THEOREM TopologyIsRecordedCorrect == Topologies!Spec => []TopologyIsRecorded
<1>1. TopologyInv => Topologies!InstancesAreAddressed
  <2> SUFFICES ASSUME TopologyInv, NEW x \in Instances
               PROVE  LET groups(y) == {e[3] : e \in {l \in links : l[1] = y /\ l[2] = "attached-to"}}
                          ofAll(y) == UNION {net.groups[e] : e \in Topologies!InterfacesOf(y)}
                          whole == /\ order = <<"ec2", "vpc">> /\ started = 2 /\ listing = <<>>
                                   /\ {"instances", "interfaces"} \cap broken = {}
                      IN  /\ x \in DOMAIN address /\ address[x] # None =>
                               address[x] \in Topologies!InterfacesOf(x) \cap net.addressed
                          /\ groups(x) \subseteq ofAll(x)
                          /\ whole => /\ x \in DOMAIN address
                                      /\ address[x] # None <=> Topologies!InterfacesOf(x) \cap net.addressed # {}
                                      /\ groups(x) = ofAll(x)
    BY DEF Topologies!InstancesAreAddressed
  <2> DEFINE ofAll == UNION {net.groups[e] : e \in Topologies!InterfacesOf(x)}
             whole == /\ order = <<"ec2", "vpc">> /\ started = 2 /\ listing = <<>>
                      /\ {"instances", "interfaces"} \cap broken = {}
  <2>1. /\ x \in DOMAIN address /\ address[x] # None =>
             address[x] \in Topologies!InterfacesOf(x) \cap net.addressed
        /\ GroupsOf(x) \subseteq ofAll
    BY DEF TopologyInv, OwnInv
  <2>2. ASSUME whole
        PROVE  /\ x \in DOMAIN address
               /\ Topologies!InterfacesOf(x) \cap net.addressed # {} => address[x] # None
               /\ ofAll \subseteq GroupsOf(x)
    <3>1. order = InOrder /\ started = 2 /\ "instances" \notin broken /\ \A e : Listed(e)
      BY <2>2 DEF InOrder, Listed
    <3>2. x \in DOMAIN address
      BY <3>1 DEF TopologyInv, InstancesInv
    <3>3. \A e \in Topologies!InterfacesOf(x) :
            /\ e \in net.addressed => address[x] # None
            /\ net.groups[e] \subseteq GroupsOf(x)
      BY <3>1 DEF TopologyInv, InterfacesInv
    <3> QED
      BY <3>2, <3>3
  <2> QED
    BY <2>1, <2>2 DEF GroupsOf
<1> QED
  BY <1>1, TopologyInvariant, PTL DEF TopologyIsRecorded, Topologies!TopologyIsRecorded, TopologyInv, SubnetsInv
=============================================================================

----------------------------- MODULE MCNetwork -----------------------------
(***************************************************************************)
(* The two sides of an ACL node: what the collector stores in it, and what *)
(* the derivation of exposure reads from it.  A behaviour runs one of the  *)
(* two, on any of its inputs.                                              *)
(*                                                                         *)
(* acl: up to three entries over four ports, allows and denies that        *)
(* overlap at either end, inside or wholly, of one protocol and of all, of *)
(* a narrow block, of the other direction and of the other address family. *)
(* exposure: two resources of any kind and scheme that share up to two     *)
(* groups and two subnets; ACLs that pass both ways, one way, some ports,  *)
(* whose egress is unknown, or that are missing.                           *)
(***************************************************************************)
EXTENDS Network, TLC

CONSTANTS r1, r2, g1, g2, s1, s2

VARIABLE active

exposureVars == vars
aclVars == <<entries, egress, i, j, segments, allowed, done>>
policyVars == <<holder, waiting, asked, step, blocks, at, open, gated, external,
                nodes, edges, warned, failed>>
topologyVars == <<net, order, started, listing, unlisted, associated, routed, mains,
                  address, publicSubnet, links, broken>>
allVars == <<active, exposureVars, aclVars, policyVars, topologyVars>>

All == PortRange("*", 0, MaxPort)
Tcp(from, to) == PortRange("tcp", from, to)

-----------------------------------------------------------------------------
(* Inputs of AclPorts *)

Entry(allow, range) ==
  [egress |-> FALSE, allow |-> allow, family |-> "ipv4", world |-> TRUE, range |-> range]

MCEntryOptions ==
  {Entry(TRUE, Tcp(0, 3)), Entry(TRUE, Tcp(1, 2)), Entry(TRUE, PortRange("udp", 0, 3)),
   Entry(TRUE, All), Entry(FALSE, All),
   Entry(FALSE, Tcp(2, 2)), Entry(FALSE, Tcp(0, 1)), Entry(FALSE, Tcp(3, 3)),
   [Entry(FALSE, Tcp(0, 3)) EXCEPT !.family = "ipv6"],
   [Entry(FALSE, All) EXCEPT !.world = FALSE],
   [Entry(TRUE, Tcp(0, 1)) EXCEPT !.egress = TRUE]}

-----------------------------------------------------------------------------
(* Inputs of NetworkExposure *)

Resource(type, listeners, network, groups, subnets) ==
  [type |-> type, public |-> TRUE, groups |-> groups, listeners |-> listeners,
   network |-> network, subnets |-> subnets]

MCResourceOptions ==
  {Resource("ec2", {}, FALSE, {g1, g2}, {s1}),
   Resource("rds", {Tcp(1, 1)}, FALSE, {g1, g2}, {s1, s2}),
   Resource("elb", {Tcp(0, 0), Tcp(1, 1)}, FALSE, {g1}, {s1, s2}),
   Resource("elb", {Tcp(1, 1)}, TRUE, {}, {s1, s2}),
   Resource("elb", {Tcp(1, 1)}, FALSE, {}, {s1}),
   [Resource("ec2", {}, FALSE, {g1}, {s1}) EXCEPT !.public = FALSE]}

MCGroupOptions == {{All}, {Tcp(1, 2), PortRange("udp", 1, 1)}}

Acl(ingress, out) == [ingress |-> ingress, egress |-> out]
Subnet(public, acls) == [present |-> TRUE, public |-> public, acls |-> acls]

MCSubnetOptions ==
  {Subnet(TRUE, acls) :
     acls \in {{}, {Acl({All}, {All})}, {Acl({Tcp(1, 3)}, {All})}, {Acl({All}, {Tcp(0, 3)})},
               {Acl({All}, None)},
               {Acl({Tcp(0, 0)}, {All}), Acl({All}, {Tcp(0, 2)})}}}
  \cup {Subnet(FALSE, {Acl({All}, {All})}), [Subnet(TRUE, {}) EXCEPT !.present = FALSE]}

-----------------------------------------------------------------------------
(* Inputs of ResourcePolicies *)

PolicySt(allow, named, wildcard, aws, conditional) ==
  [allow |-> allow, named |-> named, wildcard |-> wildcard, aws |-> aws, conditional |-> conditional]
To(k) == [any |-> k = "*", account |-> IF k \in {"home", "away"} THEN k ELSE None]

MCPolicySts ==
  {PolicySt(TRUE, TRUE, TRUE, << >>, FALSE),
   PolicySt(TRUE, TRUE, FALSE, <<To("home"), To("*")>>, TRUE),
   PolicySt(TRUE, TRUE, FALSE, <<To("away"), To("role")>>, TRUE),
   PolicySt(TRUE, FALSE, FALSE, << >>, FALSE),
   PolicySt(FALSE, TRUE, TRUE, << >>, FALSE)}
MCPolicies == UNION {[1..n -> MCPolicySts] : n \in 0..2}

Holder(service, policy, blocked, uses) ==
  [service |-> service, policy |-> policy, blocked |-> blocked, uses |-> uses]
MCHolders ==
  {Holder("s3", p, b, {}) : p \in MCPolicies, b \in BOOLEAN}
  \cup {Holder(s, p, FALSE, {}) : s \in {"kms", "sqs"}, p \in MCPolicies}
  \cup {Holder(s, << >>, FALSE, {"used"}) : s \in {"secretsmanager", "ecs"}}
MCOthers ==
  {Holder(s, <<st>>, s = "s3", {}) :
     s \in {"s3", "lambda", "sns"}, st \in {x \in MCPolicySts : x.allow /\ x.named}}

MCHolderOptions == ("first" :> MCHolders) @@ ("second" :> MCOthers)

-----------------------------------------------------------------------------
(* Inputs of Topology *)

Network(table, leading, addressed, second) ==
  [vpc |-> (s1 :> "v") @@ (s2 :> "w") @@ ("main" :> "v") @@ ("other" :> "v") @@ ("far" :> "w"),
   main |-> ("v" :> "main") @@ ("w" :> "far"),
   table |-> (s1 :> table) @@ (s2 :> None),
   gateway |-> [t \in {"main", "other", "far"} |-> IF t \in leading THEN "igw" ELSE None],
   subnet |-> [m \in {"vm"} |-> s1],
   instance |-> ("eth0" :> "vm") @@ ("eth1" :> second),
   primary |-> [m \in {"vm"} |-> "eth0"],
   addressed |-> addressed,
   groups |-> ("eth0" :> {g1}) @@ ("eth1" :> {g2})]

MCNetworks ==
  {Network(table, leading, addressed, second) :
     table \in {None, "main", "other"}, leading \in SUBSET {"main", "other", "far"},
     addressed \in SUBSET {"eth0", "eth1"}, second \in {None, "vm"}}

MCOrders == {<<"ec2", "vpc">>, <<"vpc", "ec2">>, <<"ec2">>, <<"vpc">>}

-----------------------------------------------------------------------------
\* The input given to the side that does not run.
NoEntries == entries = << >> /\ egress = FALSE
NoResources ==
  /\ resource = [r \in Resources |-> Resource("elb", {Tcp(1, 1)}, FALSE, {}, {s1})]
  /\ group = [g \in Groups |-> None] /\ subnet = [s \in Subnets |-> Subnet(TRUE, {})]

NoHolders ==
  holder = [r \in {"first", "second"} |->
              IF r = "first" THEN Holder("ecs", << >>, FALSE, {"used"}) ELSE Holder("sns", <<PolicySt(TRUE, TRUE, TRUE, << >>, FALSE)>>, FALSE, {})]

NoNetwork == net = Network(None, {}, {}, None) /\ order = <<"ec2">>

MCInit ==
  /\ active \in {"acl", "exposure", "policy", "topology"}
  /\ active # "acl" => NoEntries
  /\ active # "exposure" => NoResources
  /\ active # "policy" => NoHolders
  /\ active # "topology" => NoNetwork
  /\ Init /\ Acls!Init /\ Policies!Init /\ Topologies!Init

AclStep == active = "acl" /\ Acls!Next /\ UNCHANGED <<active, exposureVars, policyVars, topologyVars>>
ExposureStep == active = "exposure" /\ Next /\ UNCHANGED <<active, aclVars, policyVars, topologyVars>>
PolicyStep == active = "policy" /\ Policies!Next /\ UNCHANGED <<active, exposureVars, aclVars, topologyVars>>
TopologyStep == active = "topology" /\ Topologies!Next /\ UNCHANGED <<active, exposureVars, aclVars, policyVars>>

MCSpec == MCInit /\ [][AclStep \/ ExposureStep \/ PolicyStep \/ TopologyStep]_allVars
=============================================================================

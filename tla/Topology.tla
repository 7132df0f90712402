------------------------------ MODULE Topology ------------------------------
(***************************************************************************)
(* What EC2Collector and VPCCollector record of instances, their network   *)
(* interfaces, subnets and route tables.  The listings come in pages of    *)
(* any order (here: one item), each may break off with a warning, and the  *)
(* results of both collectors are stored one after the other, a node of    *)
(* the same id replacing the one before it.                                *)
(***************************************************************************)
EXTENDS Naturals, Sequences, FiniteSets, Upserts

CONSTANTS Vpcs, Subnets, Tables, Gateways, Instances, Interfaces, Groups,
          Options,   \* what the network may be
          Orders,    \* orders in which the two services may be collected
          None

NetworkType ==
  [vpc : [Subnets \cup Tables -> Vpcs],
   main : [Vpcs -> Tables],
   table : [Subnets -> Tables \cup {None}],     \* explicit association
   gateway : [Tables -> Gateways \cup {None}],  \* of a live default route to the internet
   subnet : [Instances -> Subnets],
   instance : [Interfaces -> Instances \cup {None}],  \* None: not attached to one
   primary : [Instances -> Interfaces],
   addressed : SUBSET Interfaces,               \* with a public address
   groups : [Interfaces -> SUBSET Groups]]

\* Assumed where the constants get their values.
TopologyAssumption ==
  /\ Options \subseteq NetworkType /\ None \notin Tables \cup Gateways \cup Instances \cup Interfaces
  /\ \A n \in Options : /\ \A s \in Subnets : n.table[s] # None => n.vpc[n.table[s]] = n.vpc[s]
                        /\ \A v \in Vpcs : n.vpc[n.main[v]] = v
                        /\ \A i \in Instances : n.instance[n.primary[i]] = i
  /\ \A o \in Orders : o \in Seq({"ec2", "vpc"}) /\ \A i, j \in DOMAIN o : o[i] = o[j] => i = j

Listings == [ec2 |-> <<"instances">>, vpc |-> <<"tables", "subnets", "interfaces">>]

VARIABLES net,          \* AWS, which does not change during the collection
          order, at,    \* services to collect, and how many were started
          listing,      \* listings to come of the service in hand
          left,         \* items of the first of them
          associated, routed, mains,  \* publicRouteInfo: subnets, subnets, VPCs
          address,      \* instance nodes: the interface whose address they hold, None if none
          publicSubnet, \* subnet nodes: the property public
          edges,
          warned        \* listings that broke off

routes == <<associated, routed, mains>>
vars == <<net, order, at, listing, left, routes, address, publicSubnet, edges, warned>>

ItemsOf(name) ==
  CASE name = "instances" -> Instances [] name = "tables" -> Tables
    [] name = "subnets" -> Subnets [] name = "interfaces" -> Interfaces

Start(names) == listing' = names /\ left' = (IF names = <<>> THEN {} ELSE ItemsOf(names[1]))

Init ==
  /\ net \in Options /\ order \in Orders /\ at = 0
  /\ listing = <<>> /\ left = {}
  /\ associated = {} /\ routed = {} /\ mains = {}
  /\ address = << >> /\ publicSubnet = << >> /\ edges = {} /\ warned = {}

StartService ==
  /\ listing = <<>> /\ at < Len(order)
  /\ Start(Listings[order[at + 1]]) /\ at' = at + 1
  /\ UNCHANGED <<net, order, routes, address, publicSubnet, edges, warned>>

Take(name, x) ==
  /\ listing # <<>> /\ listing[1] = name /\ x \in left
  /\ left' = left \ {x}
  /\ UNCHANGED <<net, order, at, listing, warned>>

\* The address that DescribeInstances gives is that of the primary interface.
AddInstance(i) ==
  /\ Take("instances", i)
  /\ address' = Upsert(address, Row(i, IF net.primary[i] \in net.addressed THEN net.primary[i] ELSE None))
  /\ edges' = edges \cup {<<i, "deployed-in", net.subnet[i]>>}
  /\ UNCHANGED <<routes, publicSubnet>>

\* Fault: only associations with a table that leads to the internet are kept.
AddTableIfRouted(t) ==
  LET subnets == {s \in Subnets : net.table[s] = t}
      leads == net.gateway[t] # None
  IN  /\ Take("tables", t)
      /\ associated' = IF leads THEN associated \cup subnets ELSE associated
      /\ routed' = IF leads THEN routed \cup subnets ELSE routed
      /\ mains' = IF leads THEN mains \cup {v \in Vpcs : net.main[v] = t} ELSE mains
      /\ edges' = IF leads THEN edges \cup {<<t, "routes-to", net.gateway[t]>>} ELSE edges
      /\ UNCHANGED <<address, publicSubnet>>

AddTable(t) ==
  LET subnets == {s \in Subnets : net.table[s] = t}
      leads == net.gateway[t] # None
  IN  /\ Take("tables", t)
      /\ associated' = associated \cup subnets
      /\ routed' = IF leads THEN routed \cup subnets ELSE routed
      /\ mains' = IF leads THEN mains \cup {v \in Vpcs : net.main[v] = t} ELSE mains
      /\ edges' = IF leads THEN edges \cup {<<t, "routes-to", net.gateway[t]>>} ELSE edges
      /\ UNCHANGED <<address, publicSubnet>>

AddSubnet(s) ==
  /\ Take("subnets", s)
  /\ publicSubnet' = Upsert(publicSubnet,
       Row(s, s \in routed \/ (s \notin associated /\ net.vpc[s] \in mains)))
  /\ edges' = edges \cup {<<s, "deployed-in", net.vpc[s]>>}
  /\ UNCHANGED <<routes, address>>

\* An interface with a public address replaces its instance's node; its groups
\* become the instance's.
AddInterface(e) ==
  LET i == net.instance[e]
  IN  /\ Take("interfaces", e)
      /\ address' = IF i # None /\ e \in net.addressed THEN Upsert(address, Row(i, e)) ELSE address
      /\ edges' = IF i = None THEN edges ELSE edges \cup {<<i, "attached-to", g>> : g \in net.groups[e]}
      /\ UNCHANGED <<routes, publicSubnet>>

EndListing ==
  /\ listing # <<>> /\ left = {}
  /\ Start(Tail(listing))
  /\ UNCHANGED <<net, order, at, routes, address, publicSubnet, edges, warned>>

\* A page fails: the next listing goes on with what is known.
FailPage ==
  /\ listing # <<>> /\ left # {}
  /\ warned' = warned \cup {listing[1]}
  /\ Start(Tail(listing))
  /\ UNCHANGED <<net, order, at, routes, address, publicSubnet, edges>>

Next ==
  \/ StartService \/ EndListing \/ FailPage
  \/ \E i \in Instances : AddInstance(i)
  \/ \E t \in Tables : AddTable(t)
  \/ \E s \in Subnets : AddSubnet(s)
  \/ \E e \in Interfaces : AddInterface(e)

Spec == Init /\ [][Next]_vars

-----------------------------------------------------------------------------
(* Properties *)

TypeOK ==
  /\ net \in Options /\ order \in Orders /\ at \in 0..Len(order)
  /\ warned \subseteq {"instances", "tables", "subnets", "interfaces"}
  /\ associated \subseteq Subnets /\ routed \subseteq Subnets /\ mains \subseteq Vpcs
  /\ DOMAIN address \subseteq Instances /\ \A i \in DOMAIN address : address[i] \in Interfaces \cup {None}
  /\ DOMAIN publicSubnet \subseteq Subnets /\ \A s \in DOMAIN publicSubnet : publicSubnet[s] \in BOOLEAN

\* The route table in force: the one associated with the subnet, or else the main one.
TableOf(s) == IF net.table[s] # None THEN net.table[s] ELSE net.main[net.vpc[s]]

\* Whatever the order of the pages, a subnet is recorded as public exactly when the
\* table in force for it leads to a gateway.  When the route tables were not all
\* listed the answer may be wrong, but it is never public without a route of the
\* subnet's own table or of its VPC's main one.
SubnetsArePublicAsRouted ==
  \A s \in DOMAIN publicSubnet :
    /\ "tables" \notin warned => publicSubnet[s] = (net.gateway[TableOf(s)] # None)
    /\ publicSubnet[s] => \E t \in {TableOf(s), net.main[net.vpc[s]]} : net.gateway[t] # None

InterfacesOf(i) == {e \in Interfaces : net.instance[e] = i}

\* An instance never has the address or the group of another's interface.  When the
\* instances were listed before the interfaces, as all services are unless some are
\* named, and both to the end, an instance has an address exactly when one of its
\* interfaces does, and has the groups of all of them.
InstancesAreAddressed ==
  LET groups(i) == {e[3] : e \in {x \in edges : x[1] = i /\ x[2] = "attached-to"}}
      ofAll(i) == UNION {net.groups[e] : e \in InterfacesOf(i)}
      whole == order = <<"ec2", "vpc">> /\ at = 2 /\ listing = <<>> /\ {"instances", "interfaces"} \cap warned = {}
  IN  \A i \in Instances :
        /\ i \in DOMAIN address /\ address[i] # None => address[i] \in InterfacesOf(i) \cap net.addressed
        /\ groups(i) \subseteq ofAll(i)
        /\ whole => /\ i \in DOMAIN address
                    /\ address[i] # None <=> InterfacesOf(i) \cap net.addressed # {}
                    /\ groups(i) = ofAll(i)

\* What the exposure is derived from is as it is in AWS.
TopologyIsRecorded == SubnetsArePublicAsRouted /\ InstancesAreAddressed
=============================================================================

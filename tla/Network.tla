------------------------------- MODULE Network -------------------------------
(***************************************************************************)
(* What makes a resource reachable from outside: the topology and the ACL  *)
(* nodes as they are collected, the policies of resources, and the         *)
(* exposure derived from the network.  The parts share the subnets, the    *)
(* groups and the port ranges, and no state while they run.                *)
(***************************************************************************)
EXTENDS NetworkExposure

CONSTANTS Families, EntryOptions, MaxEntries,      \* AclPorts
          Holders, Accounts, Home, Targets,        \* ResourcePolicies
          HolderOptions, Anonymous,
          Vpcs, Tables, Gateways, Instances,       \* Topology
          Interfaces, NetworkOptions, Orders

VARIABLES entries, egress, i, j, segments, allowed, done,
          holder, waiting, asked, step, blocks, at, open, gated, external,
          nodes, edges, warned, failed,
          net, order, started, listing, unlisted, associated, routed, mains,
          address, publicSubnet, links, broken

Acls == INSTANCE AclPorts

Policies ==
  INSTANCE ResourcePolicies WITH
    Resources <- Holders, Options <- HolderOptions, resource <- holder,
    left <- waiting, current <- asked, public <- open

Topologies ==
  INSTANCE Topology WITH
    Options <- NetworkOptions, at <- started, left <- unlisted, edges <- links, warned <- broken

ASSUME NetworkAssumption ==
  Acls!EntryAssumption /\ Policies!ResourceAssumption /\ Topologies!TopologyAssumption

-----------------------------------------------------------------------------
\* What is said to be open is what the first rule that matches lets in.
FirstMatchDecides == Acls!FirstMatchDecides

\* A resource is called public, or shared, exactly when its own policy makes it so.
PublicAccessIsGranted == Policies!PublicAccessIsGranted

\* Subnets are public as their routes say, instances addressed as their interfaces are.
TopologyIsRecorded == Topologies!TopologyIsRecorded
=============================================================================

---------------------------- MODULE MCInventory ----------------------------
(***************************************************************************)
(* Three small inventories.  Net: an instance attached to a security group *)
(* open to the internet, hence exposed.  Multi: queues of two accounts and *)
(* two regions, the public policy of one of them, and a role of a global   *)
(* service.  Pair: a queue in each of two regions, one with a derived edge,*)
(* small enough for two processes that collect at the same time.           *)
(***************************************************************************)
EXTENDS Inventory, TLC

Resource(type, account, region) == [type |-> type, account |-> account, region |-> region]
Edge(from, type, to, emitter, with) ==
  [from |-> from, type |-> type, to |-> to, emitter |-> emitter, with |-> with]

NetNodes == {"instance", "group"}
NetEdges == {"attached", "ingress"}
NetDerived == {"exposed"}
NetDescribe ==
  [instance |-> Resource("ec2-instance", "a1", "r1"),
   group    |-> Resource("security-group", "a1", "r1")]
NetConnects ==
  [attached |-> Edge("instance", "attached-to", "group", "vpc", {"instance"}),
   ingress  |-> Edge("internet", "allows-ingress", "group", "vpc", {"group"}),
   exposed  |-> Edge("internet", "reachable-from", "instance", "derived", {})]
NetEmitters == [instance |-> {"ec2", "vpc"}, group |-> {"vpc"}]
NetSupports == [exposed |-> NetNodes \cup NetEdges]
NetPass == [exposed |-> 3]
NetInUse == {"ec2", "vpc"}

MultiNodes == {"near", "far", "foreign", "role"}
MultiEdges == {"public"}
MultiDerived == {}
MultiDescribe ==
  [near    |-> Resource("sqs-queue", "a1", "r1"),
   far     |-> Resource("sqs-queue", "a1", "r2"),
   foreign |-> Resource("sqs-queue", "a2", "r1"),
   role    |-> Resource("iam-role", "a1", "r1")]
MultiConnects ==
  [public |-> Edge("internet", "public-access", "near", "sqs", {"near"})]
MultiEmitters == [near |-> {"sqs"}, far |-> {"sqs"}, foreign |-> {"sqs"}, role |-> {"iam"}]
MultiSupports == <<>>
MultiPass == <<>>
MultiInUse == {"iam", "sqs"}

PairNodes == {"here", "there"}
PairEdges == {}
PairDerived == {"reads"}
PairDescribe ==
  [here  |-> Resource("sqs-queue", "a1", "r1"),
   there |-> Resource("sqs-queue", "a1", "r2")]
PairConnects ==
  [reads |-> Edge("internet", "reachable-from", "here", "derived", {})]
PairEmitters == [here |-> {"sqs"}, there |-> {"sqs"}]
PairSupports == [reads |-> {"here"}]
PairPass == [reads |-> 2]
PairInUse == {"sqs"}

Symmetry == Permutations(Procs)
=============================================================================

SPECIFICATION MCSpec
CONSTANTS
  Protocols = {"tcp", "udp"}
  MaxPort = 3
  Ephemeral = 2
  r1 = r1
  r2 = r2
  g1 = g1
  g2 = g2
  s1 = s1
  s2 = s2
  None = None
  Resources = {r1, r2}
  Groups = {g1, g2}
  Subnets = {s1, s2}
  ResourceOptions <- MCResourceOptions
  GroupOptions <- MCGroupOptions
  SubnetOptions <- MCSubnetOptions
  Families = {"ipv4", "ipv6"}
  EntryOptions <- MCEntryOptions
  MaxEntries = 3
  Holders = {"first", "second"}
  Accounts = {"home", "away"}
  Home = "home"
  Targets = {"used"}
  HolderOptions <- MCHolderOptions
  Anonymous = "anonymous"
  Vpcs = {"v", "w"}
  Tables = {"main", "other", "far"}
  Gateways = {"igw"}
  Instances = {"vm"}
  Interfaces = {"eth0", "eth1"}
  NetworkOptions <- MCNetworks
  Orders <- MCOrders
CHECK_DEADLOCK FALSE
INVARIANTS
  FirstMatchDecides
  PublicAccessIsGranted
  TopologyIsRecorded
  DefiniteIsComplete
  OpenPathIsDefinite
  UnknownIsPossible

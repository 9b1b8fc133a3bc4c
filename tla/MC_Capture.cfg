CONSTANTS
  lan = lan
  wan = wan
  eth = eth
  MaxPacket = 20
  Interfaces <- Remote
  Locals <- Local
  LocalUp = 1
  Casts <- FewCasts
  Answers <- Pages
  ChannelSize = 1
  SuppressFor = 2
  MaxSuppressed = 3
  Window = 1
  MaxFlows = 2
  NotAHost = {"none", "all"}
  MaxDevices = 2
  DeviceTtl = 2
  Oui <- Vendors
  VendorTypes <- OfVendor
  DhcpTypes <- OfRequestList
  ClassTypes <- OfClass
  MdnsTypes <- OfService
  SsdpTypes <- OfUpnp
  BannerTypes <- OfBanner
  Rank <- Order
SPECIFICATION FairSpec
INVARIANTS
  TypeOK
  PacketsComplete
  UpMatchesActive
  StatusTruthful
  FlowsConserved
  ExcludedHidden
  FingerprintsTold
PROPERTIES
  Recovers
  ClaimsPaced
CHECK_DEADLOCK FALSE

SPECIFICATION FairSpec
CONSTANTS
  LabelEnds <- MCLabelEnds
  NoAddr = NoAddr
  Zones <- MCZones
  HostsFile <- MCHostsFile
  HOSTS_TTL = 1
  ChainZones = {"ygg"}
  NoData = NoData
  BadData = BadData
  Replies <- MCReplies
  Types <- MCTypes
  UdpWorkers = {u1}
  TcpWorkers = {t1}
  Loads <- MCLoads
  Strategies = {"Forward", "Recursive"}
  Upstreams = {Upstream}
  Versions <- MCVersions
  ALLOW_RECURSIVE = TRUE
  CNAME_DEPTH = 2
  RESEND_WINDOW = 1
  WORKING_IDS = 1
  NoName = NoName
  MaxTime = 2
  MaxFailures = 1
  Upstream = Upstream
  NsAddr = NsAddr
  NsAddr2 = NsAddr2
INVARIANTS TypeOK StalenessIsBounded FilteredNamesStayLocal
PROPERTIES WorkersComeBack RequestsAreTaken
CHECK_DEADLOCK FALSE

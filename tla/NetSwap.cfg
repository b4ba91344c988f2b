SPECIFICATION Spec
CONSTANTS
  NoBlock = NoBlock
  NoTransaction = NoTransaction
  NoKey = NoKey
  NoHash = NoHash
  NoPeer = NoPeer
  k1 = k1
  k2 = k2
  k3 = k3
  n1 = n1
  n2 = n2
  n3 = n3
  none = none
  Nodes = {n1, n2}
  KeyOf <- MCKeyOf
  Bootstrap <- MCBootstrap
  FirstBlocks <- MCFirstBlocks
  Keys = {k1, k2, k3}
  StrongKeys = {k1, k2, k3}
  Identities = {none}
  WRONG_HASHES = {}
  Hashes <- MCHashes
  Blocks <- MCBlocks
  Origin <- MCOrigin
  Registrars = {k3}
  Base = 2
  Branches = 1
  Alone <- OneEach
  BLOCK_SIGNERS_START = 20
  BLOCK_SIGNERS_ALL = 3
  BLOCK_SIGNERS_MIN = 2
  LIMITED_CONFIDENCE_DEPTH = 1
  BLOCKS_WITHOUT_DISCOUNT = 6
  NEW_DOMAINS_INTERVAL = 2
  DOMAIN_LIFETIME = 1
  DOMAIN_RENEW_TIME = 1
  ONE_WEEK = 2
  CLOCK_SKEW = 0
  SIGNERS_MITIGATION = 3
  SIGNERS_RAMP = 100
  SIGNERS_RAMP_STEP = 10
  U64 = 1024
  Now = 5
  MIN_CONNECTED_NODES_START_SYNC = 1
  MAX_NODES = 1
  MaxWire = 1
  MaxMined = 0
  MaxFaults = 0
PROPERTIES
  ForksAreDecided

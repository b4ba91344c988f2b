SPECIFICATION Spec
CONSTANTS
  NoBlock = NoBlock
  NoTransaction = NoTransaction
  NoKey = NoKey
  NoHash = NoHash
  k1 = k1
  k2 = k2
  k3 = k3
  k4 = k4
  d1 = d1
  d2 = d2
  d3 = d3
  d4 = d4
  none = none
  Keys = {k1, k2, k3, k4}
  StrongKeys = {k1, k2, k3, k4}
  Identities = {d1, d2, d3, d4, none}
  WRONG_HASHES = {}
  Hashes <- MCHashes
  Blocks <- MCBlocks
  Origin <- MCOrigin
  Kinds <- ForkedKinds
  Zeros = {}
  BLOCK_SIGNERS_START = 4
  BLOCK_SIGNERS_ALL = 3
  BLOCK_SIGNERS_MIN = 2
  LIMITED_CONFIDENCE_DEPTH = 1
  BLOCKS_WITHOUT_DISCOUNT = 6
  NEW_DOMAINS_INTERVAL = 2
  DOMAIN_LIFETIME = 1
  DOMAIN_RENEW_TIME = 1
  ONE_WEEK = 2
  CLOCK_SKEW = 0
  SIGNERS_MITIGATION = 3
  SIGNERS_RAMP = 100
  SIGNERS_RAMP_STEP = 10
  U64 = 1024
  CheckBlocks = 2
  PeerHeights = {8}
  MaxTime = 4
INVARIANTS
  OwnershipAlwaysKept

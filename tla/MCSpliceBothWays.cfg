SPECIFICATION FairSpec
CONSTANTS
  Peers <- MCPeers
  Window = 2
  BUFFER_SIZE = 2
CHECK_DEADLOCK FALSE
PROPERTY
  CopiesBothWays

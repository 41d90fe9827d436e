SPECIFICATION FairSpec
CONSTANTS
  PASSWORD_HEX_LEN = 1
  IPV4_OCTETS = 1
  IPV6_OCTETS = 2
  ValidUtf8 <- MCValidUtf8
  PEEK_SIZE = 13
  COPY_BUF = 2
  Passwords <- MCPasswords
  Clients <- MCClients
  Backends <- MCBackends
INVARIANTS
  TypeOK
  RouteIgnoresFragmentation
  BytesConserved
  ShutdownIsComplete
  SessionCountsPayload
PROPERTIES
  KeepsContract
  DecidableIsRouted
  HalfCloseEndsRelay
CHECK_DEADLOCK FALSE

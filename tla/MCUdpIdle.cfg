SPECIFICATION FairSpec
CONSTANTS
  PASSWORD_HEX_LEN = 1
  IPV4_OCTETS = 1
  IPV6_OCTETS = 2
  ValidUtf8 <- MCValidUtf8
  UDP_BUFFER_SIZE = 2
  UDP_MAX_PAYLOAD_LEN = 2
  Clients <- MCClients
  Datagrams <- MCDatagrams
  Window = 12
  MaxDatagrams = 2
PROPERTY
  IdleAssociationEnds
CHECK_DEADLOCK FALSE

SPECIFICATION FairSpec
CONSTANTS
  PASSWORD_HEX_LEN = 56
  IPV4_OCTETS = 4
  IPV6_OCTETS = 16
  ValidUtf8 <- MCValidUtf8
  PEEK_SIZE = 512
  COPY_BUF = 2
  Passwords <- MCPasswords
  Clients <- HttpProbe
  Backends <- MCBackends
PROPERTY
  NonTrojanFallsBack
CHECK_DEADLOCK FALSE

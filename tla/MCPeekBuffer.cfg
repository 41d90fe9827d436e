SPECIFICATION Spec
CONSTANTS
  PASSWORD_HEX_LEN = 1
  IPV4_OCTETS = 1
  IPV6_OCTETS = 2
  ValidUtf8 <- MCValidUtf8
  NextBytes <- MCNextBytes
  MaxBuffer = 266
INVARIANTS
  HeaderEndExact
  ParsersAgree
  ShortIsBounded
PROPERTY
  VerdictStable
CHECK_DEADLOCK FALSE

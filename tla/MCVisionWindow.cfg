SPECIFICATION Spec
CONSTANTS
  PASSWORD_HEX_LEN = 1
  IPV4_OCTETS = 1
  IPV6_OCTETS = 2
  ValidUtf8 <- MCUtf8
  VISION_HASH_LEN = 1
  I64_HALF = 128
  MAX_SKEW = 3
  Sha224 <- MCSha224
  Passwords <- MCPasswords
  Wires <- MCWires
  Honest <- MCRequests
  Clocks <- LateClocks
  FallbackAddress = fallback
CHECK_DEADLOCK FALSE
INVARIANT
  AcceptedIsWithinWindow

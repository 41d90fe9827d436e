SPECIFICATION FairSpec
CONSTANTS
  ConfigFiles <- MCConfigFiles
  Disks <- MCDisks
  MAX_PERMITS = 2048
  c1 = c1
  c2 = c2
  c3 = c3
  c4 = c4
  Conns <- MCConns
  Stalled <- MCStalled
CHECK_DEADLOCK FALSE
INVARIANTS
  TypeOK
  ListensOnlyWhenUsable
  PermitsConserved
  SocketsBounded
PROPERTY
  EveryoneAccepted

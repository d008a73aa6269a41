CONSTANTS
  Streams = {s1, s2}
  Dirs = {"write"}
  Rate = 1
  Burst = 2
  GRate = 1
  GBurst = 1
  MinShare = 2
  MaxSingle = 3
  Singles = {0, 1}
  Want = 3
  MaxDecr = 2
SPECIFICATION FairSpec
INVARIANTS
  TypeOK
  BwSuspendedIffExhausted
  GroupOverdrawWithinMinShare
PROPERTY
  EveryStreamMovesItsBytes

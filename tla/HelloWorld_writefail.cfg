CONSTANTS
  c1 = c1
  c2 = c2
  Conns <- MC_Conns
  MsgLen = 2
  MaxSigs = 1
  LevEv = LevEv
  SigEv = SigEv
  ExitEv = ExitEv
  NoEvent = NoEvent
  BevNewMayFail = FALSE
  WriteMayFail = TRUE
SPECIFICATION FairSpec
INVARIANT FullMessageBeforeClose
CHECK_DEADLOCK FALSE

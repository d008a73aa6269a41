CONSTANTS
  c1 = c1
  c2 = c2
  Conns <- MC_Conns
  MsgLen = 2
  MaxSigs = 2
  LevEv = LevEv
  SigEv = SigEv
  ExitEv = ExitEv
  NoEvent = NoEvent
  BevNewMayFail = TRUE
  WriteMayFail = FALSE
SPECIFICATION FairSpec
INVARIANT TypeOK FullMessageBeforeClose
PROPERTY NoCallbackAfterFree EveryQueuedClientAnswered SigintShutsDown
CHECK_DEADLOCK FALSE

CONSTANTS
  c1 = c1
  c2 = c2
  Conns <- MC_Conns
  MsgLen = 2
  MaxSigs = 1
  LevEv = LevEv
  SigEv = SigEv
  ExitEv = ExitEv
  NoEvent = NoEvent
  BevNewMayFail = TRUE
  WriteMayFail = TRUE
SPECIFICATION Spec
INVARIANT NoConnAtBaseFree
CHECK_DEADLOCK FALSE

CONSTANTS
  MaxSend = 3
  MaxOut = 2
  MaxRead = 2
  MaxWrite = 1
  MaxTime = 4
  RTimeout = 2
  WTimeout = 2
  WLow = 0
  NoTimer = NoTimer
  RLow = 2
  RHigh = 2
  Connecting = TRUE
  WmLows = {1}
  WmHighs = {0, 1}
SPECIFICATION FairSpec
INVARIANTS
  TypeOK
  SuspendedIffAboveHigh
PROPERTY
  TimeoutOnlyAfterIdle
  NoReadStall
CHECK_DEADLOCK FALSE

CONSTANTS
  MaxSend = 4
  MaxOut = 2
  MaxRead = 1
  MaxWrite = 1
  MaxTime = 5
  RTimeout = 2
  WTimeout = 2
  WLow = 0
  NoTimer = NoTimer
  RLow = 3
  RHigh = 2
  Connecting = FALSE
  WmLows = {}
  WmHighs = {}
SPECIFICATION FairSpec
PROPERTY
  NoReadStall
CHECK_DEADLOCK FALSE

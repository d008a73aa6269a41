CONSTANTS
  r1 = r1
  r2 = r2
  t1 = t1
  Events <- MC_Events
  IoEvents <- MC_IoEvents
  Persist <- MC_Persist
  Prio <- MC_Prio
  NPrio = 2
  ExitEv = ExitEv
  NoEvent = NoEvent
  MaxActs = 3
  ActsPerPoll = FALSE
  MaxExits = 1
  MaxCalls = 1
  Fd <- MC_Fd
  Dynamic <- MC_Dynamic
SPECIFICATION FairSpec
INVARIANT TypeOK FreedEventsInert
PROPERTY NoStaleCallback ReAddSticks
CHECK_DEADLOCK FALSE

\* r1 (EV_PERSIST, priority 0) and r2 (priority 1) on one fd, t1 a timer at
\* priority 1, two active queues: the loopexit timer's callback shares the
\* queue of r2 and t1 and waits behind r1's.
CONSTANTS
  r1 = r1
  r2 = r2
  t1 = t1
  Events <- MC_Events
  IoEvents <- MC_IoEvents
  Persist <- MC_Persist
  Prio <- MC_Prio
  NPrio = 2
  ExitEv = ExitEv
  NoEvent = NoEvent
  MaxActs = 3
  ActsPerPoll = TRUE
  MaxExits = 1
  MaxCalls = 1
  Fd <- MC_Fd
  Dynamic = {}
SPECIFICATION FairSpec
PROPERTY LoopExitReturns
CHECK_DEADLOCK FALSE

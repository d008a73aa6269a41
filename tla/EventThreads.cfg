\* A base shared by the loop thread and a worker: e1 is torn down with
\* event_del() and a free(), e2 (EV_FINALIZE) with event_finalize().
CONSTANTS
  Events = {e1, e2}
  FinalizeFlag = {e2}
  NoEv = NoEv
  Notifiable = TRUE
  MaxActive = 2
  MaxReady = 2
SPECIFICATION FairSpec
INVARIANTS TypeOK NoCallbackOnFreedArg
PROPERTIES EverythingTornDown
\* event_base_dispatch() returns once both events are gone: the program ends.
CHECK_DEADLOCK FALSE

SPECIFICATION SafetySpec
CONSTANTS
  t1 = t1
  t2 = t2
  v = v
  Threads = {t1, t2, v}
  VmThreads = {v}
  NoThread = NoThread
  Calls = {"start", "stop", "flush"}
  MaxSessions = 2
INVARIANTS
  ControlSerial
  AddApart
  TableLive
  SignalsHaveSession
  ArmedHandled
\* The process may end, or use up its sessions.
CHECK_DEADLOCK FALSE

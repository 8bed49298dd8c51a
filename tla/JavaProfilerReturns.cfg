SPECIFICATION Spec
CONSTANTS
  t1 = t1
  v = v
  Threads = {t1, v}
  VmThreads = {v}
  NoThread = NoThread
  Calls = {"start", "stop", "flush"}
  MaxSessions = 2
PROPERTIES
  CallsReturn
\* The process may end, or use up its sessions.
CHECK_DEADLOCK FALSE

SPECIFICATION Spec
CONSTANTS
  t1 = t1
  Threads = {t1}
  VmThreads = {}
  NoThread = NoThread
  Calls = {"start", "stop"}
  MaxSessions = 1
INVARIANTS
  NeverKilled
\* The process may end, or use up its sessions.
CHECK_DEADLOCK FALSE

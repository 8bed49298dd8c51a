SPECIFICATION Spec
CONSTANTS
  t1 = t1
  t2 = t2
  Threads = {t1, t2}
  VmThreads = {}
  NoThread = NoThread
  Calls = {"start", "stop"}
  MaxSessions = 1
INVARIANTS
  HandlersDone
\* The process may end, or use up its sessions.
CHECK_DEADLOCK FALSE

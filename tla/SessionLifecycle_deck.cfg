\* Two terminals, one of them an agent, one request at a time, a server that may be killed
\* at any await, and an environment without faults.
SPECIFICATION Spec
CONSTANTS
  Sessions = {s1, s2}
  Agents = {s1}
  Ops = {o1}
  Kinds = {"stop", "delete", "restart", "killall", "killstale", "stopworktree", "finish", "reclaim", "report"}
  Faults = {}
  MaxSpawn = 2
  MaxCrash = 1
  ClosedMax = 1
INVARIANTS TypeOK DiskMirrorsDeck NoOrphan OneTree Reachable OpenOrClosed
PROPERTIES RecordSurvives KeepsContract
CHECK_DEADLOCK FALSE

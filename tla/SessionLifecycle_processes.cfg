\* One agent terminal whose resume may be refused, whose pty may not start,
\* whose dtach client may die alone and whose processes may ignore SIGKILL.
SPECIFICATION FairSpec
CONSTANTS
  Sessions = {s1}
  Agents = {s1}
  Ops = {o1}
  Kinds = {"stop", "delete", "restart", "killall", "killstale", "stopworktree", "finish", "reclaim", "report"}
  Faults = {"client", "spawn", "stubborn", "refused"}
  MaxSpawn = 2
  MaxCrash = 1
  ClosedMax = 1
PROPERTIES RequestsEnd
CHECK_DEADLOCK FALSE

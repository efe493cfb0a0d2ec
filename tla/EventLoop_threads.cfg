SPECIFICATION FairSpec
CONSTANTS
  r = r
  t = t
  d = d
  x = x
  n = n
  Events = {r, t}
  IO = {r}
  Persist = {r}
  Deferred = {d}
  Exits = {x}
  Notify = n
  Looper = Looper
  Others = {o}
  None = None
  NPri = 2
  Pri <- MCPri
  Intervals = {0, 1}
  MaxDeferreds = 0
  MaxTime = 1
  MaxCalls = 3
INVARIANTS Integrity NoLostWakeup FreedUnreferenced
PROPERTIES PriorityRespected Stops

SPECIFICATION Spec
CONSTANTS
  r = r
  t = t
  d = d
  x = x
  n = n
  Events = {r}
  IO = {r}
  Persist = {r}
  Deferred = {}
  Exits = {}
  Notify = n
  Looper = Looper
  Others = {o}
  None = None
  NPri = 2
  Pri <- MCPri
  Intervals = {1}
  MaxDeferreds = 0
  MaxTime = 1
  MaxCalls = 3
INVARIANT PendingWatched

SPECIFICATION Spec
CONSTANTS
  Sessions = {s1, s2}
  Workers = {w1, w2}
  Host = host
  Watch = watch_thread
  FromSwitch = {"query", "stop"}
  FromReset = {"query", "create", "start", "stop", "dispose"}
  FromCreate = {}
  MaxPeriods = 2
  NoSession = NoSession
  NoThread = NoThread
  Nobody = Nobody
  Other = Other
INVARIANT BuffersOutliveThread

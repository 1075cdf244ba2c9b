SPECIFICATION FairSpec
CONSTANTS
  Sessions = {s1}
  Workers = {w1, w2}
  Host = host
  Watch = watch_thread
  FromSwitch = {"query"}
  FromReset = {"query", "create", "start", "stop", "dispose"}
  FromCreate = {"query"}
  MaxPeriods = 1
  NoSession = NoSession
  NoThread = NoThread
  Nobody = Nobody
  Other = Other
INVARIANTS
  ThreadsEndFirst
  KernelFollowsDriver
PROPERTIES
  ResetsAreNeeded
  CallsReturn
  LossIsReported

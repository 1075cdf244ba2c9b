SPECIFICATION FairSpec
CONSTANTS
  Captures = {t1, t2, t3}
  PlaybackCount = 2
  Processors = 3
INVARIANTS
  CountedUntilQuiet
  PlaybackExclusive
PROPERTIES
  StopReturns

SPECIFICATION Spec
CONSTANTS
  Period = 3
  Transfer = 2
  PacketMax = 2
  Packets = 2
  CountMax = 9
INVARIANTS
  LatencyBounded
  DropsFollowSilence
  NoPeriodForgotten
  LatencyRestored
PROPERTY
  SilenceMeansLate

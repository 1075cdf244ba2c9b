SPECIFICATION FairSpec
CONSTANTS
  Meters = {m1, m2}
  NoMeter = NoMeter
  Loudest = 2
  METER_FALL = 1
CHECK_DEADLOCK FALSE
INVARIANTS
  PeaksAreKept
  MeasuredWhileOn
PROPERTIES
  OutcomeIsShown
  DialogAnswers

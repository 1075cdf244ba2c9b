SPECIFICATION Spec
CONSTANTS
  RATES = {44100, 48000, 88200, 96000, 192000}
  BUFFER_MULTIPLES = {1, 2, 4, 8, 16, 32}
  Default <- MCDefault
  TRANSFER_MS = 1
  MAX_PERIOD_FRAMES = 8192
  UsedRates = {48000, 192000}
  UsedMultiples = {1, 4}
  Missing = Missing
  NoRate = NoRate
  NoSession = NoSession
INVARIANTS
  SizesFit
  MismatchIsReported
  ChangeIsAsked

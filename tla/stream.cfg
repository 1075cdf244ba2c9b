SPECIFICATION StreamSpec
CONSTANTS
  Count = 2
  PacketFrames = 2
  LastFrame = 6
  NoTime = NoTime
  NoPacket = NoPacket
  ZERO_CROSSINGS = 1
  HISTORY = 8
  Rates = {44100, 48000, 88200}
  Conversions <- AllConversions
  LastPush = 12
  CardCrossings = 32
  CardHistory = 512
  CardRates = {44100, 48000, 88200, 96000, 192000}
INVARIANTS
  AcceptedIsHeard
  CaptureIsAnswered
  NotifiedIsAnswered
  RatioIsExact
  ConverterFits
  NothingOldIsHeard
PROPERTIES
  AcceptedBeforePlayed
  ConverterUsedInTurn

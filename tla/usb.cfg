SPECIFICATION Spec
CONSTANTS
  Rates = {44100, 192000}
  NoRate = NoRate
  Nothing = Nothing
  SYNC_ATTEMPTS = 4
  REPLY_ATTEMPTS = 8
  Room = 4
  Slow = {"info", "rate"}
INVARIANTS
  SyncAligns
  AnswerIsOwn
  AttemptsSuffice

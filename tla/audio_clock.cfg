SPECIFICATION Spec
CONSTANTS
  Streams = {s1, s2}
  Slots = {out12}
  SlotOf <- OneSlot
  Files = {f1, f2}
  Calls = {c1, c2}
  Rates = {r1, r2}
  NoRate = NoRate
  NoStream = NoStream
  NoFile = NoFile
  out12 = out12
  in12 = in12
  s1 = s1
  s2 = s2
  s3 = s3
PROPERTY
  ClockAsDocumented
CHECK_DEADLOCK FALSE

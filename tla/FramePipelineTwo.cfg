SPECIFICATION Spec
CONSTANTS
  inst1 = i1
  inst2 = i2
  inst3 = i3
  Sender = sender
  Presenters = {p}
  MaxIncrement = 0
  FrameLen = 1
  SizeModulus = 16
PROPERTY FrameKeptUnderLock

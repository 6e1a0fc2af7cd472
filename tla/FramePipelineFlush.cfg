SPECIFICATION Spec
CONSTANTS
  inst1 = i1
  inst2 = i2
  inst3 = i3
  Sender = sender
  Presenters = {}
  MaxIncrement = 1
  FrameLen = 2
  SizeModulus = 16
INVARIANT FlushForcesContinue

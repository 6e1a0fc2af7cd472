SPECIFICATION FairSpec
CONSTANTS
  IncModulus = 12
  ScanTime = 2
  RepeatWindow = 3
  cMaxDiffReplicate = 4
  cNoGyroCooldownFrames = 3
  cMaxRepeatedLoop = 2
INVARIANTS TypeOK GapFilled
PROPERTIES StampsInStep SignalsApart CallReturns

SPECIFICATION Spec
CONSTANTS
  IncModulus = 12
  ScanTime = 2
  RepeatWindow = 3
  cMaxDiffReplicate = 4
  cNoGyroCooldownFrames = 3
  cMaxRepeatedLoop = 2
INVARIANT ReplicaOnlyForMissed

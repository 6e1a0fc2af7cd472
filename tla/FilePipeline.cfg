SPECIFICATION FairSpec
CONSTANTS
  rec1 = r1
  rec2 = r2
  rec3 = r3
  MaxIncrement = 1
  DataLen = 2
  SizeModulus = 16
INVARIANTS TypeOK NoTornRead RestartAlone NothingSurvivesStop DecodedInOrder
PROPERTIES StuckReaderReplaced StopReturns

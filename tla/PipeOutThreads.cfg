SPECIFICATION Spec
CONSTANTS
  inst1 = i1
  inst2 = i2
  inst3 = i3
  MaxSent = 8
INVARIANTS TypeOK NoTornRead
PROPERTY IsLatestValue

SPECIFICATION MainSpec
CONSTANTS
  Addresses = {a1}
  Ids = {1}
  Slots = {0}
  DECKSLOT = 0
  cSendTimeout = 1
  cTimeoutIncreasePeriod = 2
  PacketModulus = 2
  UnsetTypes = {"unset"}
  MaxSignals = 2
INVARIANTS MainTypeOK DestroyedInOrder
PROPERTIES SignalStops

SPECIFICATION Spec
CONSTANTS
  Addresses = {a1, a2}
  Ids = {1}
  Slots = {0, 1}
  DECKSLOT = 0
  cSendTimeout = 1
  cTimeoutIncreasePeriod = 2
  PacketModulus = 3
  UnsetTypes = {"unset"}
INVARIANT AnswersTyped

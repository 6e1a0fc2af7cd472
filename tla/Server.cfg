SPECIFICATION FairSpec
CONSTANTS
  Addresses = {a1, a2}
  Ids = {1, 2}
  Slots = {0, 1}
  DECKSLOT = 0
  cSendTimeout = 1
  cTimeoutIncreasePeriod = 2
  PacketModulus = 3
  UnsetTypes = {"unset"}
INVARIANTS TypeOK SendThreadIffClients SubscribedOnce FoundClientKept
PROPERTIES StreamUnbroken SilentClientDropped DestructorReturns IsSubscription

CONSTANTS
  t1 = t1
  isr = isr
  Publishers = {t1, isr}
  IsrPublishers = {isr}
  Topics = {"config"}
  NumSlots = 2
  QueueDepth = 2
  MaxPublish = 2
  MaxGen = 2
  MaxSubscribe = 2
  NoEvent = NoEvent
SPECIFICATION FairSpec
INVARIANTS
  TypeOK
  EveryLossIsCounted
  HandlesOwnTheirSlot
  AtMostOneLateCall
PROPERTIES
  Implements
  SubscribersHear
CHECK_DEADLOCK FALSE

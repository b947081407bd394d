CONSTANTS
  pro = pro
  con1 = con1
  con2 = con2
  Producer = pro
  Consumers <- MCConsumers
  MAX = 6
  MaxSpurious = 2
SPECIFICATION FairSpec
INVARIANTS ConsumedInOrder NoLostWakeup SomeConsumerStranded
PROPERTIES ImplementsLiveChannel
\* The program really stops: the consumers wait for items nobody makes.
CHECK_DEADLOCK FALSE

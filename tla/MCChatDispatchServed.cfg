CONSTANTS
  c1 = c1
  c2 = c2
  c3 = c3
  t1 = t1
  t2 = t2
  t3 = t3
  Conns <- TwoConns
  Threads <- TwoThreads
  SlotCount = 2
  ListenFd = 3
  MaxDesc = 5
SPECIFICATION FairSpec
PROPERTY EveryoneServed
CHECK_DEADLOCK FALSE

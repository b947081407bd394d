CONSTANTS
  c1 = c1
  c2 = c2
  c3 = c3
  t1 = t1
  t2 = t2
  t3 = t3
  Conns <- ThreeConns
  Threads <- ThreeThreads
  SlotCount = 2
  ListenFd = 3
  MaxDesc = 5
SPECIFICATION Spec
SYMMETRY Interchangeable
INVARIANTS TypeOK ListenerSafe WatchCovered
CHECK_DEADLOCK FALSE

CONSTANTS
  c1 = c1
  c2 = c2
  Clients <- TwoClients
  LineLen <- TwoThenOne
  Lines <- TwoEach
  BufLen = 2
SPECIFICATION Spec
INVARIANTS TypeOK NoLostEdge EchoesOwn
PROPERTY SoleServed
\* The server may have ended, or all clients have left.
CHECK_DEADLOCK FALSE

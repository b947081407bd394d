CONSTANTS
  c1 = c1
  c2 = c2
  c3 = c3
  Clients <- ThreeClients
  LineLen <- TwoThenOne
  Lines <- OneOneNone
  BufLen = 2
  Slots = 2
SPECIFICATION Spec
INVARIANTS TypeOK BlocksOnlyOnGarbage TableCovers
PROPERTIES Served ImplementsEcho
\* The server may have ended, or all clients have left.
CHECK_DEADLOCK FALSE

CONSTANTS
  PACKET_SEND_MAX_NUM = 3
  Tries = 1
  MaxCalls = 3
  MaxStrangers = 2
  ForeignSeqs = {0, 3, 4}
  MaxNamesakes = 1
  MaxDups = 1
SPECIFICATION Spec
INVARIANTS TypeOK OverrunBounded HonestSuccess TrapsOnlyInterrupted
PROPERTY Returns
\* The last call has returned, or the process has ended.
CHECK_DEADLOCK FALSE

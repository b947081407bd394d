CONSTANTS
  s1 = s1
  s2 = s2
  alice = alice
  bob = bob
  carol = carol
  dave = dave
  erin = erin
  secret = secret
  guess = guess
  n1 = n1
  n2 = n2
  Sessions <- TwoSessions
  Names <- AllNames
  LongNames <- LongName
  Passwords <- TwoPasswords
  Quoted <- WithQuote
  Nodes <- TwoNodes
  Fds = {4, 5}
  Database <- TwoKnown
  Offered <- Everything
  MaxSends = 2
SPECIFICATION Spec
SYMMETRY Twins
INVARIANTS TypeOK  StoredForAdmitted GroupFindsHead ListTracksLogins
\* Clients may all have left, or the process may have been killed.
CHECK_DEADLOCK FALSE

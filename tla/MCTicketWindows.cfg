CONSTANTS
  w1 = w1
  w2 = w2
  w3 = w3
  w4 = w4
  Windows <- MCWindows
  Tickets = 3
SPECIFICATION TicketFairSpec
INVARIANTS NoTicketLost SaleExclusive
PROPERTY EndsSoldOut

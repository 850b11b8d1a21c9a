\* Two chains of two requests share the pool, no failure.
CONSTANTS
  c1 = c1
  c2 = c2
  c3 = c3
  c4 = c4
  k1 = k1
  None = None
  Calls <- FourCalls
  Keys <- OneKey
  Clients = 2
  Repeat = 2
  Responses <- ShortLength
  Flights = 1
  Tickets = TRUE
  Faults <- NoFault
  Reactions <- AgainOrClose
SPECIFICATION DriverSpec
CHECK_DEADLOCK FALSE
PROPERTY Ends

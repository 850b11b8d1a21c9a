\* One chain of three requests on one kept connection, no failure.
CONSTANTS
  c1 = c1
  c2 = c2
  c3 = c3
  c4 = c4
  k1 = k1
  None = None
  Calls <- ThreeCalls
  Keys <- OneKey
  Clients = 1
  Repeat = 3
  Responses <- LengthResponses
  Flights = 2
  Tickets = TRUE
  Faults <- NoFault
  Reactions <- AgainOrClose
SPECIFICATION DriverSpec
CHECK_DEADLOCK FALSE
INVARIANT AllAnswered
PROPERTY Ends

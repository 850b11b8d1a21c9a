\* Every http server with its clients, one to a behaviour; two connections.
CONSTANTS
  Conns = {c1, c2}
  None = None
  HelloBound = 2
  RowsBound = 3
  HttpsBound = 1
  FetchBound = 2
  HttpsFlights = 2
  HttpsTickets = 1
  FetchFlights = 3
  FetchTickets = 2
  SmallAnswer = 1
  BigAnswer = 4
  AmpleRoom = 4
  ScantRoom = 2
  AmpleRounds = 8
  ScantRounds = 4
  Descriptors = 2
  FewDescriptors = 1
  BatchLimit = 2
  Requests = 2
  SocketRoom = 1
  WaitingDepth = 1
  AheadDepth = 2
SPECIFICATION Spec
CHECK_DEADLOCK FALSE
INVARIANTS TypeOK Figures Matched
PROPERTIES TakesTurns Answered Freed

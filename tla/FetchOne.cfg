\* Two fetch() calls to one server that leave their connections open.
CONSTANTS
  c1 = c1
  c2 = c2
  c3 = c3
  k1 = k1
  k2 = k2
  None = None
  Calls <- TwoCalls
  Keys <- OneKey
  Responses <- OneLength
  Flights = 2
  Tickets = TRUE
  Faults <- NoFault
  Reactions <- OnlyKeep
SPECIFICATION Spec
CHECK_DEADLOCK FALSE
INVARIANT OwnCallback

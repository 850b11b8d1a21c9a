\* Bodies of both kinds cut into reads at every octet, each response closed.
CONSTANTS
  c1 = c1
  c2 = c2
  c3 = c3
  k1 = k1
  k2 = k2
  None = None
  Calls <- TwoCalls
  Keys <- OneKey
  Responses <- MixedResponses
  Flights = 2
  Tickets = TRUE
  Faults <- AnyFault
  Reactions <- OnlyClose
SPECIFICATION Spec
CHECK_DEADLOCK FALSE
PROPERTY ExactBody

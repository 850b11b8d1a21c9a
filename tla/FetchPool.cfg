\* Keep-alive over two servers, with every failure and every kind of caller.
CONSTANTS
  c1 = c1
  c2 = c2
  c3 = c3
  k1 = k1
  k2 = k2
  None = None
  Calls <- ThreeCalls
  Keys <- TwoKeys
  Responses <- LengthResponses
  Flights = 2
  Tickets = TRUE
  Faults <- AnyFault
  Reactions <- AnyReaction
SPECIFICATION Spec
SYMMETRY Symmetry
CHECK_DEADLOCK FALSE
INVARIANTS TypeOK PoolSound InStep
PROPERTIES ExactBody KeepsPromise

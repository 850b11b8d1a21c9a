\* Two chains, three calls, names that are not found, servers that close.
CONSTANTS
  c1 = c1
  c2 = c2
  c3 = c3
  k1 = k1
  None = None
  Calls <- AllCalls
  Jobs <- TwoJobs
  Keys <- OneKey
  Responses <- Bodies
  Flights = 2
  Tickets = TRUE
  Faults <- LookupsAndEnds
  Reactions <- OnlyKeep
SPECIFICATION MiniSpec
CHECK_DEADLOCK FALSE
INVARIANT OwnBody
PROPERTY OnlyReuseHangs

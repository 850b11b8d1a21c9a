\* Every program that starts threads or processes, one to a behaviour: eight
\* wakeups, eight signals, numbers of up to three digits, a word that wraps
\* beyond what four threads add to it.
CONSTANTS
  EventsLimit = 8
  EventsBound = 20
  Events4Limit = 4
  Events4Bound = 12
  SignalsLimit = 8
  SignalsBound = 6
  LastNumber = 5
  TopNumber = 7
  Worker = {w1, w2, w3}
  Additions = 3
  WordValues = 16
  Threads = 4
  PairRounds = 12
  Processes = 2
  OutputLines = 2
  SpawnCount = 2
  Spawn2Count = 3
SPECIFICATION Spec
CHECK_DEADLOCK FALSE
INVARIANTS TypeOK Signals Sums JoinedOnce Reaped
PROPERTIES Finishes Ends

\* Every echo and WebSocket program with its peers, one to a behaviour.
CONSTANTS
  One = {c1}
  Two = {c1, c2}
  Three = {c1, c2, c3}
  TcpPayload = 5
  TcpRoom = 7
  WriteOverhead = 1
  UnixPayload = 4
  UnixRoom = 3
  BpPayload = 5
  BpRoom = 6
  Seconds = 3
  Exchanges = 6
  RequestUnits = 3
  RequestKey = 2
  RequestRoom = 4
  ResponseParts = 2
  WholeShorts = 6
  PartsShorts = 8
SPECIFICATION Spec
CHECK_DEADLOCK FALSE
INVARIANTS TypeOK Conserved FiguresAgree Leftover InOrder
PROPERTY Completes

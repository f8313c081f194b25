\* Two calls over two connections of one agent, and a Send channel of capacity 1,
\* which the second call can find full.
SPECIFICATION Spec
CONSTANTS
  a1 = a1
  c1 = c1
  c2 = c2
  r1 = r1
  r2 = r2
  None = None
  SendCap = 1
  Agent <- OneAgent
  Conn <- TwoConns
  Req <- TwoCalls
SYMMETRY Symmetry
\* The connections and the calls run out.
CHECK_DEADLOCK FALSE
INVARIANTS
  TypeOK
  ReadPumpNeverBlocks
  PendingMatchesCalls
  RoutedConnectionIsOpen
  SendClosedOnce
  NobodyBlocks
PROPERTIES
  KeepsRPCContract

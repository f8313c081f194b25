\* Liveness of one call and of two connections of one agent.
SPECIFICATION FairSpec
CONSTANTS
  a1 = a1
  c1 = c1
  c2 = c2
  r1 = r1
  r2 = r2
  None = None
  SendCap = 1
  Agent <- OneAgent
  Conn <- TwoConns
  Req <- OneCall
\* The connections and the calls run out.
CHECK_DEADLOCK FALSE
PROPERTIES
  CallsReturn
  DeadConnectionsAreReaped
  NoZombieConnection

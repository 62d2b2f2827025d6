SPECIFICATION ServersSpec
CONSTANTS
  c1 = c1
  c2 = c2
  n1 = n1
  n2 = n2
  t1 = t1
  both = both
  Callers <- MCCallers
  Names <- MCNames
  NoOne = NoOne
  NoName = NoName
  MaxClients = 2
  ToolNames <- MCToolNames
  ToolsOf <- MCToolsOf
  NoPrefix <- MCNoPrefix
  Waiter = Waiter
INVARIANTS
  OneServerPerName
  NoServerLost
  CloseStopsAll
  ToolsStay
PROPERTIES CallsReturn

CONSTANTS
  Clients = {c1, c2}
  Tables = {a}
  MaxRequests = 3
SPECIFICATION Spec
INVARIANTS
  TablesAreSaved
  HandlesMatchTables
  NoFileIsLeft
  OpensAgain
  OwnConnection
  OwnParseTree
PROPERTIES
  ConnectionsAreServed
  RequestsGetThrough
CHECK_DEADLOCK FALSE

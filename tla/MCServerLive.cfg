CONSTANTS
  s1 = s1
  Txns = {0, 1, 2}
  fd = fd
  Tables = {fd}
  Records = {0, 1}
  Keys = {1}
  Loaded <- NoRow
  Sessions = {s1, s2}
  Statements = {"begin", "abort", "insert"}
  MaxRequests <- FourAndThree
SPECIFICATION Spec
PROPERTIES
  RequestsAreAnswered
CHECK_DEADLOCK FALSE

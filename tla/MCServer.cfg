CONSTANTS
  s1 = s1
  Txns = {0, 1, 2}
  fd = fd
  Tables = {fd}
  Records = {0, 1}
  Keys = {1, 2}
  Loaded <- OneRow
  Sessions = {s1, s2}
  Statements = {"begin", "commit", "abort", "bad", "insert", "select", "update", "delete"}
  MaxRequests <- Two
SPECIFICATION SafeSpec
INVARIANTS
  TypeOK
  CommitOrder
  AutocommitLeavesNothing
PROPERTIES
  ScansAreStable
  UsesLockManager
SYMMETRY SessionSymmetry
CHECK_DEADLOCK FALSE

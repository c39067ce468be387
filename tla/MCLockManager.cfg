CONSTANTS
  Txns = {t1, t2, t3}
  Tables = {tab}
  Records = {rec}
SYMMETRY Symmetry
SPECIFICATION CallSpec
INVARIANTS CompatibleLocks GroupModeIsStrongest
PROPERTIES GrantCovers NoSpuriousAbort ImplementsLockTable

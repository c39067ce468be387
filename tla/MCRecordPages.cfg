CONSTANTS
  t1 = t1
  t2 = t2
  Threads <- MCThreads
  num_records_per_page = 2
  MaxPages = 3
  MaxInserts = 4
SPECIFICATION Spec
INVARIANTS
  FreeListIsExact
  ScanVisitsEveryRecord
SYMMETRY Symmetry
CHECK_DEADLOCK FALSE

CONSTANTS
  num_records_per_page = 2
  LOG_BUFFER_SIZE = 4
  MaxTxns = 2
  MaxPages = 2
  MaxChanges = 3
  MaxRecords = 6
  MaxRuns = 2
SPECIFICATION Spec
INVARIANT RedoCompletes
CHECK_DEADLOCK FALSE

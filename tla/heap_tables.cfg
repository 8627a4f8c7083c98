SPECIFICATION Spec
CONSTANTS
  Names = {"orders", "parts"}
  Tables = {"orders", "parts"}
  FirstPage <- TwoFirstPages
  TableOf <- SplitTables
  MaxFrames = 2
  MaxPages = 5
  RowsPerPage = 1
  EntriesPerPage = 1
  MaxRows = 3
  BadRows = {"parts"}
  Inserters = {"io", "io2", "ip"}
  Scans = {s1}
  Marks = "placed"
  Flushes = FALSE
INVARIANTS
  ChainsSound
  ScanPosition
PROPERTIES
  ImplementsRowTable
  CallsEnd
CHECK_DEADLOCK FALSE

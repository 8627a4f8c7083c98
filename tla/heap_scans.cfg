SPECIFICATION Spec
CONSTANTS
  Names = {"orders"}
  Tables = {"orders"}
  FirstPage <- OneFirstPage
  TableOf <- SharedTable
  MaxFrames = 2
  MaxPages = 4
  RowsPerPage = 1
  EntriesPerPage = 1
  MaxRows = 3
  BadRows = {}
  Inserters = {"io"}
  Scans = {s1, s2}
  Marks = "never"
  Flushes = TRUE
SYMMETRY ScanSymmetry
INVARIANTS
  TypeOK
  ScanPosition
  ScanComplete
  PinsAreScans
PROPERTIES
  ImplementsRowTable

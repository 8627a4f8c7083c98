SPECIFICATION Spec
CONSTANTS
  Names = {"orders"}
  Tables = {"orders"}
  FirstPage <- OneFirstPage
  TableOf <- SharedTable
  MaxFrames = 3
  MaxPages = 5
  RowsPerPage = 1
  EntriesPerPage = 1
  MaxRows = 4
  BadRows = {}
  Inserters = {"io"}
  Scans = {s1, s2}
  Marks = "never"
  Flushes = FALSE
SYMMETRY ScanSymmetry
INVARIANTS
  EndMeansNoMore

SPECIFICATION Spec
CONSTANTS
  PageSize = 24
  SlotDirStart = 4
  SlotEntrySize = 2
  RecordSizes = {2, 3, 5}
  Overruns = {0}
  ValuesCanFail = TRUE
INVARIANTS
  TypeOK
  RecordsDisjoint
  FullAtCapacity
PROPERTIES
  RecordsStayPut

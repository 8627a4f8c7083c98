SPECIFICATION Spec
CONSTANTS
  PageSize = 104
  SlotDirStart = 48
  SlotEntrySize = 2
  NumSlotsPos = 8
  FreeStartPos = 10
  FreeEndPos = 12
  MaxStringLength = 14
  Values <- MCValues
  Schemas <- MCSchemas
INVARIANTS
  TypeOK
  RowsReadBack
PROPERTIES
  ImplementsLayout

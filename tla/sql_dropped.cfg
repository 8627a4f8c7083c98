SPECIFICATION Spec
CONSTANTS
  Columns <- MCColumns
  ValuesOf <- MCValuesOf
  MaxRows <- MCMaxRows
  MaxAllRows = 4
  Indexes <- MCIndexes
  Commands <- TwoLineCommands
  Lower <- MCLower
  Booleans = {"v"}
  Markable = {"scan", "index", "project"}
INVARIANTS
  WholeWhereRead

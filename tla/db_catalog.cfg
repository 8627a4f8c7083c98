SPECIFICATION Spec
CONSTANTS
  Names = {"orders", "parts"}
  Schemas = {"orders", "parts"}
  Temps = {"temp"}
  SchemaOf <- OwnSchemas
  RowsPerPage = 1
  EntriesPerPage = 1
  Illegible = {}
  Crashes = FALSE
  MaxPages = 7
  MaxRows = 3
INVARIANTS
  TypeOK
  TablesDisjoint
  EntryPagesExist
  NamesOwnFiles

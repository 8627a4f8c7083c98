SPECIFICATION Spec
CONSTANTS
  Names = {"orders", "parts"}
  Schemas = {"orders", "parts"}
  Temps = {}
  SchemaOf <- OwnSchemas
  RowsPerPage = 1
  EntriesPerPage = 1
  Illegible = {}
  Crashes = FALSE
  MaxPages = 6
  MaxRows = 3
INVARIANTS
  FoundAgain

SPECIFICATION Spec
CONSTANTS
  Names = {"orders", "parts"}
  Schemas = {"orders", "parts"}
  Temps = {"temp"}
  SchemaOf <- OwnSchemas
  RowsPerPage = 1
  EntriesPerPage = 5
  Illegible = {3}
  Crashes = TRUE
  MaxPages = 4
  MaxRows = 3
INVARIANTS
  FlushedRowsSurvive
  FoundAgain

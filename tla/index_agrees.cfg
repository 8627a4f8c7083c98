SPECIFICATION Spec
CONSTANTS
  Names = {"orders", "parts"}
  Schemas = {"orders", "parts"}
  SchemaOf <- OwnSchemas
  ValuesOf <- MCValuesOf
  Same <- PythonEqual
  ReadBack <- PageValue
  Buckets = {b1, b2}
  MaxRows = 2
  ShortScans = TRUE
SYMMETRY BucketSymmetry
INVARIANTS
  TypeOK
  IndexAgreesWithScan

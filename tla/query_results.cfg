SPECIFICATION Spec
CONSTANTS
  Columns <- MCColumns
  ValuesOf <- MCValuesOf
  MaxRows <- MCMaxRows
  MaxAllRows = 4
  Indexes <- MCIndexes
  Commands <- AllCommands
  Lower <- MCLower
  Booleans = {"v"}
  Markable = {"scan", "index", "project"}
INVARIANTS
  TypeOK
  QueryWasWritten
  PlanDoesTheQuery
  RowsAreTheAnswer
  AnswersAreTrue
  PagesGivenBack

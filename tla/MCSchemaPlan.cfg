SPECIFICATION SchemaSpec
CONSTANTS
  MaxTokens = 5
  ClickHouseDeclarations <- MCClickHouseDeclarations
  DorisDeclarations <- MCDorisDeclarations
INVARIANTS
  TypesUnderstood
  AcceptedSchemaRenders
  DorisValuesFit
CHECK_DEADLOCK FALSE

CONSTANTS
  None = None
  MeasureOrder <- MCOrder
  MaxSchemaRatio = 2
  MinDistinctFields = 2
  MaxEnumerated = 1
  Attributes = {"name"}
  Noise = {"noise"}
  Files <- MCFiles
  Previous <- MCPrevious
  Requests = {r1, r2}
  Schemas = {1, 2}
  Reads = 2
SPECIFICATION Spec
INVARIANTS
  UnitsAreFaithful
  ServedMeansOneScale
  NothingSilentlyMissing
CHECK_DEADLOCK FALSE

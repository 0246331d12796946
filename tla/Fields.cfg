CONSTANTS
  None = None
  Null = Null
  Empty = 0
  Fields <- MCFieldTable
  Reads <- MCReads
  Alphabet <- MCAlphabet
  ValuesPerProfile = 2
  MinOccurrences = 1
  MaxCategorical = 2
  ValuesPerField = 2
  MaxFacts = 9
  MaxDistinct = 3
  Concepts <- MCConcepts
  TypeName = 7
  TypeGlobalId = 8
  FamilyNames = {{"reference"}}
  Allowed = {{"fire", "rating"}, {"reference"}, {"width"}}
  MaxValues = 1
  MaxMatches = 1
  GlobalIdOf <- MCGlobalIds
  Worlds <- MCWorlds
  UserWords <- MCUserWords
  Limit = 2
SPECIFICATION FieldSpec
INVARIANTS
  ConditionHonoursTheValue
  RefusalIsTrue
  AccountedFor
  GroupHoldsItsMember
CHECK_DEADLOCK FALSE

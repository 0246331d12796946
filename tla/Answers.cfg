CONSTANTS
  None = None
  Objects <- Everything
  One = 1000
  ClassOf <- MCClassOf
  Value <- MCValue
  TextOf <- MCKeyOf
  MemberRows <- MCMembers
  Relating = {"relating"}
  Related = {"related"}
  MaxHops = 11
  MinNodes = 3
  MaxNodes = 4
  MaxEdges = 5
  MaxNodeIds = 2
  MaxSeeds = 4
  ListExamples = 4
  MaxBuckets = 2
  MaxNamed = 2
  MaxIdentities = 3
  MaxRows = 3
  MaxBars = 2
  MaxGroups = 2
  Plans <- MCPlans
  Drafts <- MCDrafts
SPECIFICATION Spec
INVARIANTS
  DeliveredIsTrue
  CardShowsHighlight
  DiagramIsComplete
CHECK_DEADLOCK FALSE

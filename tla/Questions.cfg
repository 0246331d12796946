CONSTANTS
  None = None
  MaxSpans = 4
  Ontology <- MCOntology
  Describes <- MCDescribes
  PerSpan = 2
  Total = 6
  Supplements = 2
  Similarity <- MCSimilarity
  Requests <- MCRequests
SPECIFICATION Spec
INVARIANTS
  NoQualifierLost
  EveryItemHasItsShare
  ClosureIsOneFamily
  FloorsMeanOneBand
CHECK_DEADLOCK FALSE

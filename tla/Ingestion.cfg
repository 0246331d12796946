\* One object, a relationship that connects it and one whose ends are not
\* rooted; two versions of the extraction code, three imports; batches of one,
\* so that every transaction boundary is a place to stop.
CONSTANTS
  e1 = e1
  r1 = r1
  r2 = r2
  Ents <- MCEnts
  Rels <- MCRels
  Ends <- MCEnds
  Versions = {1, 2}
  RelBatch = 1
  DocBatch = 1
  None = None
  MaxImports = 3
SPECIFICATION MCSpec
INVARIANTS CleanMeansWhole MembersAreStored ManifestDescribesModel
PROPERTIES ImplementsContract ImportsEnd
CHECK_DEADLOCK FALSE

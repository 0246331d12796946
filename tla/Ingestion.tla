----------------------------- MODULE Ingestion -----------------------------
(***************************************************************************)
(* ifc_to_db: one process imports one IFC file, phase by phase, each phase *)
(* with its own transactions.  It may stop between any two of them (a kill,*)
(* a device error, a database error) and is simply started again, possibly *)
(* with another version of the extraction code.                            *)
(***************************************************************************)
EXTENDS Naturals, FiniteSets

CONSTANTS Ents,       \* the rooted objects of the file
          Rels,       \* its relationships
          Ends,       \* Ends[r]: the objects r connects
          Versions,   \* values of EXTRACTION_VERSION
          RelBatch,   \* relationships of one transaction (BATCH = 200)
          DocBatch,   \* documents encoded at once (CUDA_BATCH_SIZE = 8)
          None

ASSUME IngestionAssumption ==
  /\ IsFiniteSet(Ents) /\ IsFiniteSet(Rels) /\ Ents \cap Rels = {}
  /\ Ends \in [Rels -> SUBSET Ents]
  /\ RelBatch \in Nat \ {0} /\ DocBatch \in Nat \ {0}

Items == Ents \cup Rels

\* What is stored for an item: its canonical JSON is that of a version; the
\* member rows of a relationship list ends of it and link those that are stored.
EntRow(v) == [version |-> v]
RelRow(v, listed, linked) == [version |-> v, listed |-> listed, linked |-> linked]

EntRows == {EntRow(v) : v \in Versions}
RelRows(r) == {RelRow(v, l, k) : v \in Versions, l \in SUBSET Ends[r], k \in SUBSET Ends[r]}
Rows(x) == IF x \in Ents THEN EntRows ELSE RelRows(x)
Image == [v \in Versions |-> [x \in Items |-> IF x \in Ents THEN EntRow(v)
                                              ELSE RelRow(v, Ends[x], Ends[x])]]

ASSUME NoneAssumption == \A x \in Items : None \notin Rows(x)

VARIABLES row,     \* ifc_entities, ifc_relationships, relationship_members: [Items -> rows or None]
          doc,     \* rag_documents: the row (source_hash, text_hash) each was written from, or None
          file,    \* the published manifest: the rows it describes, None, or "torn"
          phase,   \* where ifc_to_db is
          code,    \* the version of the running (or last) import
          left,    \* items the current phase has not reached
          plan,    \* the rows the vector phase read before it encoded
          temp,    \* the temporary manifest file of this process
          okay,    \* no failure and no warning so far
          valid,   \* manifest_stats["validated"]
          counted, \* total_rag_docs > 0
          report   \* the report of the last import: "none", "running", "partial", "clean"

store == <<row, doc, file>>
work  == <<left, plan, temp, okay, valid, counted>>
vars  == <<store, phase, code, work, report>>

Nothing == [x \in Items |-> None]
Stored  == {x \in Items : row[x] # None}

Init == /\ row = Nothing /\ doc = Nothing /\ file = None
        /\ phase = "idle" /\ code \in Versions
        /\ left = {} /\ plan = Nothing /\ temp = None
        /\ okay = TRUE /\ valid = FALSE /\ counted = FALSE
        /\ report = "none"

\* A batch of the items left: the next n of them in file order (any order here).
Batches(n) == {b \in SUBSET left : Cardinality(b) = IF Cardinality(left) < n THEN Cardinality(left) ELSE n}

-----------------------------------------------------------------------------
\* main, ifc_to_db: fingerprint, scan, unit context, connection, tables.
Start == /\ phase = "idle"
         /\ code' \in Versions
         /\ phase' = "entities" /\ report' = "running"
         /\ okay' = TRUE /\ valid' = FALSE /\ counted' = FALSE
         /\ UNCHANGED <<store, left, plan, temp>>

\* Phase 1: the source row and every object, in ONE transaction.  An object
\* whose extraction raises is counted and keeps the row it had.
ImportEntitiesReplacing ==   \* a seeded bug: the rows of the last import are dropped first
  /\ phase = "entities"
  /\ \E failed \in SUBSET Ents, warned \in BOOLEAN :
       /\ row' = [x \in Items |-> IF x \in Ents \ failed THEN EntRow(code) ELSE None]
       /\ okay' = (okay /\ failed = {} /\ ~warned)
  /\ left' = Rels /\ phase' = "relationships"
  /\ UNCHANGED <<doc, file, code, plan, temp, valid, counted, report>>

ImportEntities ==
  /\ phase = "entities"
  /\ \E failed \in SUBSET Ents, warned \in BOOLEAN :
       /\ row' = [x \in Items |-> IF x \in Ents \ failed THEN EntRow(code) ELSE row[x]]
       /\ okay' = (okay /\ failed = {} /\ ~warned)
  /\ left' = Rels /\ phase' = "relationships"
  /\ UNCHANGED <<doc, file, code, plan, temp, valid, counted, report>>

\* extract_member_rows, resolve_members: an end is linked when its GlobalId is
\* among the stored objects of this model.
MembersUnchecked(listed) == RelRow(code, listed, listed)   \* a seeded bug: every listed end is linked
Members(listed) == RelRow(code, listed, listed \cap Stored)

\* Phase 3, one transaction per batch: upsert, delete the old member rows,
\* insert the new ones.  A relationship of `failed` raised before its row was
\* reached and keeps what it had.  Of any other the members listed may be some
\* only: an end that could not be read is left out, and what raises once the
\* old members are deleted leaves those inserted so far, while the batch still
\* commits.  The first is told by the warning of the same failed read in
\* extract_relationship_canonical_json, the second by rel_failures.
ImportRelationships ==
  /\ phase = "relationships" /\ left # {}
  /\ \E b \in Batches(RelBatch) : \E failed \in SUBSET b, warned \in BOOLEAN :
       \E read \in {l \in [b \ failed -> SUBSET Ents] : \A r \in b \ failed : l[r] \subseteq Ends[r]} :
         /\ row' = [x \in Items |-> IF x \in b \ failed THEN Members(read[x]) ELSE row[x]]
         /\ okay' = (okay /\ failed = {} /\ ~warned /\ \A r \in b \ failed : read[r] = Ends[r])
         /\ left' = left \ b
  /\ UNCHANGED <<doc, file, phase, code, plan, temp, valid, counted, report>>

RelationshipsDone ==
  /\ phase = "relationships" /\ left = {}
  /\ phase' = "manifest"
  /\ UNCHANGED <<store, code, work, report>>

-----------------------------------------------------------------------------
\* Phase 3b, write_manifest: build and validate in memory, write a sibling file...
WriteManifestEarly ==   \* a seeded bug: the manifest may be built before the last batch
  /\ phase \in {"relationships", "manifest"} /\ temp = None
  /\ temp' = row
  /\ UNCHANGED <<store, phase, code, left, plan, okay, valid, counted, report>>
WriteManifest ==
  /\ phase = "manifest" /\ temp = None
  /\ temp' = row
  /\ UNCHANGED <<store, phase, code, left, plan, okay, valid, counted, report>>

\* ... and os.replace it over the final path.
PublishManifest ==
  /\ phase = "manifest" /\ temp # None
  /\ file' = temp /\ temp' = None /\ valid' = TRUE
  /\ phase' = "plan_entities"
  /\ UNCHANGED <<row, doc, code, left, plan, okay, counted, report>>

\* _build_manifest_phase: any exception is reported and the import goes on.
ManifestFails ==
  /\ phase = "manifest"
  /\ temp' = None /\ okay' = FALSE
  /\ phase' = "plan_entities"
  /\ UNCHANGED <<store, code, left, plan, valid, counted, report>>

-----------------------------------------------------------------------------
\* The resume test of run_vector_phase: an item whose stored hashes are those
\* of its row is skipped.
CurrentByVersion(x) == doc[x] # None /\ doc[x].version = row[x].version   \* a seeded bug
Current(x) == doc[x] = row[x]

\* Read the rows and the stored hashes, generate the texts (which may fail, or
\* be cut with a warning).
PlanOf(kind) ==
  \E untold \in SUBSET (kind \cap Stored), warned \in BOOLEAN :
    LET told == (kind \cap Stored) \ untold IN
    /\ left' = {x \in told : ~Current(x)}
    /\ plan' = [x \in Items |-> IF x \in left' THEN row[x] ELSE None]
    /\ okay' = (okay /\ untold = {} /\ ~warned)
    /\ counted' = (counted \/ \E x \in told : Current(x))

PlanEntities ==
  /\ phase = "plan_entities"
  /\ PlanOf(Ents)
  /\ phase' = "embed_entities"
  /\ UNCHANGED <<store, code, temp, valid, report>>

PlanRelationshipsCounted ==   \* a seeded bug: go on only when a document exists
  /\ phase = "embed_entities" /\ left = {} /\ counted
  /\ PlanOf(Rels)
  /\ phase' = "embed_relationships"
  /\ UNCHANGED <<store, code, temp, valid, report>>
PlanRelationships ==
  /\ phase = "embed_entities" /\ left = {}
  /\ PlanOf(Rels)
  /\ phase' = "embed_relationships"
  /\ UNCHANGED <<store, code, temp, valid, report>>

\* _encode_batch, _upsert_rag_document: one batch is encoded, then committed; a
\* vector that does not validate is counted and its document is left alone.
EmbedBatch ==
  /\ phase \in {"embed_entities", "embed_relationships"} /\ left # {}
  /\ \E b \in Batches(DocBatch) : \E invalid \in SUBSET b :
       /\ doc' = [x \in Items |-> IF x \in b \ invalid THEN plan[x] ELSE doc[x]]
       /\ left' = left \ b
       /\ okay' = (okay /\ invalid = {})
       /\ counted' = (counted \/ b # invalid)
  /\ UNCHANGED <<row, file, phase, code, plan, temp, valid, report>>

-----------------------------------------------------------------------------
\* build_unified_report.
fully_query_ready == valid /\ counted

Report ==
  /\ phase = "embed_relationships" /\ left = {}
  /\ report' = IF okay THEN "clean" ELSE "partial"
  /\ phase' = "idle" /\ plan' = Nothing
  /\ UNCHANGED <<store, code, left, temp, okay, valid, counted>>

\* The process stops: killed, or a database or device error it re-raises.  The
\* transaction it was in is rolled back.
Stop ==
  /\ phase # "idle"
  /\ phase' = "idle" /\ report' = "none" /\ temp' = None
  /\ left' = {} /\ plan' = Nothing
  /\ okay' = TRUE /\ valid' = FALSE /\ counted' = FALSE
  /\ UNCHANGED <<store, code>>

Step == \/ ImportEntities \/ ImportRelationships \/ RelationshipsDone
        \/ WriteManifest \/ PublishManifest \/ ManifestFails
        \/ PlanEntities \/ PlanRelationships \/ EmbedBatch \/ Report

Next == Start \/ Step \/ Stop

Spec == Init /\ [][Next]_vars /\ WF_vars(Step)

-----------------------------------------------------------------------------
\* Every variable has its type.
TypeOK ==
  /\ {row, doc} \subseteq [Items -> (UNION {Rows(x) : x \in Items}) \cup {None}]
  /\ \A x \in Items : {row[x], doc[x]} \subseteq Rows(x) \cup {None}
  /\ phase \in {"idle", "entities", "relationships", "manifest", "plan_entities",
                "embed_entities", "embed_relationships"}
  /\ code \in Versions /\ left \subseteq Items
  /\ {okay, valid, counted} \subseteq BOOLEAN
  /\ report \in {"none", "running", "partial", "clean"}

\* An import that reports no failure and no warning left the database, the
\* search documents and the manifest all describing the file under the
\* version that ran, however many stopped or partial imports came before it:
\* the resume test of the vector phase skips only what is current.
CleanMeansWhole ==
  report = "clean" => /\ row = Image[code]
                      /\ doc = row
                      /\ file = row

\* A member row that names an object of the model names one that is stored,
\* whatever objects failed to import and in whatever order imports stopped.
MembersAreStored ==
  \A r \in Rels : row[r] # None => row[r].linked \subseteq row[r].listed \cap Stored

\* The manifest of a model that has been reported on describes the rows the
\* report is about: nothing is written between the manifest and the report.
ManifestDescribesModel ==
  phase = "idle" /\ report # "none" /\ valid => file = row

\* The import, seen through its rows, documents, manifest and report, does
\* only what ImportContract allows.
verdict == IF report = "running" THEN "open" ELSE report

Contract == INSTANCE ImportContract WITH
  stored <- row, indexed <- doc, published <- file, goal <- code
ImplementsContract == Contract!CSpec

\* A started import ends, in a report or a stop: no phase waits for anything
\* and no batch is tried twice.
ImportsEnd == phase # "idle" ~> phase = "idle"

\* reporting.py:200: a model is fully query ready only when its structured
\* data, its manifest AND its vectors all succeeded.
ReadyMeansAll ==
  report \in {"partial", "clean"} /\ fully_query_ready =>
     \A x \in Items : row[x] # None /\ doc[x] = row[x]
=============================================================================

-------------------------- MODULE Ingestion_proofs --------------------------
(***************************************************************************)
(* For every file, every batch size and every set of versions: a clean     *)
(* report means that rows, documents and manifest are the image of the     *)
(* file, and the import implements ImportContract.                         *)
(***************************************************************************)
EXTENDS Ingestion, TLAPS

\* The part of the work done so far, as long as nothing has failed.
RowsDone ==
  okay => /\ phase = "relationships" =>
                /\ \A x \in Ents : row[x] = Image[code][x]
                /\ \A x \in Rels \ left : row[x] = Image[code][x]
          /\ phase \in {"manifest", "plan_entities", "embed_entities", "embed_relationships"} =>
                row = Image[code]

ManifestDone ==
  /\ IF phase = "manifest" THEN temp \in {None, row} ELSE temp = None
  /\ phase \in {"entities", "relationships", "manifest"} => valid = FALSE
  /\ phase \in {"plan_entities", "embed_entities", "embed_relationships"} =>
        /\ okay => valid
        /\ valid => file = row

DocsDone ==
  /\ phase = "embed_entities" =>
        /\ left \subseteq Ents \cap Stored
        /\ okay => \A x \in Ents \ left : doc[x] = row[x]
  /\ phase = "embed_relationships" =>
        /\ left \subseteq Rels \cap Stored
        /\ okay => \A x \in Items \ left : doc[x] = row[x]
  /\ phase \in {"embed_entities", "embed_relationships"} =>
        \A x \in left : plan[x] = row[x]

Reported ==
  /\ (phase # "idle") <=> (report = "running")
  /\ phase = "relationships" => left \subseteq Rels

\* The inductive invariant: each phase has done its part unless something failed.
IInv == /\ TypeOK /\ RowsDone /\ ManifestDone /\ DocsDone /\ Reported
        /\ CleanMeansWhole /\ MembersAreStored /\ ManifestDescribesModel

-----------------------------------------------------------------------------
\* The image of the file is made of rows.
LEMMA ImageType ==
  ASSUME NEW v \in Versions, NEW x \in Items
  PROVE  /\ Image[v][x] \in Rows(x)
         /\ x \in Ents => Image[v][x] = EntRow(v)
         /\ x \in Rels => Image[v][x] = RelRow(v, Ends[x], Ends[x])
<1>1. x \in Rels => x \notin Ents BY IngestionAssumption
<1>2. CASE x \in Ents BY <1>1, <1>2 DEF Image, Rows, EntRows, EntRow
<1>3. CASE x \in Rels
  <2>1. RelRow(v, Ends[x], Ends[x]) \in RelRows(x) BY <1>3, IngestionAssumption DEF RelRows
  <2> QED BY <1>1, <1>3, <2>1 DEF Image, Rows
<1> QED BY <1>2, <1>3 DEF Items

\* A relationship is stored as rows of its own, linked to stored objects only.
LEMMA MembersType ==
  ASSUME TypeOK, NEW r \in Rels, NEW l, l \subseteq Ends[r]
  PROVE  /\ Members(l) \in Rows(r)
         /\ Members(l).linked \subseteq Members(l).listed \cap Stored
         /\ Ents \subseteq Stored /\ l = Ends[r] => Members(l) = Image[code][r]
<1>1. r \in Items /\ r \notin Ents /\ Ends[r] \subseteq Ents BY IngestionAssumption DEF Items
<1>2. Members(l) = RelRow(code, l, l \cap Stored) BY DEF Members
<1>3. code \in Versions BY DEF TypeOK
<1>4. RelRow(code, l, l \cap Stored) \in RelRows(r)
  <2>1. l \in SUBSET Ends[r] /\ l \cap Stored \in SUBSET Ends[r] OBVIOUS
  <2> QED BY <1>3, <2>1 DEF RelRows
<1>5. Members(l) \in Rows(r) BY <1>1, <1>2, <1>4 DEF Rows
<1>6. Members(l).linked = l \cap Stored /\ Members(l).listed = l BY <1>2 DEF RelRow
<1>7. ASSUME Ents \subseteq Stored, l = Ends[r] PROVE Members(l) = Image[code][r]
  <2>1. l \cap Stored = Ends[r] BY <1>1, <1>7
  <2> QED BY <1>1, <1>2, <1>3, <1>7, <2>1, ImageType
<1> QED BY <1>5, <1>6, <1>7

LEMMA InitInv == Init => IInv
<1> SUFFICES ASSUME Init PROVE IInv OBVIOUS
<1>1. TypeOK BY DEF Init, TypeOK, Nothing
<1>2. MembersAreStored BY DEF Init, MembersAreStored, Nothing, Items
<1> QED BY <1>1, <1>2 DEF Init, IInv, RowsDone, ManifestDone, DocsDone, Reported,
      CleanMeansWhole, ManifestDescribesModel

-----------------------------------------------------------------------------
LEMMA StartInv == ASSUME IInv, Start PROVE IInv'
<1> USE DEF Start, IInv, store
<1>1. TypeOK' BY DEF TypeOK
<1>2. MembersAreStored' BY DEF MembersAreStored, Stored
<1> QED BY <1>1, <1>2 DEF RowsDone, ManifestDone, DocsDone, Reported,
      CleanMeansWhole, ManifestDescribesModel

LEMMA ImportEntitiesInv == ASSUME IInv, ImportEntities PROVE IInv'
<1> USE DEF IInv
<1>1. PICK failed \in SUBSET Ents, warned \in BOOLEAN :
        /\ row' = [x \in Items |-> IF x \in Ents \ failed THEN EntRow(code) ELSE row[x]]
        /\ okay' = (okay /\ failed = {} /\ ~warned)
      BY DEF ImportEntities
<1>2. code \in Versions /\ UNCHANGED <<doc, file, code, temp, valid, counted, report>>
      /\ phase = "entities" /\ phase' = "relationships" /\ left' = Rels
  BY DEF ImportEntities, TypeOK
<1>3. \A x \in Items : row'[x] \in Rows(x) \cup {None}
  <2> TAKE x \in Items
  <2>1. x \in Ents => EntRow(code) \in Rows(x) BY <1>2 DEF Rows, EntRows
  <2> QED BY <1>1, <2>1 DEF TypeOK
<1>4. TypeOK'
  <2>1. row' \in [Items -> (UNION {Rows(x) : x \in Items}) \cup {None}] BY <1>1, <1>3
  <2>2. okay' \in BOOLEAN BY <1>1 DEF TypeOK
  <2> QED BY <1>2, <1>3, <2>1, <2>2 DEF TypeOK, Items
<1>5. \A x \in Items : row[x] # None => row'[x] # None
  <2> TAKE x \in Items
  <2>1. x \in Ents => EntRow(code) # None BY <1>2, NoneAssumption DEF Rows, EntRows
  <2> QED BY <1>1, <2>1
<1>6. MembersAreStored'
  <2>1. \A r \in Rels : row'[r] = row[r] BY <1>1, IngestionAssumption DEF Items
  <2>2. Stored \subseteq Stored' BY <1>5 DEF Stored
  <2> QED BY <2>1, <2>2 DEF MembersAreStored
<1>7. RowsDone'
  <2>1. okay' => \A x \in Ents : row'[x] = Image[code][x] BY <1>1, <1>2, ImageType DEF Items
  <2> QED BY <1>2, <2>1 DEF RowsDone
<1> QED BY <1>2, <1>4, <1>6, <1>7 DEF ManifestDone, DocsDone, Reported,
      CleanMeansWhole, ManifestDescribesModel

LEMMA ImportRelationshipsInv == ASSUME IInv, ImportRelationships PROVE IInv'
<1> USE DEF IInv
<1>1. PICK b \in Batches(RelBatch) : \E failed \in SUBSET b, warned \in BOOLEAN :
        \E read \in {l \in [b \ failed -> SUBSET Ents] : \A r \in b \ failed : l[r] \subseteq Ends[r]} :
          /\ row' = [x \in Items |-> IF x \in b \ failed THEN Members(read[x]) ELSE row[x]]
          /\ okay' = (okay /\ failed = {} /\ ~warned /\ \A r \in b \ failed : read[r] = Ends[r])
          /\ left' = left \ b
  BY Zenon DEF ImportRelationships
<1>10. PICK failed \in SUBSET b, warned \in BOOLEAN :
        \E read \in {l \in [b \ failed -> SUBSET Ents] : \A r \in b \ failed : l[r] \subseteq Ends[r]} :
          /\ row' = [x \in Items |-> IF x \in b \ failed THEN Members(read[x]) ELSE row[x]]
          /\ okay' = (okay /\ failed = {} /\ ~warned /\ \A r \in b \ failed : read[r] = Ends[r])
          /\ left' = left \ b
  BY <1>1, Zenon
<1>11. PICK read \in {l \in [b \ failed -> SUBSET Ents] : \A r \in b \ failed : l[r] \subseteq Ends[r]} :
          /\ row' = [x \in Items |-> IF x \in b \ failed THEN Members(read[x]) ELSE row[x]]
          /\ okay' = (okay /\ failed = {} /\ ~warned /\ \A r \in b \ failed : read[r] = Ends[r])
          /\ left' = left \ b
  BY <1>10, Zenon
<1>2. /\ row' = [x \in Items |-> IF x \in b \ failed THEN Members(read[x]) ELSE row[x]]
      /\ left' = left \ b
      /\ okay' = (okay /\ failed = {} /\ ~warned /\ \A r \in b \ failed : read[r] = Ends[r])
      /\ \A r \in b \ failed : read[r] \subseteq Ends[r]
  BY <1>11
<1>3. /\ UNCHANGED <<doc, file, phase, code, temp, valid, counted, report>>
      /\ phase = "relationships" /\ code \in Versions
  BY DEF ImportRelationships, TypeOK
<1>4. b \subseteq Rels BY <1>3 DEF Batches, Reported
<1>5. \A x \in Items : row'[x] \in Rows(x) \cup {None} BY <1>2, <1>4, MembersType DEF TypeOK
<1>6. TypeOK'
  <2>1. row' \in [Items -> (UNION {Rows(x) : x \in Items}) \cup {None}] BY <1>2, <1>5
  <2>2. okay' \in BOOLEAN BY <1>2 DEF TypeOK
  <2> QED BY <1>2, <1>3, <1>5, <2>1, <2>2 DEF TypeOK
<1>7. Stored \subseteq Stored'
  <2>1. \A x \in Items : row[x] # None => row'[x] # None
    <3> TAKE x \in Items
    <3>1. x \in b \ failed => Members(read[x]) # None BY <1>2, <1>4, MembersType, NoneAssumption
    <3> QED BY <1>2, <3>1
  <2> QED BY <2>1 DEF Stored
<1>8. MembersAreStored'
  <2> SUFFICES ASSUME NEW r \in Rels, row'[r] # None
               PROVE  row'[r].linked \subseteq row'[r].listed \cap Stored'
    BY DEF MembersAreStored
  <2>1. CASE r \in b \ failed
    <3>1. row'[r] = Members(read[r]) /\ read[r] \subseteq Ends[r] BY <1>2, <2>1 DEF Items
    <3> QED BY <3>1, <1>7, MembersType
  <2>2. CASE r \notin b \ failed
    <3>1. row'[r] = row[r] BY <1>2, <2>2 DEF Items
    <3> QED BY <3>1, <1>7 DEF MembersAreStored
  <2> QED BY <2>1, <2>2
<1>9. RowsDone'
  <2> SUFFICES ASSUME okay'
               PROVE  /\ \A x \in Ents : row'[x] = Image[code][x]
                      /\ \A x \in Rels \ left' : row'[x] = Image[code][x]
    BY <1>3 DEF RowsDone
  <2>1. okay /\ failed = {} /\ \A r \in b : read[r] = Ends[r] BY <1>2
  <2>2. \A x \in Ents : row'[x] = row[x] BY <1>2, <1>4, IngestionAssumption DEF Items
  <2>3. Ents \subseteq Stored
    <3> SUFFICES ASSUME NEW x \in Ents PROVE row[x] # None BY DEF Stored, Items
    <3>1. row[x] = Image[code][x] BY <1>3, <2>1 DEF RowsDone
    <3> QED BY <1>3, <3>1, ImageType, NoneAssumption DEF Items
  <2>4. \A x \in b : row'[x] = Image[code][x]
    <3> TAKE x \in b
    <3>1. row'[x] = Members(Ends[x]) BY <1>2, <1>4, <2>1 DEF Items
    <3> QED BY <1>4, <2>3, <3>1, MembersType
  <2>5. \A x \in Rels \ left : row'[x] = Image[code][x]
    BY <1>2, <1>3, <2>1, <2>4 DEF RowsDone, Items
  <2> QED BY <1>2, <1>3, <2>1, <2>2, <2>4, <2>5 DEF RowsDone
<1> QED BY <1>2, <1>3, <1>6, <1>8, <1>9 DEF ManifestDone, DocsDone, Reported,
      CleanMeansWhole, ManifestDescribesModel

\* Within a phase that changes no rows.
LEMMA SameRows == ASSUME IInv, UNCHANGED row
  PROVE  MembersAreStored' /\ Stored' = Stored
BY DEF IInv, MembersAreStored, Stored

LEMMA RelationshipsDoneInv == ASSUME IInv, RelationshipsDone PROVE IInv'
<1> USE DEF RelationshipsDone, IInv, store, work
<1>1. TypeOK' BY DEF TypeOK
<1>2. okay => row = Image[code]
  <2> SUFFICES ASSUME okay PROVE row = Image[code] OBVIOUS
  <2>1. \A x \in Items : row[x] = Image[code][x] BY DEF RowsDone, Items
  <2>2. Image[code] = [x \in Items |-> Image[code][x]] BY DEF Image, TypeOK
  <2>3. row = [x \in Items |-> row[x]] BY DEF TypeOK
  <2> QED BY <2>1, <2>2, <2>3
<1> QED BY <1>1, <1>2, SameRows DEF RowsDone, ManifestDone, DocsDone, Reported,
      CleanMeansWhole, ManifestDescribesModel

LEMMA WriteManifestInv == ASSUME IInv, WriteManifest PROVE IInv'
<1> USE DEF WriteManifest, IInv, store
<1>1. TypeOK' BY DEF TypeOK
<1> QED BY <1>1, SameRows DEF RowsDone, ManifestDone, DocsDone, Reported,
      CleanMeansWhole, ManifestDescribesModel

LEMMA PublishManifestInv == ASSUME IInv, PublishManifest PROVE IInv'
<1> USE DEF PublishManifest, IInv
<1>1. TypeOK' BY DEF TypeOK
<1>2. file' = row BY DEF ManifestDone
<1> QED BY <1>1, <1>2, SameRows DEF RowsDone, ManifestDone, DocsDone, Reported,
      CleanMeansWhole, ManifestDescribesModel

LEMMA ManifestFailsInv == ASSUME IInv, ManifestFails PROVE IInv'
<1> USE DEF ManifestFails, IInv, store
<1>1. TypeOK'
  <2>1. {okay', valid', counted'} \subseteq BOOLEAN BY DEF TypeOK
  <2> QED BY <2>1 DEF TypeOK
<1> QED BY <1>1, SameRows DEF RowsDone, ManifestDone, DocsDone, Reported,
      CleanMeansWhole, ManifestDescribesModel

\* What the plan of the vector phase leaves out is current, unless a text failed.
LEMMA PlanFacts ==
  ASSUME IInv, NEW kind \in SUBSET Items, PlanOf(kind)
  PROVE  /\ left' \subseteq kind \cap Stored
         /\ \A x \in left' : plan'[x] = row[x]
         /\ {okay', counted'} \subseteq BOOLEAN
         /\ okay' => okay
         /\ okay' => \A x \in (kind \cap Stored) \ left' : doc[x] = row[x]
<1>1. PICK untold \in SUBSET (kind \cap Stored), warned \in BOOLEAN :
        /\ left' = {x \in (kind \cap Stored) \ untold : ~Current(x)}
        /\ plan' = [x \in Items |-> IF x \in left' THEN row[x] ELSE None]
        /\ okay' = (okay /\ untold = {} /\ ~warned)
        /\ counted' = (counted \/ \E x \in (kind \cap Stored) \ untold : Current(x))
  BY DEF PlanOf
<1>2. {okay', counted'} \subseteq BOOLEAN BY <1>1 DEF IInv, TypeOK
<1>3. left' \subseteq kind \cap Stored BY <1>1
<1>4. \A x \in left' : plan'[x] = row[x] BY <1>1, <1>3
<1>5. okay' => \A x \in (kind \cap Stored) \ left' : doc[x] = row[x] BY <1>1 DEF Current
<1>6. okay' => okay BY <1>1
<1> QED BY <1>2, <1>3, <1>4, <1>5, <1>6

\* An import without failures has stored every item by the time it plans.
LEMMA AllStored ==
  ASSUME IInv, okay, phase \in {"plan_entities", "embed_entities", "embed_relationships"}
  PROVE  Stored = Items
<1> SUFFICES ASSUME NEW x \in Items PROVE row[x] # None BY DEF Stored
<1>1. row[x] = Image[code][x] BY DEF IInv, RowsDone
<1>2. code \in Versions BY DEF IInv, TypeOK
<1> QED BY <1>1, <1>2, ImageType, NoneAssumption

LEMMA PlanEntitiesInv == ASSUME IInv, PlanEntities PROVE IInv'
<1>1. /\ PlanOf(Ents) /\ UNCHANGED <<row, doc, file, code, temp, valid, report>>
      /\ phase = "plan_entities" /\ phase' = "embed_entities"
  BY DEF PlanEntities, store
<1>2. Ents \in SUBSET Items BY DEF Items
<1>3. /\ left' \subseteq Ents \cap Stored
      /\ \A x \in left' : plan'[x] = row[x]
      /\ {okay', counted'} \subseteq BOOLEAN
      /\ okay' => okay
      /\ okay' => \A x \in (Ents \cap Stored) \ left' : doc[x] = row[x]
  BY <1>1, <1>2, PlanFacts
<1>4. okay' => Stored = Items BY <1>1, <1>3, AllStored
<1>5. TypeOK' BY <1>1, <1>2, <1>3 DEF IInv, TypeOK
<1>6. MembersAreStored' /\ Stored' = Stored BY <1>1, SameRows
<1>7. DocsDone' BY <1>1, <1>2, <1>3, <1>4, <1>6 DEF DocsDone
<1> QED BY <1>1, <1>3, <1>5, <1>6, <1>7 DEF IInv, RowsDone, ManifestDone, Reported,
      CleanMeansWhole, ManifestDescribesModel

LEMMA PlanRelationshipsInv == ASSUME IInv, PlanRelationships PROVE IInv'
<1>1. /\ PlanOf(Rels) /\ UNCHANGED <<row, doc, file, code, temp, valid, report>>
      /\ phase = "embed_entities" /\ phase' = "embed_relationships" /\ left = {}
  BY DEF PlanRelationships, store
<1>2. Rels \in SUBSET Items BY DEF Items
<1>3. /\ left' \subseteq Rels \cap Stored
      /\ \A x \in left' : plan'[x] = row[x]
      /\ {okay', counted'} \subseteq BOOLEAN
      /\ okay' => okay
      /\ okay' => \A x \in (Rels \cap Stored) \ left' : doc[x] = row[x]
  BY <1>1, <1>2, PlanFacts
<1>4. okay' => Stored = Items BY <1>1, <1>3, AllStored
<1>5. TypeOK' BY <1>1, <1>2, <1>3 DEF IInv, TypeOK
<1>6. MembersAreStored' /\ Stored' = Stored BY <1>1, SameRows
<1>7. okay' => \A x \in Items \ left' : doc[x] = row[x]
  <2> SUFFICES ASSUME okay', NEW x \in Items \ left' PROVE doc[x] = row[x] OBVIOUS
  <2>1. CASE x \in Ents BY <1>1, <1>3, <2>1 DEF IInv, DocsDone
  <2>2. CASE x \in Rels BY <1>3, <1>4, <2>2
  <2> QED BY <2>1, <2>2 DEF Items
<1>8. DocsDone' BY <1>1, <1>2, <1>3, <1>6, <1>7 DEF DocsDone
<1> QED BY <1>1, <1>3, <1>5, <1>6, <1>8 DEF IInv, RowsDone, ManifestDone, Reported,
      CleanMeansWhole, ManifestDescribesModel

LEMMA EmbedBatchInv == ASSUME IInv, EmbedBatch PROVE IInv'
<1>0. PICK b \in Batches(DocBatch) : \E invalid \in SUBSET b :
        /\ doc' = [x \in Items |-> IF x \in b \ invalid THEN plan[x] ELSE doc[x]]
        /\ left' = left \ b
        /\ okay' = (okay /\ invalid = {})
        /\ counted' = (counted \/ b # invalid)
  BY DEF EmbedBatch
<1>1. PICK invalid \in SUBSET b :
        /\ doc' = [x \in Items |-> IF x \in b \ invalid THEN plan[x] ELSE doc[x]]
        /\ left' = left \ b
        /\ okay' = (okay /\ invalid = {})
        /\ counted' = (counted \/ b # invalid)
  BY <1>0
<1>2. /\ UNCHANGED <<row, file, phase, code, plan, temp, valid, report>>
      /\ phase \in {"embed_entities", "embed_relationships"}
  BY DEF EmbedBatch
<1>3. b \subseteq left /\ left \subseteq Items BY DEF Batches, IInv, TypeOK
<1>4. \A x \in b : plan[x] = row[x] BY <1>2, <1>3 DEF IInv, DocsDone
<1>5. \A x \in Items : doc'[x] = IF x \in b \ invalid THEN row[x] ELSE doc[x]
  BY <1>1, <1>4
<1>6. TypeOK'
  <2>1. \A x \in Items : doc'[x] \in Rows(x) \cup {None} BY <1>5 DEF IInv, TypeOK
  <2>2. doc' \in [Items -> (UNION {Rows(x) : x \in Items}) \cup {None}] BY <1>1, <2>1
  <2>3. {okay', counted'} \subseteq BOOLEAN BY <1>1 DEF IInv, TypeOK
  <2>4. \A x \in Items : {row'[x], doc'[x]} \subseteq Rows(x) \cup {None}
    BY <1>2, <2>1 DEF IInv, TypeOK
  <2> QED BY <1>1, <1>2, <2>2, <2>3, <2>4 DEF IInv, TypeOK
<1>7. MembersAreStored' /\ Stored' = Stored BY <1>2, SameRows
<1>8. DocsDone'
  <2>1. CASE phase = "embed_entities"
    <3>1. okay' => \A x \in Ents \ left' : doc'[x] = row[x]
      BY <1>1, <1>5, <2>1 DEF IInv, DocsDone, Items
    <3> QED BY <1>1, <1>2, <1>7, <2>1, <3>1 DEF IInv, DocsDone
  <2>2. CASE phase = "embed_relationships"
    <3>1. okay' => \A x \in Items \ left' : doc'[x] = row[x]
      BY <1>1, <1>5, <2>2 DEF IInv, DocsDone
    <3> QED BY <1>1, <1>2, <1>7, <2>2, <3>1 DEF IInv, DocsDone
  <2> QED BY <1>2, <2>1, <2>2
<1> QED BY <1>1, <1>2, <1>6, <1>7, <1>8 DEF IInv, RowsDone, ManifestDone, Reported,
      CleanMeansWhole, ManifestDescribesModel

LEMMA ReportInv == ASSUME IInv, Report PROVE IInv'
<1> USE DEF Report, IInv, store
<1>1. TypeOK'
  <2>1. plan' \in [Items -> {None}] BY DEF Nothing
  <2> QED BY DEF TypeOK
<1>2. okay => row = Image[code] /\ file = row BY DEF RowsDone, ManifestDone
<1>3. okay => doc = row
  <2>1. okay => \A x \in Items : doc[x] = row[x] BY DEF DocsDone
  <2>2. doc = [x \in Items |-> doc[x]] /\ row = [x \in Items |-> row[x]] BY DEF TypeOK
  <2> QED BY <2>1, <2>2
<1>4. CleanMeansWhole' BY <1>2, <1>3 DEF CleanMeansWhole
<1>5. ManifestDescribesModel' BY DEF ManifestDone, ManifestDescribesModel
<1> QED BY <1>1, <1>4, <1>5, SameRows DEF RowsDone, ManifestDone, DocsDone, Reported

LEMMA StopInv == ASSUME IInv, Stop PROVE IInv'
<1> USE DEF Stop, IInv, store
<1>1. TypeOK' BY DEF TypeOK
<1> QED BY <1>1, SameRows DEF RowsDone, ManifestDone, DocsDone, Reported,
      CleanMeansWhole, ManifestDescribesModel

LEMMA StutterInv == ASSUME IInv, UNCHANGED vars PROVE IInv'
BY DEF IInv, vars, store, work, TypeOK, RowsDone, ManifestDone, DocsDone, Reported,
   CleanMeansWhole, MembersAreStored, ManifestDescribesModel, Stored

LEMMA NextInv == IInv /\ [Next]_vars => IInv'
BY StartInv, ImportEntitiesInv, ImportRelationshipsInv, RelationshipsDoneInv, WriteManifestInv,
   PublishManifestInv, ManifestFailsInv, PlanEntitiesInv, PlanRelationshipsInv, EmbedBatchInv,
   ReportInv, StopInv, StutterInv DEF Next, Step

LEMMA SpecInv == Spec => []IInv
BY InitInv, NextInv, PTL DEF Spec

-----------------------------------------------------------------------------
\* Every variable has its type.
THEOREM TypeCorrect == Spec => []TypeOK
BY SpecInv, PTL DEF IInv

\* A clean report is true: rows, documents and manifest are the image of the
\* file, however many imports were stopped or partial before.
THEOREM CleanImport == Spec => []CleanMeansWhole
BY SpecInv, PTL DEF IInv

\* Member rows link to stored objects only.
THEOREM StoredMembers == Spec => []MembersAreStored
BY SpecInv, PTL DEF IInv

\* The manifest of a reported import describes the rows as they are.
THEOREM DescribedModel == Spec => []ManifestDescribesModel
BY SpecInv, PTL DEF IInv
-----------------------------------------------------------------------------
\* The steps that write rows keep every row there is.
LEMMA RowsKept ==
  ASSUME IInv, ImportEntities \/ ImportRelationships
  PROVE  /\ DOMAIN row' = Items
         /\ \A x \in Items : row[x] # None => row'[x] # None
<1>1. code \in Versions BY DEF IInv, TypeOK
<1>2. CASE ImportEntities
  <2>1. PICK failed \in SUBSET Ents :
          row' = [x \in Items |-> IF x \in Ents \ failed THEN EntRow(code) ELSE row[x]]
    BY <1>2 DEF ImportEntities
  <2>2. \A x \in Ents : EntRow(code) # None BY <1>1, NoneAssumption DEF Rows, EntRows, Items
  <2> QED BY <2>1, <2>2
<1>3. CASE ImportRelationships
  <2>1. PICK b \in Batches(RelBatch) : \E failed \in SUBSET b : \E read \in [b \ failed -> SUBSET Ents] :
          /\ \A r \in b \ failed : read[r] \subseteq Ends[r]
          /\ row' = [x \in Items |-> IF x \in b \ failed THEN Members(read[x]) ELSE row[x]]
    BY <1>3 DEF ImportRelationships
  <2>2. PICK failed \in SUBSET b : \E read \in [b \ failed -> SUBSET Ents] :
          /\ \A r \in b \ failed : read[r] \subseteq Ends[r]
          /\ row' = [x \in Items |-> IF x \in b \ failed THEN Members(read[x]) ELSE row[x]]
    BY <2>1
  <2>3. PICK read \in [b \ failed -> SUBSET Ents] :
          /\ \A r \in b \ failed : read[r] \subseteq Ends[r]
          /\ row' = [x \in Items |-> IF x \in b \ failed THEN Members(read[x]) ELSE row[x]]
    BY <2>2
  <2>4. b \subseteq Rels BY <1>3 DEF Batches, IInv, Reported, ImportRelationships
  <2>5. \A x \in b \ failed : Members(read[x]) # None
    BY <2>3, <2>4, MembersType, NoneAssumption DEF IInv, Items
  <2> QED BY <2>3, <2>5
<1> QED BY <1>2, <1>3

LEMMA StepRefines ==
  ASSUME IInv, [Next]_vars PROVE [Contract!CNext]_(Contract!cvars)
<1> USE DEF Contract!cvars, verdict
<1>1. (report = "running" <=> phase # "idle") /\ report # "open" BY DEF IInv, TypeOK, Reported
<1>2. CASE Start
  <2>1. Contract!Begin BY <1>1, <1>2 DEF Start, store, Contract!Begin
  <2> QED BY <2>1 DEF Contract!CNext
<1>3. CASE ImportEntities \/ ImportRelationships
  <2>1. report = "running" /\ UNCHANGED <<doc, file, code, report>>
    BY <1>1, <1>3 DEF ImportEntities, ImportRelationships
  <2>2. Contract!Store BY <1>3, <2>1, RowsKept DEF Contract!Store
  <2> QED BY <2>2 DEF Contract!CNext
<1>4. CASE RelationshipsDone \/ WriteManifest \/ ManifestFails \/ PlanEntities \/ PlanRelationships
  BY <1>4 DEF RelationshipsDone, WriteManifest, ManifestFails, PlanEntities, PlanRelationships, store
<1>5. CASE PublishManifest
  <2>1. file' = row BY <1>5 DEF IInv, ManifestDone, PublishManifest
  <2>2. Contract!Publish BY <1>1, <1>5, <2>1 DEF PublishManifest, Contract!Publish
  <2> QED BY <2>2 DEF Contract!CNext
<1>6. CASE EmbedBatch
  <2>1. PICK b \in Batches(DocBatch) : \E invalid \in SUBSET b :
          doc' = [x \in Items |-> IF x \in b \ invalid THEN plan[x] ELSE doc[x]]
    BY <1>6 DEF EmbedBatch
  <2>2. PICK invalid \in SUBSET b :
          doc' = [x \in Items |-> IF x \in b \ invalid THEN plan[x] ELSE doc[x]]
    BY <2>1
  <2>3. phase \in {"embed_entities", "embed_relationships"} /\ UNCHANGED <<row, file, code, report>>
    BY <1>6 DEF EmbedBatch
  <2>4. b \subseteq left BY <2>1 DEF Batches
  <2>5. b \subseteq Stored /\ \A x \in b : plan[x] = row[x] BY <2>3, <2>4 DEF IInv, DocsDone
  <2>6. doc' = [x \in Items |-> IF x \in b \ invalid THEN row[x] ELSE doc[x]] BY <2>2, <2>5
  <2>7. (b \ invalid) \in SUBSET {x \in Items : row[x] # None} BY <2>5 DEF Stored
  <2>8. Contract!Index BY <1>1, <2>3, <2>6, <2>7 DEF Contract!Index
  <2> QED BY <2>8 DEF Contract!CNext
<1>7. CASE Report
  <2>1. report = "running" /\ report' \in {"partial", "clean"} /\ UNCHANGED <<row, doc, file, code>>
    BY <1>1, <1>7 DEF Report, store
  <2>2. IInv' BY <1>7, ReportInv
  <2>3. report' = "clean" => Contract!Whole
    BY <2>1, <2>2 DEF IInv, CleanMeansWhole, Contract!Whole
  <2>4. Contract!Conclude BY <2>1, <2>3 DEF Contract!Conclude
  <2> QED BY <2>4 DEF Contract!CNext
<1>8. CASE Stop
  <2>1. Contract!Conclude BY <1>1, <1>8 DEF Stop, store, Contract!Conclude
  <2> QED BY <2>1 DEF Contract!CNext
<1>9. CASE UNCHANGED vars BY <1>9 DEF vars, store
<1> QED BY <1>2, <1>3, <1>4, <1>5, <1>6, <1>7, <1>8, <1>9 DEF Next, Step

\* The import does only what the contract allows, for every file, batch size
\* and set of versions.
THEOREM ImportRefines == Spec => ImplementsContract
<1>1. Init => Contract!CInit BY DEF Init, Contract!CInit, Contract!Nothing, Nothing, verdict
<1>2. IInv /\ [Next]_vars => [Contract!CNext]_(Contract!cvars) BY StepRefines
<1> QED BY <1>1, <1>2, SpecInv, PTL DEF Spec, ImplementsContract, Contract!CSpec
=============================================================================

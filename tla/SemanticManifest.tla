-------------------------- MODULE SemanticManifest --------------------------
(***************************************************************************)
(* One IFC file on its way to the answers: its project units are           *)
(* registered and stored, its objects are extracted with their measures    *)
(* (measures.py, ifc_parser.py), the manifest is built from what is        *)
(* stored, validated and put in place, and the requests of the backend     *)
(* read it through a process cache (manifest/loader.py).  The extractor's  *)
(* registry goes on growing with the objects; the stored one does not.     *)
(***************************************************************************)
EXTENDS ManifestBuilder

CONSTANTS Files,      \* [units, objects, rels]: what the file may say
          Previous,   \* artifacts that may be in place already
          Requests,   \* requests of the backend that need the manifest
          Schemas,    \* MANIFEST_SCHEMA_VERSIONs of the ingestion that is run
          Reads       \* MANIFEST_SCHEMA_VERSION of the backend

\* A file: its project units in order and its objects.  An item of an object
\* is one property, quantity or measured attribute as written, those of the
\* type object first: [path, value, measure, unit].
Mentioned(f) ==
  {f.units[i] : i \in DOMAIN f.units}
  \cup UNION {{f.objects[o].items[i].unit : i \in DOMAIN f.objects[o].items} : o \in DOMAIN f.objects}
\* What the import takes from a file: fields by their path, and units of which
\* a measured value's own is no currency.
ASSUME FilesAreRead ==
  \A f \in Files :
    /\ Len(f.units) \in Nat /\ DOMAIN f.units = 1 .. Len(f.units)
    /\ Len(f.objects) \in Nat /\ DOMAIN f.objects = 1 .. Len(f.objects)
    /\ \A o \in DOMAIN f.objects : LET x == f.objects[o] IN
         /\ Len(x.items) \in Nat /\ DOMAIN x.items = 1 .. Len(x.items) /\ x.failed \subseteq ContainerKinds
         /\ \A i \in DOMAIN x.items : LET p == x.items[i].path IN
              /\ p = <<p[1], p[2], p[3]>> /\ p[1] \in ContainerKinds \cup {"attribute", "measurement"}
              /\ p[1] = "attribute" => p[2] = x.class /\ p[3] \in Attributes
              /\ x.items[i].measure \in Measures \cup {None}
              /\ x.items[i].measure # None /\ x.items[i].unit # None => Definition(x.items[i].unit) # None
\* No key is None, and what was in place is of another version.
ASSUME KeysAreKeys ==
  \A f \in Files : \A u \in Mentioned(f) : Definition(u) # None => None \notin {Slug(Definition(u))} \X Nat
ASSUME PreviousIsOlder == \A a \in Previous : a.schema # Reads

VARIABLES file,
          phase,      \* "units", "objects", "build", "done", "refused"
          schema,     \* version of the ingestion that runs
          registry,   \* MeasurementExtractor.registry, [reg, defaults]
          stored,     \* extraction_metadata["dimension_units"], of the same form
          db,         \* canonical JSON of the objects
          artifact,   \* the manifest in place, [content, schema]
          cache,      \* _CACHE[key]: the key is the same for one file
          request     \* a request's [at, got]

import == <<file, phase, schema, registry, stored, db>>
vars == <<import, artifact, cache, request>>

Init ==
  /\ file \in Files
  /\ phase = "units"
  /\ schema \in Schemas
  /\ registry = [reg |-> Empty, defaults |-> [m \in Measures |-> None]]
  /\ stored = registry
  /\ db = <<>>
  /\ artifact \in {None} \cup Previous
  /\ cache = None
  /\ request = [r \in Requests |-> [at |-> "new", got |-> None]]

\* MeasurementExtractor, to_json: the registry is copied into the source model's
\* row before the first object is extracted, and not again.
ReadUnits ==
  /\ phase = "units"
  /\ registry' = DefaultsOf(file.units)
  /\ stored' = registry'
  /\ db' = <<>>
  /\ phase' = IF Len(file.objects) = 0 THEN "build" ELSE "objects"
  /\ UNCHANGED <<file, schema, artifact, cache, request>>

-----------------------------------------------------------------------------
\* _container_measures: the unit of every typed item is registered, and the
\* last typed item of a field decides its measure; the value shown is the
\* last item's, typed or not (get_psets).
Of(items, p) == {i \in DOMAIN items : items[i].path = p}
Typed(items, p) == {i \in Of(items, p) : items[i].measure # None}
LastOf(places) == CHOOSE i \in places : \A j \in places : j <= i

\* _annotate_measure
Cell(reg, items, p) ==
  LET typed == Typed(items, p)
  IN [value |-> items[LastOf(Of(items, p))].value,
      measure |-> IF typed = {} THEN None ELSE items[LastOf(typed)].measure,
      override |-> IF typed = {} THEN None ELSE Register(reg, items[LastOf(typed)].unit).key]

\* extract_canonical_json: a kind whose extraction raises leaves no cells.
Extracted(reg, o) ==
  LET kept == {i \in DOMAIN o.items : o.items[i].path[1] \notin o.failed}
      added == RegisterAll(reg, [i \in DOMAIN o.items |->
                                   IF i \in kept /\ o.items[i].measure # None THEN o.items[i].unit ELSE None])
  IN [reg |-> added,
      row |-> [class |-> o.class, failed |-> o.failed, materials |-> o.materials,
               references |-> o.references, storey |-> o.storey,
               cells |-> [p \in {o.items[i].path : i \in kept} |-> Cell(added, o.items, p)]]]

ExtractObject ==
  /\ phase = "objects"
  /\ LET x == Extracted(registry.reg, file.objects[Len(db) + 1])
     IN /\ registry' = [registry EXCEPT !.reg = x.reg]
        /\ db' = Append(db, x.row)
  /\ phase' = IF Len(db) + 1 = Len(file.objects) THEN "build" ELSE "objects"
  /\ UNCHANGED <<file, schema, stored, artifact, cache, request>>

\* build_semantic_manifest, write_manifest: built from the database alone,
\* validated, then put in place at once.
Built == Document(db, file.rels, stored.reg, stored.defaults)
Publish ==
  /\ phase = "build" /\ Valid(Built)
  /\ artifact' = [content |-> Built, schema |-> schema]
  /\ phase' = "done"
  /\ UNCHANGED <<file, schema, registry, stored, db, cache, request>>
Refuse ==
  /\ phase = "build" /\ ~Valid(Built)
  /\ phase' = "refused"
  /\ UNCHANGED <<file, schema, registry, stored, db, artifact, cache, request>>

\* The file is imported again, by a newer ingestion.
Again ==
  /\ phase \in {"done", "refused"}
  /\ schema' \in {v \in Schemas : v > schema}
  /\ phase' = "units"
  /\ UNCHANGED <<file, registry, stored, db, artifact, cache, request>>

-----------------------------------------------------------------------------
\* get_semantic_manifest: the cache is looked up, the artifact is read and
\* validated, and the cache is set under the lock.
Usable(a) == a # None /\ a.schema = Reads

Hit(r) ==
  /\ request[r].at = "new" /\ cache # None
  /\ request' = [request EXCEPT ![r] = [at |-> "served", got |-> cache]]
  /\ UNCHANGED <<import, artifact, cache>>
Load(r) ==
  /\ request[r].at = "new" /\ cache = None
  /\ request' = [request EXCEPT ![r] = IF Usable(artifact) THEN [at |-> "loaded", got |-> artifact]
                                       ELSE [at |-> "unavailable", got |-> None]]
  /\ UNCHANGED <<import, artifact, cache>>
Store(r) ==
  /\ request[r].at = "loaded"
  /\ cache' = request[r].got
  /\ request' = [request EXCEPT ![r].at = "served"]
  /\ UNCHANGED <<import, artifact>>

Next == \/ ReadUnits \/ ExtractObject \/ Publish \/ Refuse \/ Again
        \/ \E r \in Requests : Hit(r) \/ Load(r) \/ Store(r)
Spec == Init /\ [][Next]_vars

-----------------------------------------------------------------------------
\* The unit an item is written in: its own, or the first the project declares.
UnitOf(it) == IF it.unit # None THEN it.unit ELSE Declared(file.units, it.measure)

\* The item whose value is shown.  A type may give the field a measure that the
\* object's own value does not have: the stored cell then combines the two.
Shown(o, p) == LET items == file.objects[o].items IN items[LastOf(Of(items, p))]
Masked(o, p) == Typed(file.objects[o].items, p) # {} /\ Shown(o, p).measure = None

\* What the stored registry says of a value's unit, through the value's key or
\* the default of its measure, is never wrong, whatever was registered before
\* and after it: it says nothing, or the definition of the unit in which the
\* value was written; and a value that has a unit has a key (measures.py).
UnitsAreFaithful ==
  \A o \in DOMAIN db : \A p \in DOMAIN db[o].cells :
    LET c == db[o].cells[p]
        k == Effective(c, stored.defaults)
        d == Definition(UnitOf(Shown(o, p)))
    IN c.measure # None /\ ~Masked(o, p) =>
         /\ k = None <=> d = None
         /\ k \in DOMAIN stored.reg \ {None} => stored.reg[k] = d

\* The objects that carry the field and do not mask the type's value all give it
\* one measure in one known unit.
Carrying(p) == {o \in DOMAIN file.objects : /\ p[1] \notin file.objects[o].failed
                                           /\ Of(file.objects[o].items, p) # {}}
OneScale(p) ==
  LET carriers == {o \in Carrying(p) : ~Masked(o, p)}
      scale(o) == <<Shown(o, p).measure, Definition(UnitOf(Shown(o, p)))>>
  IN /\ Carrying(p) # {}
     /\ \A o \in carriers : scale(o)[1] # None /\ scale(o)[2] # None /\ scale(o)[2].resolved
     /\ \A o, x \in carriers : scale(o) = scale(x)

\* A field a request may compare or total (ManifestConcept.unit_available) is on
\* one scale in the file, and the manifest it reads has the schema it knows.
ServedMeansOneScale ==
  \A r \in Requests : request[r].at = "served" =>
    /\ request[r].got.schema = Reads
    /\ \A c \in Concepts(request[r].got.content) :
         c.unit_available => OneScale(<<c.kind, c.set, c.field>>)

\* Every stored field is offered, or the manifest says that its container is not
\* interpretable; and every extraction that failed is declared.
NothingSilentlyMissing ==
  phase = "done" =>
    LET doc == artifact.content
        offered == {<<f.kind, f.set, f.field>> : f \in doc.fields}
    IN /\ \A p \in Fields(db) :
            \/ p \in offered
            \/ \E m \in doc.missing : m.capability = p[1] /\ m.scope = p[2] /\ m.why = "structure"
       /\ \A o \in DOMAIN file.objects : \A k \in file.objects[o].failed :
            \E m \in doc.missing : m.capability = k /\ m.why = "failure"

-----------------------------------------------------------------------------
(***************************************************************************)
(* What the sources say and the code does not do.                          *)
(***************************************************************************)

\* measures.py: "The model's own unit definitions are stored once per source
\* model; a value records only its measure type plus an explicit occurrence
\* override": every override that a manifest was built from is defined in it.
OverridesAreDefined ==
  phase = "done" =>
    \A p \in Fields(db) : \A c \in Cells(db, p) :
      c.override # None => c.override \in DOMAIN artifact.content.units

\* measurement.py: the unit is unknown where "Some populated occurrence carries
\* no supported measure type", so a field of which an object shows a value
\* without one is not offered for comparison.
UntypedMeansUnknown ==
  \A r \in Requests : request[r].at = "served" =>
    \A c \in Concepts(request[r].got.content) :
      c.unit_available => \A o \in DOMAIN file.objects : ~Masked(o, <<c.kind, c.set, c.field>>)

\* loader.py: "Keyed so that a changed model, file, schema, or builder all
\* invalidate naturally": once the file is imported again, the cache holds what
\* is in place.
CacheFollowsManifest ==
  (phase = "done" /\ cache # None /\ \A r \in Requests : request[r].at # "loaded") => cache = artifact
=============================================================================

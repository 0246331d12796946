-------------------------- MODULE ManifestBuilder --------------------------
(***************************************************************************)
(* The semantic manifest of one stored model (builder.py, coverage.py,     *)
(* schema.py), and the concepts the backend reads from it (manifest/       *)
(* schema.py).  db[o] is the canonical JSON of the object o: its class,    *)
(* the cells of its fields, the extractions that failed, its materials,    *)
(* classification references and storey.  A field is <<kind, set, name>>;  *)
(* the set of an attribute or a measurement is the class that declares it. *)
(***************************************************************************)
EXTENDS UnitRegistry

CONSTANTS MaxSchemaRatio,     \* DEFAULT_MAX_SCHEMA_RATIO
          MinDistinctFields,  \* DEFAULT_MIN_DISTINCT_FIELDS
          MaxEnumerated,      \* DEFAULT_MAX_ENUMERATED_VALUES
          Attributes,         \* _ATTRIBUTE_PATHS
          Noise               \* values that are identity artifacts (_is_noise_value)

ContainerKinds == {"property", "quantity"}

ClassCount(db, c) == Cardinality({o \in DOMAIN db : db[o].class = c})
Classes(db) == {db[o].class : o \in DOMAIN db}

Fields(db) == UNION {DOMAIN db[o].cells : o \in DOMAIN db}
Carriers(db, p) == {o \in DOMAIN db : p \in DOMAIN db[o].cells}
Cells(db, p) == {db[o].cells[p] : o \in Carriers(db, p)}

\* classify_field_coverage
Coverage(populated, total) ==
  IF total <= 0 \/ populated <= 0 THEN "absent" ELSE IF populated >= total THEN "populated" ELSE "partial"

-----------------------------------------------------------------------------
\* ContainerShape and classify_container_structure: a container with many
\* fields of which each object carries few has no field schema.
FieldsOf(db, kind, set) == {p \in Fields(db) : p[1] = kind /\ p[2] = set}
Occurrences(db, kind, set) == UNION {Carriers(db, p) : p \in FieldsOf(db, kind, set)}
Instances(db, kind, set) ==
  Cardinality({e \in (DOMAIN db) \X FieldsOf(db, kind, set) : e[2] \in DOMAIN db[e[1]].cells})
Containers(db) == {<<p[1], p[2]>> : p \in {q \in Fields(db) : q[1] \in ContainerKinds}}

Reliable(db, kind, set) ==
  LET distinct == Cardinality(FieldsOf(db, kind, set))
  IN \/ distinct < MinDistinctFields
     \/ distinct * Cardinality(Occurrences(db, kind, set))
          < MaxSchemaRatio * Instances(db, kind, set)

Failures(db, kind) == {o \in DOMAIN db : kind \in db[o].failed}

-----------------------------------------------------------------------------
\* _field_record: the id of a property and of a quantity is made the same way.
FieldId(p) ==
  <<CASE p[1] = "attribute" -> "attr" [] p[1] = "measurement" -> "meas" [] OTHER -> "prop", p[2], p[3]>>

\* _infer_data_type, overruled by a declared measure.
DataType(values, facts) ==
  IF facts.measured \/ (values # {} /\ \A v \in values : v = "number") THEN "number" ELSE "text"

FieldRecord(db, p, populated, total, facts) ==
  LET values == {c.value : c \in Cells(db, p)} \ Noise
  IN [id |-> FieldId(p), kind |-> p[1], set |-> p[2], field |-> p[3],
      populated |-> populated, total |-> total, coverage |-> Coverage(populated, total),
      type |-> DataType(values, facts), searchable |-> Cardinality(values) > MaxEnumerated,
      values |-> IF Cardinality(values) > MaxEnumerated THEN {} ELSE values,
      measured |-> facts.measured, state |-> facts.state, symbol |-> facts.symbol, safe |-> facts.safe]

NoFacts == [measured |-> FALSE, state |-> None, symbol |-> None, safe |-> FALSE]
Rows(db, p) == {[measure |-> c.measure, override |-> c.override] : c \in Cells(db, p)}

\* _container_fields, _container_measure_rows: fields of reliable containers.
ContainerField(db, reg, defaults, p) ==
  FieldRecord(db, p, Cardinality(Carriers(db, p)), Cardinality(Occurrences(db, p[1], p[2])),
              MeasureFacts(Rows(db, p), reg, defaults))

\* _build_object_level, _attribute_values_by_class: every class has every
\* attribute, and values that are noise are not counted.
AttributeField(db, c, a) ==
  LET p == <<"attribute", c, a>>
  IN FieldRecord(db, p, Cardinality({o \in Carriers(db, p) : db[o].cells[p].value \notin Noise}),
                 ClassCount(db, c), NoFacts)

\* _measurement_attribute_rows, _measurement_records.
MeasurementField(db, reg, defaults, p) ==
  FieldRecord(db, p, Cardinality(Carriers(db, p)), ClassCount(db, p[2]),
              MeasureFacts(Rows(db, p), reg, defaults))

FieldRecords(db, reg, defaults) ==
  {AttributeField(db, c, a) : c \in Classes(db), a \in Attributes}
  \cup {MeasurementField(db, reg, defaults, p) : p \in {q \in Fields(db) : q[1] = "measurement"}}
  \cup {ContainerField(db, reg, defaults, p) :
          p \in {q \in Fields(db) : q[1] \in ContainerKinds /\ Reliable(db, q[1], q[2])}}

-----------------------------------------------------------------------------
\* _build_containers, _container_classes.
ContainerRecord(db, kind, set) ==
  [id |-> <<kind, "set", set>>, kind |-> kind, set |-> set,
   coverage |-> IF Reliable(db, kind, set) THEN "populated" ELSE "unsupported_source_structure",
   applies |-> {db[o].class : o \in Occurrences(db, kind, set)}]
FailureRecord(kind) ==
  [id |-> <<kind, "set", None>>, kind |-> kind, set |-> None, coverage |-> "extraction_failure",
   applies |-> {}]
ContainerRecords(db) ==
  {ContainerRecord(db, k[1], k[2]) : k \in Containers(db)}
  \cup {FailureRecord(kind) : kind \in {k \in ContainerKinds : Failures(db, k) # {}}}

\* _build_materials: one record per class, absent when there is no value.
MaterialRecord(db, c) ==
  LET values == UNION {db[o].materials : o \in {x \in DOMAIN db : db[x].class = c}} \ Noise
  IN [id |-> <<"mat", c>>, values |-> {[name |-> v] : v \in values},
      coverage |-> IF values = {} THEN "absent" ELSE "populated"]
MaterialRecords(db) == {MaterialRecord(db, c) : c \in Classes(db)}

\* _build_classifications: only classes with a code or a description.
References(db, c) ==
  {ref \in UNION {db[o].references : o \in {x \in DOMAIN db : db[x].class = c}} :
     ref.code \notin Noise \/ ref.description \notin Noise}
ClassificationRecords(db) ==
  {[id |-> <<"cla", c>>, values |-> References(db, c), coverage |-> "populated"] :
     c \in {x \in Classes(db) : References(db, x) # {}}}

\* _build_relationship_level: by class, then by role.
RelationshipRecords(rels) ==
  {[id |-> <<"rel", c>>,
    values |-> UNION {{[role |-> m.role] : m \in r.members} : r \in {x \in rels : x.class = c}},
    coverage |-> IF \E r \in rels : r.class = c /\ r.members # {} THEN "populated" ELSE "absent"] :
     c \in {r.class : r \in rels}}

\* _build_global_level: spatial containment.
Containment(db) ==
  LET inside == Cardinality({o \in DOMAIN db : db[o].storey})
  IN IF inside = 0 THEN "absent" ELSE IF inside >= Cardinality(DOMAIN db) THEN "populated" ELSE "partial"

-----------------------------------------------------------------------------
\* _measured_field_totals, _missing_capabilities: what this model cannot answer.
Measured(db) == {p \in Fields(db) : \E c \in Cells(db, p) : c.measure # None}
\* Seeded bug: failed extractions are left out.
MissingStructureOnly(db, defaults) ==
  {[capability |-> k[1], scope |-> k[2], why |-> "structure"] :
     k \in {x \in Containers(db) : ~Reliable(db, x[1], x[2])}}
Missing(db, defaults) ==
  {[capability |-> k[1], scope |-> k[2], why |-> "structure"] :
     k \in {x \in Containers(db) : ~Reliable(db, x[1], x[2])}}
  \cup {[capability |-> k, scope |-> None, why |-> "failure"] :
          k \in {x \in ContainerKinds : Failures(db, x) # {}}}
  \cup {[capability |-> k, scope |-> None, why |-> "absent"] :
          k \in {x \in ContainerKinds : ~\E y \in Containers(db) : y[1] = x /\ Reliable(db, x, y[2])}}
  \cup (IF Measured(db) = {} THEN {[capability |-> "dimensional", scope |-> None, why |-> "absent"]} ELSE {})
  \cup {[capability |-> "dimensional", scope |-> m, why |-> "no default"] :
          m \in {x \in Measures : defaults[x] = None}}

\* build_semantic_manifest
Document(db, rels, reg, defaults) ==
  [classes    |-> Classes(db),
   fields     |-> FieldRecords(db, reg, defaults),
   containers |-> ContainerRecords(db),
   sections   |-> MaterialRecords(db) \cup ClassificationRecords(db) \cup RelationshipRecords(rels),
   contained  |-> Containment(db),
   units      |-> reg, defaults |-> defaults,
   missing    |-> Missing(db, defaults)]

-----------------------------------------------------------------------------
\* validate_document
UnitStates == {"uniform", "mixed", "unknown"}
CoverageStates == {"populated", "partial", "absent", "unsupported", "extraction_failure",
                   "unsupported_source_structure"}
Identified(doc) == doc.fields \cup doc.containers \cup doc.sections

BadCoverage(doc) == \E r \in Identified(doc) : r.coverage \notin CoverageStates
BadUnits(doc) == \E r \in doc.fields : \/ (r.measured /\ r.state \notin UnitStates)
                                      \/ (r.state = "uniform" /\ (r.symbol = None \/ ~r.safe))
SharedIds(doc) == \E q, r \in Identified(doc) : q # r /\ q.id = r.id
Valid(doc) == ~BadCoverage(doc) /\ ~BadUnits(doc) /\ ~SharedIds(doc)

-----------------------------------------------------------------------------
\* parse_manifest: one concept for each record; ManifestConcept.is_queryable and
\* unit_available.  A class without materials has no material concept.
Queryable(r) == r.coverage \notin {"unsupported", "extraction_failure", "unsupported_source_structure"}
FieldConcept(r) == [id |-> r.id, kind |-> r.kind, set |-> r.set, field |-> r.field,
                    queryable |-> Queryable(r), unit_available |-> r.state = "uniform" /\ r.symbol # None]
ContainerConcept(r) == [id |-> r.id, kind |-> r.kind, set |-> r.set, field |-> None,
                        queryable |-> Queryable(r), unit_available |-> FALSE]
SectionConcept(r) == [id |-> r.id, kind |-> r.id[1], set |-> None, field |-> r.id[2],
                      queryable |-> Queryable(r), unit_available |-> FALSE]
Concepts(doc) == {FieldConcept(r) : r \in doc.fields} \cup {ContainerConcept(r) : r \in doc.containers}
                 \cup {SectionConcept(r) : r \in {x \in doc.sections : x.id[1] = "mat" => x.values # {}}}
=============================================================================

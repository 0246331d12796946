-------------------------- MODULE FieldVocabulary --------------------------
(***************************************************************************)
(* semantic/vocabulary/builder.py and semantic/field_concepts.py: the      *)
(* bounded description of what a model stores, and the index of queryable  *)
(* fields made from it, as the set of the fields it knows.  Field ids and  *)
(* values are integers in their alphabetic order, classes are ordered by   *)
(* Alphabet.                                                               *)
(***************************************************************************)
EXTENDS StoredFields

CONSTANTS
  Alphabet,         \* the classes in alphabetic order
  ValuesPerProfile, \* vocab_max_values_per_profile
  MinOccurrences,   \* vocab_min_fact_occurrences
  MaxCategorical,   \* max_categorical
  ValuesPerField,   \* per_field_cap
  MaxFacts,         \* vocab_max_facts_total
  MaxDistinct,      \* _MAX_DISTINCT_VALUES
  Concepts          \* the fields of the model's manifest: [key, type, classes, measure, state, unit]
ASSUME VocabularyBounds ==
  {ValuesPerProfile, MinOccurrences, MaxCategorical, ValuesPerField, MaxFacts, MaxDistinct} \subseteq Nat \ {0}
ASSUME ConceptsAreOfFields == \A c \in Concepts : c.key \in DOMAIN Fields

Place(class) == CHOOSE i \in DOMAIN Alphabet : Alphabet[i] = class
FactKinds == <<"classification", "material", "name_stem", "object_type", "predefined_type",
               "property_coverage", "property_value", "storey", "type_name">>
Kind(fact) == CHOOSE i \in DOMAIN FactKinds : FactKinds[i] = fact.kind
KeysOf(fact) == {k \in DOMAIN Fields : Fields[k].fact = fact}
Holders(store, class, k) == {o \in store : o.class = class /\ k \in DOMAIN o.leaf}

\* _top_per_group: the most frequent rows, then the first in order.
Sooner(a, b) == a.count > b.count \/ (a.count = b.count /\ a.value < b.value)
Top(rows, cap) == {r \in rows : Cardinality({s \in rows : Sooner(s, r)}) < cap}

\* _grouped_attr and its siblings: GROUP BY class, value without noise; a name
\* is grouped by its stem.
Grouped(store, class, k) ==
  LET value(o) == IF Fields[k].fact = "name_stem" THEN Reads[o.leaf[k]].base ELSE o.leaf[k]
      rows == {o \in Holders(store, class, k) : o.leaf[k] # Null}
      groups == {[value |-> value(o), count |-> Cardinality({p \in rows : value(p) = value(o)})] : o \in rows}
  IN {g \in groups : ~Reads[g.value].noise}
Fact(class, kind, k, g) == [class |-> class, kind |-> kind, key |-> k, value |-> g.value, count |-> g.count]

Classes(store) == {o.class : o \in store}
AttributeFacts(store) ==
  UNION {{Fact(c, Fields[k].fact, k, g) : g \in Top(Grouped(store, c, k), ValuesPerProfile)} :
           c \in Classes(store), k \in {l \in DOMAIN Fields : Fields[l].fact \notin {"property_value", "none"}}}

\* _emit_property_value_facts: recurring values of a categorical field.
PropertyValues(store, class, k) ==
  LET rows == {g \in Grouped(store, class, k) : g.count >= MinOccurrences /\ Reads[g.value].short}
  IN IF Cardinality(rows) <= MaxCategorical THEN Top(rows, ValuesPerField) ELSE {}
PropertyValueFacts(store) ==
  UNION {{Fact(c, "property_value", k, g) : g \in PropertyValues(store, c, k)} :
           c \in Classes(store), k \in KeysOf("property_value")}

\* _emit_property_coverage_facts: the best populated fields of each class; its
\* value stands for "n/total populated".
CoverageFacts(store) ==
  UNION {{Fact(c, "property_coverage", r.value, [value |-> Cardinality({o \in store : o.class = c}), count |-> r.count]) :
            r \in Top({[value |-> k, count |-> Cardinality(Holders(store, c, k))] :
                         k \in {l \in KeysOf("property_value") : Holders(store, c, l) # {}}}, ValuesPerProfile)} :
           c \in Classes(store)}

\* _fair_trim: round by round, one fact of every class and kind.
Precedes(a, b) == Sooner(a, b) \/ (a.count = b.count /\ a.value = b.value /\ a.key < b.key)
Round(facts, f) == Cardinality({g \in facts : g.class = f.class /\ g.kind = f.kind /\ Precedes(g, f)})
Earlier(facts, f, g) ==
  LET place(h) == <<Round(facts, h), Place(h.class), Kind(h)>>
  IN \E i \in 1 .. 3 : place(f)[i] < place(g)[i] /\ \A j \in 1 .. i - 1 : place(f)[j] = place(g)[j]
FairTrim(facts) == {f \in facts : Cardinality({g \in facts : Earlier(facts, g, f)}) < MaxFacts}

\* build_model_vocabulary: what the field index is made from.
Vocabulary(store) ==
  [facts |-> FairTrim(AttributeFacts(store) \cup PropertyValueFacts(store) \cup CoverageFacts(store)),
   quantities |-> {k \in KeysOf("none") : Fields[k].kind = "quantity" /\ \E c \in Classes(store) : Holders(store, c, k) # {}}]

\* build_field_concept_index: the fields with a concept; a property has one if a
\* fact that was kept mentions it, an attribute or a fact of the type always, and
\* the measurements are those of the manifest.
PropertyConcepts(vocabulary) == {f.key : f \in vocabulary.facts} \cap KeysOf("property_value")
AttributeConcepts == {k \in DOMAIN Fields : Fields[k].kind \in FixedKinds}
MeasurementConcepts == {c.key : c \in {d \in Concepts : Fields[d.key].kind = "measurement"}}
FieldConcepts(vocabulary) ==
  PropertyConcepts(vocabulary) \cup vocabulary.quantities \cup AttributeConcepts \cup MeasurementConcepts

\* Seeded bug: one of the distinct values that may be read is not.
DistinctReadShort(values) == {v \in values : Cardinality({w \in values : w < v}) < MaxDistinct - 1}

\* _MAX_DISTINCT_VALUES: the first distinct values are read.
DistinctRead(values) == {v \in values : Cardinality({w \in values : w < v}) < MaxDistinct}

\* load_field_values: the distinct values in order, read from the database.
LoadFieldValues(store, k, classes) ==
  LET values == {Text(o, k) : o \in {p \in store : classes = {} \/ p.class \in classes}}
  IN IF Fields[k].kind \in {"quantity", "measurement"} THEN <<>>
     ELSE Ordered(DistinctRead(values \ {Null}) \ {Empty}, <)
=============================================================================

---------------------------- MODULE StoredFields ----------------------------
(***************************************************************************)
(* sql/field_registry.py, compiler.py, aggregates.py and entities.py: what *)
(* a field reference means in the canonical JSON of the stored objects and *)
(* what a condition, an aggregate or a grouping over it selects.           *)
(*                                                                         *)
(* An object is a record [id, class, leaf]: leaf maps the field ids it has *)
(* a key for to the value stored there, which may be Null.  A field id is  *)
(* described by Fields, a value by Reads.  A SQL comparison with NULL is   *)
(* never true.                                                             *)
(***************************************************************************)
EXTENDS Integers, Sequences, FiniteSets, FiniteSetsExt, Ordering

CONSTANTS
  Null,     \* JSON null
  Empty,    \* the empty string
  Fields,   \* field id |-> [kind, set, name, fact]: set and name are sets of words
  Reads     \* value |-> what the code reads in it:
            \*   lower, folded, stem   the classes of lower(), normalize_value, _morphological_key
            \*   base                  the name without the exporter's suffix
            \*   truth, number         parse_boolean; the number, if all of it is one
            \*   magnitude, unit       parse_number of it as a user's words
            \*   noise, short          _is_noise_value; 2 to 40 characters long
            \*   within, begins        the values it occurs in, and those it begins
            \*   shown, plain          safe_str: stripped and cut, None if blank; the class of lower(btrim())

\* Values are in alphabetic order; lower() merges no spellings that the case folding
\* of normalize_value keeps apart, and the empty string reads as nothing.
ASSUME ValuesAreRead ==
  /\ DOMAIN Reads \subseteq Int /\ {Null, None} \cap DOMAIN Reads = {}
  /\ \A v, w \in DOMAIN Reads : Reads[v].lower = Reads[w].lower =>
       Reads[v].folded = Reads[w].folded /\ Reads[v].stem = Reads[w].stem /\ Reads[v].truth = Reads[w].truth
  /\ Empty \in DOMAIN Reads =>
       Reads[Empty].folded = None /\ Reads[Empty].truth = None /\ Reads[Empty].number = None

FixedKinds == {"attribute", "type_fact"}
\* There are finitely many fields.
ASSUME FieldsAreTabled == IsFiniteSet(DOMAIN Fields) /\ DOMAIN Fields \subseteq Int

Text(o, k) == IF k \in DOMAIN o.leaf THEN o.leaf[k] ELSE Null
Number(o, k) == IF Text(o, k) = Null THEN None ELSE Reads[Text(o, k)].number

\* resolve_field: the fixed maps hold for every model, a set's field only where
\* an object has it, and a dimension is the quantity of that name in any set.
Located(store, k) == Fields[k].kind \in FixedKinds \/ \E o \in store : k \in DOMAIN o.leaf
ResolveField(store, ref) ==
  {k \in DOMAIN Fields :
     /\ Located(store, k) /\ Fields[k].name = ref.name
     /\ IF ref.kind = "dimension" THEN Fields[k].kind = "quantity"
        ELSE Fields[k].kind = ref.kind /\ Fields[k].set = ref.set}

\* resolve_concept: every field of that bare name.
ResolveConcept(store, name) ==
  {k \in DOMAIN Fields : Located(store, k) /\ Fields[k].name = name}

\* find_missing_values: the key is absent, or the value null, or empty.
State(o, k) ==
  IF k \notin DOMAIN o.leaf THEN "absent"
  ELSE IF o.leaf[k] = Null THEN "present_null"
  ELSE IF o.leaf[k] = Empty THEN "present_empty" ELSE "usable"

\* Seeded bug: an empty string counts as recorded.
UsableIfNotNull(o, k) == Text(o, k) # Null

\* _has_usable_value_expr: what IS_PRESENT selects and IS_MISSING leaves.
Usable(o, k) == k \in DOMAIN o.leaf /\ o.leaf[k] \notin {Null, Empty}

\* build_condition_expr, one operator of Operator each.
TextHolds(c, v) ==
  \/ c.op \in {"exact", "in"} /\ v \in c.texts
  \/ c.op = "not_in" /\ v \notin c.texts
  \/ c.op = "case_insensitive_exact" /\ \E w \in c.texts : Reads[w].lower = Reads[v].lower
  \/ c.op = "contains" /\ \E w \in c.texts : v \in Reads[w].within
  \/ c.op = "starts_with" /\ \E w \in c.texts : v \in Reads[w].begins
NumberHolds(c, n) ==
  LET first == c.numbers[1]
      given == {c.numbers[i] : i \in DOMAIN c.numbers}
  IN \/ c.op = "eq" /\ n = first
     \/ c.op = "ne" /\ n # first
     \/ c.op = "gt" /\ n > first
     \/ c.op = "gte" /\ n >= first
     \/ c.op = "lt" /\ n < first
     \/ c.op = "lte" /\ n <= first
     \/ c.op = "between" /\ first <= n /\ n <= c.numbers[2]
     \/ c.op = "in" /\ n \in given
     \/ c.op = "not_in" /\ n \notin given
Holds(c, o) ==
  \/ c.op = "is_present" /\ Usable(o, c.key)
  \/ c.op = "is_missing" /\ ~Usable(o, c.key)
  \/ c.texts # {} /\ Text(o, c.key) # Null /\ TextHolds(c, Text(o, c.key))
  \/ c.numbers # <<>> /\ Number(o, c.key) # None /\ NumberHolds(c, Number(o, c.key))

\* _entity_where: no classes means every class.
Where(store, classes, conditions) ==
  {o \in store : (classes = {} \/ o.class \in classes) /\ \A c \in conditions : Holds(c, o)}

\* _identities_for_where: the first limit by id, and the exact total.
Identities(matched, limit) ==
  LET rows == {o.id : o \in {p \in matched : Cardinality({q \in matched : q.id < p.id}) < limit}}
  IN [rows |-> rows, total |-> Cardinality(matched), truncated |-> Cardinality(matched) > Cardinality(rows)]
ClassCounts(matched) == [c \in {o.class : o \in matched} |-> Cardinality({o \in matched : o.class = c})]

\* compute_aggregate: over the objects whose value is a number.
Aggregate(matched, k, function) ==
  LET covered == {o \in matched : Number(o, k) # None}
      numbers == {Number(o, k) : o \in covered}
      sum == MapThenSumSet(LAMBDA o : Number(o, k), covered)
  IN [matched |-> Cardinality(matched),
      coverage |-> IF function = "count" THEN Cardinality(matched) ELSE Cardinality(covered),
      value |-> CASE function = "count" -> Cardinality(matched)
                  [] function # "count" /\ covered = {} -> None
                  [] function = "sum" /\ covered # {} -> sum
                  [] function = "min" /\ covered # {} -> Min(numbers)
                  [] function = "max" /\ covered # {} -> Max(numbers)]

\* compute_group_by: a bucket for each stored text, NULL included; the largest
\* limit of them, in any order among equals.
Buckets(matched, k) ==
  {[key |-> v, count |-> Cardinality({o \in matched : Text(o, k) = v})] : v \in {Text(o, k) : o \in matched}}
GroupBy(matched, k, limit) ==
  LET all == Buckets(matched, k)
  IN {kept \in SUBSET all :
        /\ Cardinality(kept) = IF Cardinality(all) < limit THEN Cardinality(all) ELSE limit
        /\ \A b \in kept, d \in all \ kept : b.count >= d.count}

\* find_missing_values: exact counts of each state.
MissingStates(matched, k) ==
  [s \in {State(o, k) : o \in matched} \ {"usable"} |-> Cardinality({o \in matched : State(o, k) = s})]
=============================================================================

---------------------------- MODULE FieldQueries ----------------------------
(***************************************************************************)
(* One question about stored fields while the model may still be imported: *)
(* the caches of the vocabulary and the field index, a bound condition     *)
(* compiled against the stored values, and the statement that is executed; *)
(* or a request of the component panel.  The condition is the language     *)
(* model's: any operator and values on any addressable field of the        *)
(* manifest.                                                               *)
(***************************************************************************)
EXTENDS FieldVocabulary, ValueMatching, ObjectDetails

CONSTANTS
  Worlds,     \* the batches in which a model's objects may be committed
  UserWords,  \* the values a condition may be bound to
  Limit       \* the limit of a list, a grouping or an example

Rows == UNION UNION {ToSet(world) : world \in Worlds}
\* A batch holds a row of an id once; a type's GlobalId is neither padded nor
\* longer than what is shown; what a user writes is text.
ASSUME RowsAreStored ==
  /\ \A world \in Worlds : world # <<>> /\ world \in Seq(SUBSET Rows)
  /\ \A batch \in UNION {ToSet(world) : world \in Worlds} :
       IsFiniteSet(batch) /\ \A o, p \in batch : o.id = p.id => o = p
  /\ \A o \in Rows :
       /\ \A k \in DOMAIN o.leaf : o.leaf[k] \in DOMAIN Reads \cup {Null}
       /\ Text(o, TypeGlobalId) # Null => Shown(o, TypeGlobalId) \in {None, Text(o, TypeGlobalId)}
  /\ UserWords \subseteq Seq(DOMAIN Reads)

VARIABLES
  store,      \* ifc_entities of the model
  pending,    \* the batches an import has still to commit
  vocabulary, \* get_model_vocabulary's cache, None while empty
  index,      \* get_field_concept_index's cache
  bound,      \* the bound condition, with its candidate
  lookedUp,   \* the stored values its values were resolved against
  filter,     \* the compiled condition
  known,      \* the store when it was compiled
  counted,    \* the objects that satisfy it
  answer,     \* what was computed over them
  phase
fieldVars == <<store, pending, vocabulary, index, bound, lookedUp, filter, known, counted, answer, phase>>

AllIds == {o.id : o \in Rows}
Presence == {"is_present", "is_missing"}
Operators == DOMAIN TextOperators \cup DOMAIN NumericOperators \cup Presence

\* _field_kind_for, _field_candidate: what the live binder may bind is a field of
\* the manifest that SQL can address; the measure and the units that the manifest
\* knows are not copied into the candidate.
Addressable == {c \in Concepts : Fields[c.key].kind \in FixedKinds \cup {"property", "quantity"}}
FieldCandidate(concept) == [concept EXCEPT !.measure = None, !.state = None, !.unit = None]

FieldInit ==
  /\ \E world \in Worlds : store = world[1] /\ pending = Tail(world)
  /\ vocabulary = None /\ index = None /\ bound = None /\ lookedUp = <<>>
  /\ filter = None /\ known = {} /\ counted = {} /\ answer = None /\ phase = "idle"

\* The importer commits a batch: rows of the same id are replaced.
Import ==
  /\ pending # <<>> /\ phase # "answered"
  /\ store' = {o \in store : \A p \in pending[1] : p.id # o.id} \cup pending[1]
  /\ pending' = Tail(pending)
  /\ UNCHANGED <<vocabulary, index, bound, lookedUp, filter, known, counted, answer, phase>>

\* get_model_vocabulary, get_field_concept_index: keyed by the file's fingerprint,
\* which an import in progress does not change.
Caches ==
  /\ vocabulary' = IF vocabulary = None THEN Vocabulary(store) ELSE vocabulary
  /\ index' = IF index = None THEN FieldConcepts(vocabulary') ELSE index

\* build_building_profile: a summary of the model fills the vocabulary's cache,
\* and leaves the index to the first condition that is compiled.
Summarise ==
  /\ phase = "idle" /\ vocabulary = None
  /\ vocabulary' = Vocabulary(store)
  /\ UNCHANGED <<store, pending, index, bound, lookedUp, filter, known, counted, answer, phase>>

\* _compile_condition: a number and a presence need no field index; a text is
\* resolved against the values stored now, of a field the index knows.
Compile ==
  /\ phase = "idle"
  /\ \E concept \in Addressable, op \in Operators, values \in UserWords, negated, quoted \in BOOLEAN :
       LET candidate == FieldCandidate(concept)
           lookup == candidate.type # "number" /\ op \notin Presence
       IN /\ IF lookup THEN Caches ELSE UNCHANGED <<vocabulary, index>>
          /\ bound' = [op |-> op, values |-> values, negated |-> negated, quoted |-> quoted, unit |-> None,
                       candidate |-> candidate]
          /\ lookedUp' = IF lookup /\ candidate.key \in index'
                         THEN LoadFieldValues(store, candidate.key, candidate.classes) ELSE <<>>
          /\ filter' = CompileCondition(bound', candidate, lookedUp')
  /\ known' = store /\ phase' = "compiled"
  /\ UNCHANGED <<store, pending, counted, answer>>

\* The statement of one operation: over what the condition selects, or, for
\* missing values, over every object of the classes.  decide_unit guards the sums.
Functions(candidate) == {"count"} \cup IF UnitAgrees(None, candidate) THEN {"sum", "min", "max"} ELSE {}
Reports(matched, whole, k, functions) ==
  {[kind |-> "list", ids |-> Identities(matched, Limit), classes |-> ClassCounts(matched)],
   [kind |-> "missing", matched |-> Cardinality(whole), states |-> MissingStates(whole, k)]}
  \cup {[kind |-> "groups", buckets |-> buckets] : buckets \in GroupBy(matched, k, Limit)}
  \cup {[kind |-> "aggregate", result |-> Aggregate(matched, k, f)] : f \in functions}

Execute ==
  /\ phase = "compiled" /\ filter # Uncompiled
  /\ IF ~Located(store, filter.key)
     THEN answer' = [kind |-> "not_found"] /\ UNCHANGED counted
     ELSE \E classes \in {{}, bound.candidate.classes} :
            /\ counted' = Where(store, classes, {filter})
            /\ answer' \in Reports(counted', Where(store, classes, {}), filter.key, Functions(bound.candidate))
  /\ phase' = "answered"
  /\ UNCHANGED <<store, pending, vocabulary, index, bound, lookedUp, filter, known>>

\* A field named without its set: a dimension, or any field of that name.
LookUp ==
  /\ phase = "idle"
  /\ \E name \in {Fields[k].name : k \in DOMAIN Fields} :
       answer' = [kind |-> "fields", dimension |-> ResolveField(store, [kind |-> "dimension", name |-> name]),
                  concept |-> ResolveConcept(store, name)]
  /\ phase' = "answered"
  /\ UNCHANGED <<store, pending, vocabulary, index, bound, lookedUp, filter, known, counted>>

\* The component panel's requests.
Panel ==
  /\ phase = "idle"
  /\ \E o \in store :
       \/ answer' = [kind |-> "details", details |-> Details(store, o)]
       \/ \E scope \in {"instance", "type", "family"} :
            answer' = [kind |-> "group", group |-> HighlightGroup(store, o, scope)]
       \/ \E p \in AllIds \cup {None} :
            answer' = [kind |-> "resolved", ids |-> ResolveEntities(store, <<o.id, p, o.id>>), asked |-> {o.id, p}]
  /\ phase' = "answered"
  /\ UNCHANGED <<store, pending, vocabulary, index, bound, lookedUp, filter, known, counted>>

FieldNext == Import \/ Summarise \/ Compile \/ Execute \/ LookUp \/ Panel
FieldSpec == FieldInit /\ [][FieldNext]_fieldVars

-----------------------------------------------------------------------------
Denotes(user, stored) ==
  Reads[stored].lower = Reads[user].lower \/ \E i \in DOMAIN Rungs : Matches(Rungs[i], user, stored)
SumOver(f) == MapThenSumSet(LAMBDA e : f[e], DOMAIN f)
Fragment == bound.op \in {"contains", "starts_with"}
Excluding == bound.negated \/ bound.op = "not_equals"
\* _unresolved_value_reason: a value of an equality on text could not be resolved.
Refused ==
  /\ filter = Uncompiled /\ bound.candidate.type # "number" /\ ~Fragment
  /\ bound.op \in DOMAIN TextOperators /\ bound.values # <<>>
\* What the objects of the candidate's classes stored when it was compiled, and
\* whether that is few enough to be read whole.
Concerned(o) == o \in known /\ o.class \in bound.candidate.classes
StoredTexts == {Text(o, bound.candidate.key) : o \in {p \in known : Concerned(p)}} \ {Null}
ReadWhole == Cardinality(StoredTexts) <= MaxDistinct

\* values.py and compile.py: a condition on text honours the value the user
\* gave.  What an equality counts stores that value in some reading the ladder
\* allows, or in another case (the ladder drops letters other than a-z, the
\* statement's lower() does not); what was stored exactly as written when the
\* condition was compiled is counted, or excluded, whatever other spellings the
\* field holds, and whatever was imported or cached before.
ConditionHonoursTheValue ==
  (phase = "answered" /\ filter # None /\ filter # Uncompiled /\ answer.kind # "not_found" /\ filter.texts # {} /\ ~Fragment) =>
    LET asked == ToSet(bound.values)
    IN /\ ~Excluding =>
            /\ \A o \in counted : \E u \in asked : Denotes(u, Text(o, filter.key))
            /\ ReadWhole => \A o \in store : (Concerned(o) /\ Text(o, filter.key) \in asked) => o \in counted
       /\ (Excluding /\ ReadWhole) => \A o \in counted : Concerned(o) => Text(o, filter.key) \notin asked

\* compile.py:535-550: the answer "not one of the values recorded" is true.  When
\* an equality is refused so, one of its values is spelled by no stored value of
\* the field's objects, on any rung of the ladder (exactly, for a quoted value),
\* however old the index is that the field was found in.
RefusalIsTrue ==
  (phase = "compiled" /\ Refused /\ lookedUp # <<>> /\ ReadWhole) =>
    \E u \in ToSet(bound.values) : \A v \in StoredTexts \ {Empty} :
      IF bound.quoted THEN v # u ELSE \A i \in DOMAIN Rungs : ~Matches(Rungs[i], u, v)

\* sql/compiler.py, entities.py, aggregates.py: presence and the three missing
\* states partition the objects asked about; groups count each object once unless
\* the limit cuts; an aggregate never rests on more than the recorded values.
AccountedFor ==
  (phase = "answered" /\ filter # None /\ answer.kind # "not_found") =>
    LET present(S) == Cardinality({o \in S : Usable(o, filter.key)})
    IN /\ answer.kind = "missing" =>
            \E classes \in {{}, bound.candidate.classes} :
              LET whole == Where(store, classes, {})
              IN /\ answer.matched = Cardinality(whole)
                 /\ answer.matched = present(whole) + SumOver(answer.states)
       /\ answer.kind = "groups" =>
            LET sum == SumOver([b \in answer.buckets |-> b.count])
            IN sum <= Cardinality(counted) /\ (sum < Cardinality(counted) => Cardinality(answer.buckets) = Limit)
       /\ answer.kind = "aggregate" =>
            /\ answer.result.matched = Cardinality(counted)
            /\ answer.result.value # None => answer.result.coverage \in 1 .. present(counted) \cup {Cardinality(counted)}

\* details.py and models.py: the group a button highlights contains the object it
\* was pressed for, unless its text is cut before it is compared; and a group
\* found by the type's GlobalId is the same from each of its members.
GroupHoldsItsMember ==
  (phase = "answered" /\ answer.kind = "group" /\ answer.group.available) =>
    LET o == CHOOSE p \in store : p.id = answer.group.id
        matched == Group(store, o, answer.group.scope)
        uncut == \A k \in DOMAIN o.leaf : Shown(o, k) # None => Reads[Shown(o, k)].plain = Reads[Text(o, k)].plain
    IN /\ uncut => o \in matched
       /\ answer.group.ids.total = SumOver(answer.group.classes)
       /\ (answer.group.scope = "type" /\ FindType(o).globalId # None) =>
            \A p \in matched : Group(store, p, "type") = matched

\* compile.py:536-541 "a field the model never populates is UNAVAILABLE, whereas a
\* populated field that simply lacks this value is a genuine zero": the values of a
\* field that the capped index leaves out are not read at all, and the refusal
\* says that the field holds none.
ClaimUnpopulatedMeansEmpty ==
  (phase = "compiled" /\ Refused /\ lookedUp = <<>>) => StoredTexts \subseteq {Empty}

\* semantic/units.py:16-17 "A field whose unit state is `mixed` or `unknown` is
\* never compared or aggregated as if it were uniform": the candidates do not carry
\* the unit state (recommend.py:222-239), so the unit decision never sees it.
ClaimMixedUnitsAreNotCompared ==
  LET manifest == {c \in Concepts : c.key = bound.candidate.key /\ c.classes = bound.candidate.classes}
  IN (phase = "answered" /\ filter # None /\ answer.kind # "not_found" /\ filter.numbers # <<>>) =>
       \A c \in manifest : c.state \notin {"mixed", "unknown"}

\* binding/compile.py:527 and tests/binding/test_compile.py:319 "negation
\* compiles to an exclusion": what a negated condition counts does not satisfy
\* the condition that is negated.  A number or a presence is compiled without
\* looking at the negation, a fragment excludes only the value it is equal to.
ClaimNegationExcludes ==
  (phase = "answered" /\ filter # None /\ answer.kind # "not_found" /\ bound.negated) =>
    LET positive == CompileCondition([bound EXCEPT !.negated = FALSE], bound.candidate,
                      LoadFieldValues(known, filter.key, bound.candidate.classes))
    IN \A o \in counted : ~Holds(positive, o)

\* tests/binding/test_compile.py:318 "a quoted value must not fold case onto a
\* different stored value": the value is found exactly, the statement folds it.
ClaimQuotedIsExact ==
  (phase = "answered" /\ filter # None /\ answer.kind # "not_found" /\ bound.quoted /\ bound.op = "equals" /\ ~Excluding
     /\ filter.texts # {}) => \A o \in counted : Text(o, filter.key) \in ToSet(bound.values)

\* details.py:115-122 strips an object's text and cuts it at 120 characters;
\* entities.py:225-263 compares that with the whole stored text, so the group of
\* an object with a longer or padded name does not hold the object itself.
ClaimGroupHoldsItsMember ==
  (phase = "answered" /\ answer.kind = "group" /\ answer.group.available) =>
    \E o \in store : o.id = answer.group.id /\ o \in Group(store, o, answer.group.scope)
=============================================================================

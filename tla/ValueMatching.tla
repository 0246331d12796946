--------------------------- MODULE ValueMatching ---------------------------
(***************************************************************************)
(* binding/values.py, semantic/units.py and the condition compilers of     *)
(* binding/compile.py: how the words of a bound condition become one       *)
(* condition over stored values, or a reason why they cannot.  A bound     *)
(* condition is [op, values, negated, quoted, unit]; a candidate field     *)
(* [key, type, classes, measure, state, unit].                             *)
(***************************************************************************)
EXTENDS StoredFields, SequencesExt

Rungs == <<"exact", "normalized", "morphological", "boolean">>

\* The ladder of resolve_value, a wider reading on each rung.
Matches(rung, user, stored) ==
  \/ rung = "exact" /\ stored = user
  \/ rung = "normalized" /\ Reads[user].folded # None /\ Reads[stored].folded = Reads[user].folded
  \/ rung = "morphological" /\ Reads[user].folded # None /\ Reads[stored].stem = Reads[user].stem
  \/ rung = "boolean" /\ Reads[user].truth # None /\ Reads[stored].truth = Reads[user].truth
Found(n, user, vocabulary) == {i \in DOMAIN vocabulary : Matches(Rungs[n], user, vocabulary[i])}

\* Seeded bug: the exact spelling is not tried before the normalized one.
ResolveValueFolded(user, vocabulary, exactRequired) ==
  LET reached == {n \in IF exactRequired THEN {1} ELSE 2 .. 4 : Found(n, user, vocabulary) # {}}
  IN IF reached = {} THEN None ELSE vocabulary[Min(Found(Min(reached), user, vocabulary))]

\* resolve_value: the first stored value on the first rung that has one; only
\* the first rung is tried for a quoted value.
ResolveValue(user, vocabulary, exactRequired) ==
  LET reached == {n \in IF exactRequired THEN {1} ELSE 1 .. 4 : Found(n, user, vocabulary) # {}}
  IN IF reached = {} THEN None ELSE vocabulary[Min(Found(Min(reached), user, vocabulary))]

\* decide_unit: a unit needs a measure, a measure one known unit, and values
\* are never converted.
UnitAgrees(requested, candidate) ==
  IF candidate.measure = None THEN requested = None
  ELSE /\ candidate.state = "uniform" /\ candidate.unit # None
       /\ requested \in {None, candidate.unit}

Uncompiled == [key |-> None, op |-> "unresolved", texts |-> {}, numbers |-> <<>>]
Condition(k, op, texts, numbers) == [key |-> k, op |-> op, texts |-> texts, numbers |-> numbers]

TextOperators == [equals |-> "case_insensitive_exact", not_equals |-> "not_in", contains |-> "contains",
                  starts_with |-> "starts_with", one_of |-> "in"]
NumericOperators == [equals |-> "eq", not_equals |-> "ne", greater_than |-> "gt", greater_or_equal |-> "gte",
                     less_than |-> "lt", less_or_equal |-> "lte", between |-> "between", one_of |-> "in"]

\* Seeded bug: a negated condition keeps its operator.
CompileTextPositive(bound, candidate, vocabulary) ==
  LET fragment == bound.op \in {"contains", "starts_with"}
      resolved == [i \in DOMAIN bound.values |->
                     IF fragment THEN bound.values[i] ELSE ResolveValue(bound.values[i], vocabulary, bound.quoted)]
  IN IF bound.op \notin DOMAIN TextOperators \/ bound.values = <<>> \/ None \in ToSet(resolved) THEN Uncompiled
     ELSE Condition(candidate.key,
                    IF Len(resolved) > 1 THEN "in" ELSE TextOperators[bound.op],
                    ToSet(resolved), <<>>)

\* _compile_text: a fragment is taken as written, any other value is resolved;
\* a negated condition excludes exactly the resolved spellings, whatever its operator.
CompileText(bound, candidate, vocabulary) ==
  LET fragment == bound.op \in {"contains", "starts_with"}
      resolved == [i \in DOMAIN bound.values |->
                     IF fragment THEN bound.values[i] ELSE ResolveValue(bound.values[i], vocabulary, bound.quoted)]
  IN IF bound.op \notin DOMAIN TextOperators \/ bound.values = <<>> \/ None \in ToSet(resolved) THEN Uncompiled
     ELSE Condition(candidate.key,
                    IF bound.negated \/ bound.op = "not_equals" THEN "not_in"
                    ELSE IF Len(resolved) > 1 THEN "in" ELSE TextOperators[bound.op],
                    ToSet(resolved), <<>>)

\* _compile_numeric: the bound's own unit, or the first one written with a value;
\* `negated` is not looked at.
RequestedUnit(bound) ==
  LET written == SelectSeq(bound.values, LAMBDA v : Reads[v].unit # None)
  IN IF bound.unit # None \/ written = <<>> THEN bound.unit ELSE Reads[written[1]].unit
CompileNumeric(bound, candidate) ==
  LET numbers == [i \in DOMAIN bound.values |-> Reads[bound.values[i]].magnitude]
  IN IF \/ bound.op \notin DOMAIN NumericOperators \/ numbers = <<>> \/ None \in ToSet(numbers)
        \/ ~UnitAgrees(RequestedUnit(bound), candidate)
        \/ bound.op = "between" /\ Len(numbers) # 2
     THEN Uncompiled
     ELSE Condition(candidate.key, NumericOperators[bound.op], {},
                    IF bound.op \in {"between", "one_of"} THEN numbers ELSE <<numbers[1]>>)

\* _compile_condition: presence first, then by the candidate's type.
CompileCondition(bound, candidate, vocabulary) ==
  IF bound.op \in {"is_present", "is_missing"} THEN Condition(candidate.key, bound.op, {}, <<>>)
  ELSE IF candidate.type = "number" THEN CompileNumeric(bound, candidate)
  ELSE CompileText(bound, candidate, vocabulary)
=============================================================================

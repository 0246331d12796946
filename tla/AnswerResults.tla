--------------------------- MODULE AnswerResults ---------------------------
(***************************************************************************)
(* What the execution of one answer part records for the answer: totals,   *)
(* aggregate, buckets, examples, endpoints and hops (execute.py,           *)
(* graph_exec.py, evidence.py); and what may be said of it.  The predicate *)
(* is the set `where` of objects its filters keep, the classes of its      *)
(* closure that the model holds, and the ids of an explicit scope or None. *)
(*                                                                         *)
(* Classes, keys and ids are numbers, so that they have SQL's order; a     *)
(* part's wording is left out.                                             *)
(***************************************************************************)
EXTENDS RelationshipGraph, FiniteSetsExt

CONSTANTS
  Objects,
  ClassOf,          \* ifc_class of each object
  One,              \* a recorded number is a multiple of 1/One: so many parts of a unit
  Value,            \* its recorded number in these parts, or None
  TextOf,           \* its recorded text, None when it has none
  MaxSeeds,         \* MAX_SEEDS
  ListExamples,     \* examples of a list: max_list_limit, max_primary_entities
  MaxBuckets        \* default_list_limit

ASSUME ObjectsAreIds == Objects \subseteq Int /\ IsFiniteSet(Objects) /\ None \notin Objects \cup Nat
ASSUME OneIsPositive == One \in Nat \ {0}
\* A row's reference is a foreign key that may be null.
ASSUME RowsAreOfObjects == \A m \in MemberRows : m.of \in Objects \cup {None}

Buckets(S, Of) == {[key |-> k, count |-> Cardinality({o \in S : Of[o] = k})] : k \in {Of[o] : o \in S}}
\* ORDER BY count DESC; the database may order equal counts as it likes.
Largest(buckets, n) ==
  {b \in SUBSET buckets : /\ Cardinality(b) = (IF Cardinality(buckets) < n THEN Cardinality(buckets) ELSE n)
                          /\ \A x \in b, y \in buckets \ b : x.count >= y.count}

Matched(part) == {o \in part.where : ClassOf[o] \in part.classes /\ (part.scope # None => o \in part.scope)}

NoResult(part) ==
  [part |-> part, status |-> "unavailable", total |-> None, aggregate |-> None, distribution |-> {},
   breakdown |-> {}, examples |-> {}, ranked |-> None, endpoints |-> {}, seeds |-> {}, hops |-> {},
   cut |-> FALSE]

Total(S) == MapThenSumSet(LAMBDA o : Value[o], S)

\* _execute_aggregate: one field on one scale; without a recorded value there is
\* no total of 0, and an aggregate over some of the matches is partial.
\* Seeded bug: a field nobody recorded adds up to zero.
AggregatedFromNothing(r, matched) ==
  LET recorded == {o \in matched : Value[o] # None}
  IN IF r.part.output # "measured" THEN [r EXCEPT !.status = "unavailable"]
     ELSE [r EXCEPT !.aggregate = [value |-> Total(recorded),
                                   covers |-> Cardinality(recorded), of |-> Cardinality(matched)]]
Aggregated(r, matched) ==
  LET recorded == {o \in matched : Value[o] # None}
      value == IF r.part.op = "extremum" THEN Max({Value[o] : o \in recorded})
               ELSE Total(recorded)
  IN IF r.part.output # "measured" \/ recorded = {} THEN [r EXCEPT !.status = "unavailable"]
     ELSE [r EXCEPT !.aggregate = [value |-> value, covers |-> Cardinality(recorded), of |-> Cardinality(matched)],
                    !.status = IF recorded = matched THEN "exact" ELSE "partial"]

\* _execute_distribution: by the field asked for, otherwise by class.
Distributions(part, matched) ==
  IF part.output = "text" THEN Largest(Buckets(matched, TextOf), MaxBuckets) ELSE {Buckets(matched, ClassOf)}

Examples(part) == IF part.op = "sample_detail" THEN 1 ELSE IF part.op = "list" THEN ListExamples ELSE 3

\* _preflight_block, then the count and what the operation adds to it.
Structured(part) ==
  LET matched == Matched(part)
      counted == [NoResult(part) EXCEPT !.status = "exact", !.total = Cardinality(matched),
                    !.breakdown = IF Cardinality(part.classes) > 1 THEN Buckets(matched, ClassOf) ELSE {},
                    !.examples = FirstOf(matched, Examples(part))]
  IN IF part.unresolved THEN {NoResult(part)}
     ELSE IF matched = {} THEN {[NoResult(part) EXCEPT !.status = "zero", !.total = 0]}
     ELSE IF part.op \in {"aggregate", "extremum"} THEN {Aggregated(counted, matched)}
     ELSE IF part.op = "group_distribution"
          THEN {[counted EXCEPT !.distribution = d] : d \in Distributions(part, matched)}
     ELSE {counted}

\* _execute_qualitative: ranking inside the counted set.  The embedding service
\* is off, down, or accepts some of the objects; the three best are shown.
Qualitative(part) ==
  LET Ranked(r) ==
        {[r EXCEPT !.ranked = Cardinality(ids), !.examples = IF ids = {} THEN @ ELSE FirstOf(ids, 3)] :
            ids \in SUBSET Matched(part)}
        \cup {[r EXCEPT !.status = "partial"], r}
  IN UNION {IF part.ranking /\ r.status \in {"exact", "partial"} THEN Ranked(r) ELSE {r} : r \in Structured(part)}

\* _seed_from_predicate: an explicit scope seeds the traversal as it is; a
\* closure without a class of the model restricts nothing.
Seeds(part) ==
  LET subject == IF part.classes = {} THEN {o \in part.where : part.scope # None => o \in part.scope}
                 ELSE Matched(part)
  IN FirstOf(IF part.scope \notin {None, {}} THEN part.scope ELSE subject, MaxSeeds)

\* execute_graph and _execute_relationship: the endpoints traversal established
\* and the hops between them and the seeds.
Relationship(part) ==
  LET seeds     == Seeds(part)
      walk      == Walk(seeds, part.depth)
      reached   == walk.visited \ seeds
      endpoints == {o \in reached : part.reaches # {} => ClassOf[o] \in part.reaches}
      kept      == Retained(walk.hops, seeds \cup endpoints)
  IN IF part.relation # "recorded" \/ seeds = {} THEN NoResult(part)
     ELSE IF endpoints = {} THEN [NoResult(part) EXCEPT !.status = "zero", !.total = 0]
     ELSE [NoResult(part) EXCEPT !.status = "exact", !.total = Cardinality(endpoints),
             !.endpoints = endpoints, !.examples = FirstOf(endpoints, 3),
             !.seeds = seeds, !.hops = kept.hops, !.cut = kept.cut]

\* execute_answer_part: the results it may have.
Results(part) ==
  CASE part.op = "relationship" -> {Relationship(part)}
    [] part.op \in {"description", "comparison"} -> Qualitative(part)
    [] OTHER -> Structured(part)

HasVisualResult(r) == r.status \in {"exact", "partial"} /\ r.total \notin {None, 0}

-----------------------------------------------------------------------------
(* The facts of the answer packet, the answer a language model writes from  *)
(* them, its validation and the fallback (packet.py, answer_validation.py,  *)
(* llm/schemas.py).  A draft is what validation can read of an answer: the  *)
(* parts it lists, one claim or None (claims are checked one by one), the   *)
(* numbers its text states, the numbers whose digits it has anywhere (2 in  *)
(* the number 12, or in a name), whether the text speaks of missing data or *)
(* of completeness, and whether normalising leaves anything of it (a text   *)
(* in another script is empty).  A claim's number is what _as_number reads  *)
(* of it, its first one.  Every number here is in parts of 1/One.           *)

CONSTANTS MaxNamed        \* buckets of a distribution the packet carries

Shown(S) == FirstOf(S, 3)                               \* DEFAULT_EXAMPLE_LIMIT
Parts(results) == {results[i].part.id : i \in DOMAIN results}
ResultOf(results, id) == results[CHOOSE i \in DOMAIN results : results[i].part.id = id]

Ones(n) == One * n

\* A number as ':g' writes it: of what has more than six digits, the first six,
\* rounded, a tie to the even digit; numbers of up to nine digits.
Million == 1000000
Billion == 1000000000
Powers == {1, 10, 100, 1000}
SixDigitsOf(size) ==
  LET p == Min({q \in Powers : size \div q < Million})
      rest == size % p
      kept == size \div p
  IN p * (IF 2 * rest > p \/ (2 * rest = p /\ kept % 2 = 1) THEN kept + 1 ELSE kept)
SixDigits(n) == IF n < 0 THEN -SixDigitsOf(-n) ELSE SixDigitsOf(n)

\* _add_totals, _add_graph.  A relationship has an endpoint count whatever
\* became of it.
FactsOf(r) ==
  LET fact(kind, value, unit) == [part |-> r.part.id, kind |-> kind, value |-> value, unit |-> unit]
  IN (IF r.total # None /\ r.part.op # "relationship" THEN {fact("total", Ones(r.total), None)} ELSE {})
     \cup (IF r.aggregate # None THEN {fact("aggregate", r.aggregate.value, r.part.unit)} ELSE {})
     \cup (IF r.part.op = "relationship" THEN {fact("endpoints", Ones(Cardinality(r.endpoints)), None)} ELSE {})
Facts(results) == UNION {FactsOf(results[i]) : i \in DOMAIN results}

\* _packet_names: classes, bucket keys and the words of the interpretation; the
\* names of objects are left out.
NamesOf(r) ==
  {ClassOf[o] : o \in IF r.part.op = "list" THEN r.examples ELSE Shown(r.examples)}
  \cup (IF Cardinality(r.breakdown) > 1 THEN {b.key : b \in r.breakdown} ELSE {})
  \cup (UNION {{b.key : b \in d} : d \in Largest(r.distribution, MaxNamed)} \ {None})
  \cup {ClassOf[o] : o \in Shown(r.endpoints)}
  \cup r.part.words
Names(results) == UNION {NamesOf(results[i]) : i \in DOMAIN results}

-----------------------------------------------------------------------------
(* validate_answer.                                                         *)

KnownParts(d, results) == d.listed \subseteq Parts(results)

\* _text_states_value: whole numbers with all their digits, others with six.
Written(n) == IF n % One = 0 THEN n ELSE SixDigits(n)
\* _check_claims: a claim without a number stands if the text has the digits.
Faithful(c, d, f) ==
  /\ IF c.value = None THEN Written(f.value) \in d.spelled ELSE c.value = f.value
  /\ f.unit # None /\ c.unit # None => c.unit = f.unit
ClaimHolds(d, results) ==
  d.claim # None =>
    /\ \E f \in Facts(results) : f.part = d.claim.part /\ f.kind = d.claim.kind /\ Faithful(d.claim, d, f)
    /\ d.claim.name # None => d.claim.name \in Names(results)

\* _check_status_preserved: of the parts the answer lists.
StatusPreserved(d, results) ==
  d.legible => \A id \in d.listed \cap Parts(results) :
    LET r == ResultOf(results, id)
    IN /\ r.status = "unavailable" /\ d.claim # None => ~(d.claim.part = id /\ d.claim.value = 0)
       /\ r.status = "zero" => ~d.regrets

\* _check_no_unfounded_completeness.
Grounded(d, results) ==
  (\E i \in DOMAIN results : results[i].ranked # None /\ results[i].total = None) => ~d.complete

Validated(d, results) ==
  /\ KnownParts(d, results)
  /\ ClaimHolds(d, results)
  /\ StatusPreserved(d, results)
  /\ Grounded(d, results)

\* _fallback_line: what the answer says of one part when the draft is rejected.
FallbackLine(r) ==
  LET line(says, value) == [says |-> says, value |-> value]
  IN CASE r.status = "exact" /\ r.aggregate # None -> line("aggregate", SixDigits(r.aggregate.value))
       [] r.status = "exact" /\ r.aggregate = None /\ r.part.op = "relationship" -> line("endpoints", Ones(Cardinality(r.endpoints)))
       [] r.status = "exact" /\ r.aggregate = None /\ r.part.op # "relationship" -> line("total", Ones(r.total))
       [] r.status = "zero" -> line("none_found", 0)
       [] r.status = "unavailable" -> line("not_established", None)
       [] OTHER -> line("partly", None)
=============================================================================

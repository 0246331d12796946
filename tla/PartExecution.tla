--------------------------- MODULE PartExecution ---------------------------
(***************************************************************************)
(* What one validated answer part does to the active model: compile.py     *)
(* turns its scope and conditions into one predicate, execute.py and       *)
(* graph_exec.py run it and grade the result.                              *)
(*                                                                         *)
(* The database is the set Objects of entity ids, each with its class.  A  *)
(* filter is the set of objects it keeps, so SQL's AND and OR are          *)
(* intersection and union.  A bound condition carries the objects that     *)
(* record its field; among them, those for which its comparison holds; and *)
(* those that record, to the letter, one of the values handed to SQL: what *)
(* the user wrote resolved against the field, or a fragment as it is.      *)
(***************************************************************************)
EXTENDS Integers, Sequences, FiniteSets

CONSTANTS
    Objects,        \* entity ids of the active model; SQL orders by id
    ClassOf,        \* ifc_class of each object
    Measured,       \* objects that record the field an aggregate reads
    Linked,         \* Linked[o]: objects one recorded relationship from o
    MaxDepth,       \* depth of a traversal
    MaxSeeds,       \* MAX_SEEDS of graph_exec.py
    NoScope,        \* predicate.scope_entity_ids = None
    NoGroup         \* condition.bool_group = None

ASSUME ObjectsAreIds == Objects \subseteq Nat /\ IsFiniteSet(Objects)
ASSUME ClassesGiven == Objects \subseteq DOMAIN ClassOf
ASSUME MeasuredAreObjects == Measured \subseteq Objects
ASSUME LinksStayInside == Linked \in [Objects -> SUBSET Objects]
ASSUME NoScopeIsNoSet == \A S \in SUBSET Objects : S # NoScope

\* ORDER BY id LIMIT n.
FirstOf(S, n) == {o \in S : Cardinality({x \in S : x < o}) < n}

----------------------------------------------------------------------------
(***************************************************************************)
(* Compilation.                                                            *)
(***************************************************************************)

Excludes(c) == c.negated \/ c.comparison = "not_equals"

\* _compile_text: a negated condition and a NOT_EQUALS, negated or not, exclude
\* the values themselves (NOT_IN), a fragment's too; several values, whatever
\* the comparison, match those that are recorded to the letter (IN).  The
\* numeric, the presence and the floor-band compilers ignore `negated`.
Compiled(c) ==
    CASE c.kind = "text" /\ Excludes(c) -> c.recorded \ c.literal
      [] c.kind = "text" /\ ~Excludes(c) /\ c.several -> c.literal
      [] OTHER -> c.holds

Compilable(part) == {c \in part.conditions : c.resolves}

\* Conditions of a bool_group are alternatives; each group and each
\* ungrouped condition is a node of its own.
Nodes(part) ==
    {Compiled(c) : c \in {d \in Compilable(part) : d.group = NoGroup}}
    \cup {UNION {Compiled(c) : c \in {d \in Compilable(part) : d.group = g}} :
              g \in {c.group : c \in Compilable(part)} \ {NoGroup}}

Combine(nodes, op) ==
    IF op = "and" THEN {o \in Objects : \A n \in nodes : o \in n} ELSE UNION nodes

\* Seeded bug: the scope joins the alternatives.
FlattenScopeAndConditions(scope, nodes, op) ==
    IF nodes = {} THEN scope ELSE Combine(nodes \cup {scope}, op)

\* A scope always narrows, even where the conditions are alternatives.
MergeScopeAndConditions(scope, nodes, op) ==
    IF nodes = {} THEN scope ELSE scope \cap Combine(nodes, op)

\* A spatial candidate is a floor band or one of the scopes themselves; only a
\* band restricts, and one that records no storeys (NoScope) cannot.
InBand(part) == part.scope = "spatial_candidate" /\ part.candidate = "band"

BandUnknown(part) == InBand(part) /\ part.floor = NoScope

\* Every scope but a band leaves the filter open.
ScopeFilter(part) == IF InBand(part) /\ ~BandUnknown(part) THEN part.floor ELSE Objects

\* The selection and the previous result travel as entity ids.
ScopeIds(part, inputs) ==
    CASE part.scope = "selected_objects" -> inputs.selection
      [] part.scope = "previous_result" -> inputs.previousIds
      [] OTHER -> NoScope

CompilePredicate(part, inputs) ==
    [classes |-> part.subject,
     filters |-> MergeScopeAndConditions(ScopeFilter(part), Nodes(part), part.boolOp),
     scope |-> ScopeIds(part, inputs),
     unresolved |-> BandUnknown(part) \/ Compilable(part) # part.conditions]

\* The one WHERE clause: what is counted, listed, ranked and highlighted.
Matches(p) ==
    {o \in p.filters : ClassOf[o] \in p.classes /\ (p.scope # NoScope => o \in p.scope)}

----------------------------------------------------------------------------
(***************************************************************************)
(* Execution.  A result keeps the set behind exact_total; a total of None  *)
(* or 0 is the empty set.                                                  *)
(***************************************************************************)
Graded(status, counted) == [status |-> status, counted |-> counted]

\* _execute_aggregate: an aggregate is exact only where every match records
\* the field; a partly recorded one is partial, an unrecorded one unavailable.
Aggregate(part, matched) ==
    IF part.outputs # "measured" \/ matched \cap Measured = {} THEN Graded("unavailable", matched)
    ELSE IF matched \subseteq Measured THEN Graded("exact", matched)
    ELSE Graded("partial", matched)

\* _preflight_block first, then the count.
Structured(part, p) ==
    LET matched == Matches(p)
    IN  IF p.unresolved THEN Graded("unavailable", {})
        ELSE IF p.scope = {} \/ matched = {} THEN Graded("zero", {})
        ELSE IF part.operation \in {"aggregate", "extremum"} THEN Aggregate(part, matched)
        ELSE Graded("exact", matched)

\* Ranking happens inside the structured result; without the embedding
\* service that result is kept and called partial.
Qualitative(part, p, embeddings) ==
    LET exact == Structured(part, p)
    IN  IF exact.status = "exact" /\ part.ranking /\ ~embeddings
        THEN Graded("partial", exact.counted)
        ELSE exact

\* _seed_from_predicate reuses the predicate, but a subject that the model does
\* not hold compiles to no class restriction, and unlike a count a relationship
\* part does not look at what is unresolved.
Absent(p) == \A o \in Objects : ClassOf[o] \notin p.classes
FromPredicate(p) ==
    {o \in p.filters : (Absent(p) \/ ClassOf[o] \in p.classes) /\ (p.scope # NoScope => o \in p.scope)}

\* An explicit entity scope seeds the traversal itself; otherwise the
\* subject predicate does.  An empty scope seeds nothing.
Seeds(p) == FirstOf(IF p.scope # NoScope /\ p.scope # {} THEN p.scope ELSE FromPredicate(p), MaxSeeds)

Reached(seeds) ==
    LET reach[d \in 0..MaxDepth] ==
            IF d = 0 THEN seeds
            ELSE reach[d - 1] \cup UNION {Linked[o] : o \in reach[d - 1]}
    IN  reach[MaxDepth] \ seeds

\* No endpoint subject, no endpoint filter.
Endpoints(part, reached) ==
    {o \in Objects : o \in reached /\ (part.endpoint # {} => ClassOf[o] \in part.endpoint)}

Relationship(part, p) ==
    LET seeds == Seeds(p)
        endpoints == Endpoints(part, Reached(seeds))
    IN  IF part.relationship # "recorded" \/ seeds = {} THEN Graded("unavailable", {})
        ELSE IF endpoints = {} THEN Graded("zero", {})
        ELSE Graded("exact", endpoints)

ExecuteAnswerPart(part, inputs, embeddings) ==
    LET p == CompilePredicate(part, inputs)
        graded == CASE part.operation = "relationship" -> Relationship(part, p)
                    [] part.operation \in {"description", "comparison"} ->
                           Qualitative(part, p, embeddings)
                    [] OTHER -> Structured(part, p)
    IN  [part |-> part.id, operation |-> part.operation, predicate |-> p,
         status |-> graded.status, counted |-> graded.counted]

HasVisualResult(r) == r.status \in {"exact", "partial"} /\ r.counted # {}

IsAnswerable(r) == r.status \in {"exact", "zero", "partial"}
=============================================================================

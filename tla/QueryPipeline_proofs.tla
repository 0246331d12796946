----------------------- MODULE QueryPipeline_proofs -----------------------
(***************************************************************************)
(* Proofs about QueryPipeline for every model, every set of plans and any  *)
(* number of questions.  IInv adds to the checked invariants what the      *)
(* stage says of the calls made (Phase), that only an admitted plan runs   *)
(* (Admitted, Ran), that the inputs of a request are objects (Inputs) and  *)
(* that what is lit comes from one result (Lit).                           *)
(***************************************************************************)
EXTENDS QueryPipeline, FiniteSetTheorems, WellFoundedInduction, TLAPS

\* TypeOK without what is said of the results, the highlight and the scope.
Counters ==
    /\ stage \in {"idle", "asked", "bound", "executed", "answered"}
    /\ offered \subseteq {"selected_objects", "previous_result"}
    /\ plan \in Plans \cup {None}
    /\ corrected \in BOOLEAN
    /\ calls \in 0..3
    /\ asked \in 0..MaxQuestions

\* Calls are counted: none before the first binding, two after a correction.
Phase ==
    /\ stage = "asked" => calls = 0 /\ ~corrected
    /\ stage = "bound" => calls = IF corrected THEN 2 ELSE 1
    /\ stage = "executed" => calls <= 2
    /\ stage \in {"asked", "bound"} => results = <<>>

\* The plan is one of Plans that the gate lets through.
Cleared ==
    /\ plan \in Plans
    /\ StructurallyValid(plan, offered)
    /\ CoverageOk(plan, ask.ledger)

Admitted == (stage = "bound" /\ gate = "ready") \/ results # <<>> => Cleared

Ran ==
    results # <<>> =>
        \E embeddings \in BOOLEAN :
            results = [i \in DOMAIN plan.parts |->
                          ExecuteAnswerPart(plan.parts[i], ask, embeddings)]

Inputs ==
    stage # "idle" \/ results # <<>> =>
        ask.selection \subseteq Objects /\ ask.previousIds \subseteq Objects

Execution == Admitted /\ Ran /\ Inputs

\* The scope that is kept is one of objects, and stands for what was counted.
Kept ==
    previous # None =>
        /\ IsPredicate(previous.predicate) /\ previous.counted \subseteq Objects
        /\ previous.operation # "relationship" =>
              Matches(previous.predicate) = previous.counted

\* While a question is answered it uses the scope kept when it was asked.
Given ==
    stage # "idle" /\ "previous_result" \in offered =>
        ask.previousIds = Matches(previous.predicate)

\* What is lit are the first objects of one visible result, and nothing is lit
\* while a question is answered.
Lit ==
    /\ stage # "idle" => highlight = {}
    /\ highlight # {} =>
          \E i \in DOMAIN results :
              HasVisualResult(results[i]) /\ highlight = Identities(results[i])

IInv == Counters /\ Phase /\ Execution /\ Kept /\ Given /\ highlight \subseteq Objects /\ Lit

----------------------------------------------------------------------------
(***************************************************************************)
(* Facts about the operators.                                              *)
(***************************************************************************)

\* FirstIn picks the least member of any nonempty set of indices.
LEMMA FirstInLeast ==
    ASSUME NEW S \in SUBSET Nat, S # {}
    PROVE  FirstIn(S) \in S /\ \A y \in S : FirstIn(S) <= y
<1> DEFINE R == OpToRel(<, Nat)
<1>1. IsWellFoundedOn(R, Nat)
  BY NatLessThanWellFounded
<1> HIDE DEF R
<1>2. PICK x \in S : \A y \in S : ~(<<y, x>> \in R)
  BY <1>1, WFMin
<1>3. \A y \in S : x <= y
  <2> TAKE y \in S
  <2>1. x \in Nat /\ y \in Nat
    OBVIOUS
  <2>2. ~(y < x)
    BY <1>2, <2>1 DEF R, OpToRel
  <2> QED
    BY <2>1, <2>2
<1> QED
  BY <1>3 DEF FirstIn

LEMMA FirstInMember ==
    ASSUME NEW S \in SUBSET Nat, S # {}
    PROVE  FirstIn(S) \in S
  BY FirstInLeast

\* A prefix is part of what it is a prefix of.
LEMMA FirstOfSubset == \A S, n : FirstOf(S, n) \subseteq S
  BY DEF FirstOf

\* LIMIT n gives everything there is, or n rows.  The ranks of the rows it keeps
\* are distinct numbers below n; the first row it leaves out has rank n or more.
LEMMA FirstOfSize ==
    ASSUME NEW S, S \subseteq Nat, IsFiniteSet(S), NEW n \in Nat, FirstOf(S, n) # S
    PROVE  Cardinality(FirstOf(S, n)) = n
<1> DEFINE Before(x) == {y \in S : y < x}
           T == FirstOf(S, n)
           Left == S \ T
           rank == [x \in T |-> Cardinality(Before(x))]
<1>1. T \subseteq S /\ Left # {} /\ Left \in SUBSET Nat
  BY FirstOfSubset
<1>2. /\ IsFiniteSet(T) /\ Cardinality(T) \in Nat
      /\ \A x : IsFiniteSet(Before(x)) /\ Cardinality(Before(x)) \in Nat
  BY <1>1, FS_Subset, FS_CardinalityType
<1>3. \A x \in S : x \in T <=> Cardinality(Before(x)) < n
  BY DEF FirstOf
<1>4. ASSUME NEW x \in S, NEW y \in S, x < y
      PROVE  Cardinality(Before(x)) < Cardinality(Before(y))
  <2>1. Before(x) \cup {x} \subseteq Before(y) /\ x \notin Before(x)
    <3>1. x \in Nat /\ y \in Nat /\ \A z \in S : z \in Nat
      OBVIOUS
    <3>2. \A z \in S : z < x => z < y
      BY <1>4, <3>1
    <3>3. ~(x < x)
      BY <3>1
    <3> QED
      BY <1>4, <3>2, <3>3
  <2>2. Cardinality(Before(x) \cup {x}) = Cardinality(Before(x)) + 1
    <3> HIDE DEF Before
    <3> QED
      BY <1>2, <2>1, FS_AddElement
  <2>3. Cardinality(Before(x) \cup {x}) <= Cardinality(Before(y))
    BY <1>2, <2>1, FS_Subset
  <2> HIDE DEF Before
  <2> QED
    BY <1>2, <2>2, <2>3
<1>5. Cardinality(T) <= n
  <2> SUFFICES ASSUME n < Cardinality(T) PROVE FALSE
    BY <1>2
  <2>1. IsFiniteSet(0..(n - 1)) /\ Cardinality(0..(n - 1)) = n
    <3>1. n - 1 \in Int /\ 0 \in Int /\ (IF 0 > n - 1 THEN 0 ELSE (n - 1) - 0 + 1) = n
      OBVIOUS
    <3> QED
      BY <3>1, FS_Interval
  <2>2. rank \in [T -> 0..(n - 1)]
    <3> SUFFICES ASSUME NEW x \in T PROVE Cardinality(Before(x)) \in 0..(n - 1)
      OBVIOUS
    <3>1. Cardinality(Before(x)) < n /\ Cardinality(Before(x)) \in Nat
      BY <1>1, <1>2, <1>3
    <3> HIDE DEF Before
    <3> QED
      BY <3>1
  <2> HIDE DEF rank
  <2>3. PICK x \in T, y \in T : x # y /\ rank[x] = rank[y]
    BY <1>2, <2>1, <2>2, FS_PigeonHole
  <2>4. Cardinality(Before(x)) = Cardinality(Before(y))
    BY <2>3 DEF rank
  <2>5. x \in S /\ y \in S /\ x \in Nat /\ y \in Nat
    BY <1>1
  <2> HIDE DEF Before, T
  <2>6. x < y \/ y < x
    BY <2>3, <2>5
  <2> QED
    BY <1>2, <1>4, <2>4, <2>5, <2>6
<1>6. FirstIn(Left) \in Left
  BY <1>1, FirstInMember
<1> DEFINE m == FirstIn(Left)
<1>7. Before(m) \subseteq T
  <2> SUFFICES ASSUME NEW y \in S, y < m, y \notin T PROVE FALSE
    OBVIOUS
  <2>1. y \in Left /\ y \in Nat /\ m \in Nat
    BY <1>1, <1>6
  <2> HIDE DEF T, m, Left
  <2>2. \A z \in Left : m <= z
    BY <1>1, FirstInLeast DEF m
  <2> QED
    BY <2>1, <2>2
<1>8. n <= Cardinality(Before(m))
  <2>1. m \in S /\ m \notin T
    BY <1>6
  <2> HIDE DEF Before, T, m
  <2> QED
    BY <1>2, <1>3, <2>1
<1>9. Cardinality(Before(m)) <= Cardinality(T)
  BY <1>2, <1>7, FS_Subset
<1>10. Cardinality(T) = n
  <2> HIDE DEF Before, T
  <2> QED
    BY <1>2, <1>5, <1>8, <1>9
<1> QED
  BY <1>10

\* A predicate only keeps objects, and never leaves its entity scope.
LEMMA MatchesAreObjects ==
    ASSUME NEW p, IsPredicate(p)
    PROVE  Matches(p) \subseteq Objects
  BY DEF Matches, IsPredicate

\* Compilation yields a predicate over the objects of the model.
LEMMA CompiledIsPredicate ==
    ASSUME NEW part, NEW inputs,
           part.floor = NoScope \/ part.floor \subseteq Objects,
           inputs.selection \subseteq Objects, inputs.previousIds \subseteq Objects
    PROVE  IsPredicate(CompilePredicate(part, inputs))
<1>1. ScopeFilter(part) \subseteq Objects
  BY DEF ScopeFilter, BandUnknown
<1>2. \A nodes, op :
         MergeScopeAndConditions(ScopeFilter(part), nodes, op) \subseteq ScopeFilter(part)
  BY DEF MergeScopeAndConditions
<1>3. ScopeIds(part, inputs) = NoScope \/ ScopeIds(part, inputs) \subseteq Objects
  BY DEF ScopeIds
<1>4. (BandUnknown(part) \/ Compilable(part) # part.conditions) \in BOOLEAN
  OBVIOUS
<1> QED
  BY <1>1, <1>2, <1>3, <1>4 DEF CompilePredicate, IsPredicate

\* An available result counts what its predicate matches, and is not one of a
\* predicate with something left out.
Faithful(s, p) == s.status # "unavailable" => s.counted = Matches(p) /\ ~p.unresolved

\* Structured results are faithful.
LEMMA StructuredCounts ==
    ASSUME NEW part, NEW p, IsPredicate(p)
    PROVE  Structured(part, p).counted \subseteq Matches(p) /\ Faithful(Structured(part, p), p)
<1> DEFINE s == Structured(part, p)
           matched == Matches(p)
<1>0. p.unresolved \in BOOLEAN
  BY DEF IsPredicate
<1>1. \A status, m : Graded(status, m).status = status /\ Graded(status, m).counted = m
  BY DEF Graded
<1>2. p.scope = {} => matched = {}
  BY NoScopeIsNoSet DEF Matches
<1>3. Aggregate(part, matched).counted = matched
  BY <1>1 DEF Aggregate
<1>4. CASE p.unresolved
  <2>1. s = Graded("unavailable", {})
    BY <1>0, <1>4 DEF Structured, Graded
  <2> QED
    BY <2>1, <1>1 DEF Faithful
<1>5. CASE ~p.unresolved /\ (p.scope = {} \/ matched = {})
  <2>1. s = Graded("zero", {})
    BY <1>0, <1>5 DEF Structured, Graded
  <2>2. matched = {} /\ s.counted = {} /\ ~p.unresolved
    BY <2>1, <1>1, <1>2, <1>5
  <2> QED
    BY <2>2 DEF Faithful
<1>6. CASE ~p.unresolved /\ p.scope # {} /\ matched # {}
  <2>1. s \in {Aggregate(part, matched), Graded("exact", matched)}
    BY <1>6 DEF Structured
  <2> QED
    BY <2>1, <1>1, <1>3, <1>6 DEF Faithful
<1> QED
  BY <1>0, <1>4, <1>5, <1>6

\* So are ranked ones: a missing embedding service only changes the grade.
LEMMA QualitativeCounts ==
    ASSUME NEW part, NEW p, IsPredicate(p), NEW embeddings
    PROVE  LET q == Qualitative(part, p, embeddings)
           IN  q.counted \subseteq Matches(p) /\ Faithful(q, p)
<1> DEFINE s == Structured(part, p)
<1>1. s.counted \subseteq Matches(p) /\ Faithful(s, p)
  BY StructuredCounts
<1> HIDE DEF s
<1>2. \/ Qualitative(part, p, embeddings) = s
      \/ s.status = "exact" /\ Qualitative(part, p, embeddings) = Graded("partial", s.counted)
  BY DEF Qualitative, s
<1> QED
  BY <1>1, <1>2 DEF Faithful, Graded

\* What an executed part reports: its own predicate, objects of the model, and
\* unless it is a traversal a faithful count.
Reports(r, part, inputs) ==
    /\ r.part = part.id /\ r.operation = part.operation
    /\ r.predicate = CompilePredicate(part, inputs)
    /\ IsPredicate(r.predicate)
    /\ r.counted \subseteq Objects
    /\ part.operation # "relationship" => Faithful(r, r.predicate)

LEMMA PartReports ==
    ASSUME NEW part, NEW inputs, NEW embeddings,
           part.floor = NoScope \/ part.floor \subseteq Objects,
           inputs.selection \subseteq Objects, inputs.previousIds \subseteq Objects
    PROVE  Reports(ExecuteAnswerPart(part, inputs, embeddings), part, inputs)
<1> DEFINE p == CompilePredicate(part, inputs)
           r == ExecuteAnswerPart(part, inputs, embeddings)
<1>1. IsPredicate(p)
  BY CompiledIsPredicate
<1>2. r.part = part.id /\ r.operation = part.operation /\ r.predicate = p
  BY DEF ExecuteAnswerPart
<1>3. CASE part.operation = "relationship"
  <2>1. r.counted = Relationship(part, p).counted
    BY <1>3 DEF ExecuteAnswerPart
  <2> HIDE DEF p, r
  <2>2. Relationship(part, p).counted \subseteq Objects
    BY DEF Relationship, Graded, Endpoints
  <2>3. Reports(r, part, inputs)
    BY <1>1, <1>2, <1>3, <2>1, <2>2 DEF Reports, p
  <2> QED
    BY <2>3 DEF r
<1>4. CASE part.operation # "relationship"
  <2>1. PICK g \in {Structured(part, p), Qualitative(part, p, embeddings)} :
            r.counted = g.counted /\ r.status = g.status
    BY <1>4 DEF ExecuteAnswerPart
  <2> HIDE DEF p, r
  <2>2. g.counted \subseteq Matches(p) /\ Faithful(g, p)
    BY <1>1, StructuredCounts, QualitativeCounts
  <2>3. Matches(p) \subseteq Objects
    BY <1>1, MatchesAreObjects
  <2>4. Reports(r, part, inputs)
    BY <1>1, <1>2, <1>4, <2>1, <2>2, <2>3 DEF Reports, Faithful, p
  <2> QED
    BY <2>4 DEF r
<1> QED
  BY <1>3, <1>4

----------------------------------------------------------------------------
(***************************************************************************)
(* Compilation means what the part asks for.                               *)
(***************************************************************************)

\* What the compiler reads of one condition in full.
Understood(c) ==
    /\ c.negated => NegationRead(c)
    /\ (c.kind = "text" /\ (Excludes(c) \/ c.several)) => Spelled(c)

\* One condition: the objects it keeps are those that satisfy it.
LEMMA CompiledCondition ==
    ASSUME NEW c, NEW o, c.negated \in BOOLEAN, c.holds \subseteq c.recorded, Understood(c)
    PROVE  o \in Compiled(c) <=> Satisfies(o, c)
<1>1. CASE c.kind = "text" /\ Excludes(c)
  <2>1. Compiled(c) = c.recorded \ c.literal
    BY <1>1 DEF Compiled
  <2>2. CASE c.negated
    <3>1. c.literal = c.holds
      BY <1>1, <2>2 DEF Understood, NegationRead, Spelled
    <3> QED
      BY <2>1, <2>2, <3>1 DEF Satisfies
  <2>3. CASE ~c.negated
    <3>1. c.literal = c.recorded \ c.holds
      BY <1>1, <2>3 DEF Understood, Excludes, Spelled
    <3> QED
      BY <2>1, <2>3, <3>1 DEF Satisfies
  <2> QED
    BY <2>2, <2>3
<1>2. CASE c.kind = "text" /\ ~Excludes(c) /\ c.several
  <2>1. Compiled(c) = c.literal
    BY <1>2 DEF Compiled
  <2>2. c.literal = c.holds
    BY <1>2 DEF Understood, Excludes, Spelled
  <2> QED
    BY <1>2, <2>1, <2>2 DEF Satisfies, Excludes
<1>3. CASE ~(c.kind = "text" /\ Excludes(c)) /\ ~(c.kind = "text" /\ ~Excludes(c) /\ c.several)
  <2>1. ~c.negated
    BY <1>3 DEF Understood, NegationRead, Excludes
  <2>2. Compiled(c) = c.holds
    BY <1>3 DEF Compiled
  <2> QED
    BY <2>1, <2>2 DEF Satisfies
<1> QED
  BY <1>1, <1>2, <1>3

\* All conditions: groups and alternatives nest as they are stated.
LEMMA CompiledConditions ==
    ASSUME NEW part, NEW o \in Objects,
           part.boolOp \in {"and", "or"},
           \A c \in part.conditions :
              c.negated \in BOOLEAN /\ c.holds \subseteq c.recorded /\ Understood(c),
           Compilable(part) = part.conditions
    PROVE  Nodes(part) = {} \/ o \in Combine(Nodes(part), part.boolOp) <=> ConditionsHold(part, o)
<1> DEFINE Cs == part.conditions
           Plain == {c \in Cs : c.group = NoGroup}
           Groups == {c.group : c \in Cs} \ {NoGroup}
           Any(g) == UNION {Compiled(c) : c \in {d \in Cs : d.group = g}}
           AnyOf(g) == \E c \in Cs : c.group = g /\ Satisfies(o, c)
<1>1. \A c \in Cs : o \in Compiled(c) <=> Satisfies(o, c)
  BY CompiledCondition
<1>2. \A g : o \in Any(g) <=> AnyOf(g)
  BY <1>1
<1>3. Nodes(part) = {Compiled(c) : c \in Plain} \cup {Any(g) : g \in Groups}
  BY DEF Nodes
<1>4. Nodes(part) = {} <=> Cs = {}
  <2> HIDE DEF Any
  <2>1. ASSUME NEW c \in Cs PROVE Nodes(part) # {}
    <3>1. CASE c \in Plain
      <4>1. Compiled(c) \in {Compiled(d) : d \in Plain}
        BY <3>1
      <4> HIDE DEF Plain
      <4> QED
        BY <1>3, <4>1
    <3>2. CASE c \notin Plain
      <4>1. Any(c.group) \in {Any(g) : g \in Groups}
        BY <3>2
      <4> HIDE DEF Groups
      <4> QED
        BY <1>3, <4>1
    <3> QED
      BY <3>1, <3>2
  <2> QED
    BY <1>3, <2>1
<1>5. ConditionsHold(part, o) <=>
         \/ Cs = {}
         \/ /\ part.boolOp = "and"
            /\ \A c \in Plain : Satisfies(o, c)
            /\ \A g \in Groups : AnyOf(g)
         \/ /\ part.boolOp = "or"
            /\ (\E c \in Plain : Satisfies(o, c)) \/ (\E g \in Groups : AnyOf(g))
  BY DEF ConditionsHold
<1> HIDE DEF Any, AnyOf, Groups
<1>6. (\A n \in Nodes(part) : o \in n) <=>
         (\A c \in Plain : Satisfies(o, c)) /\ (\A g \in Groups : AnyOf(g))
  BY <1>1, <1>2, <1>3
<1>7. (\E n \in Nodes(part) : o \in n) <=>
         (\E c \in Plain : Satisfies(o, c)) \/ (\E g \in Groups : AnyOf(g))
  BY <1>1, <1>2, <1>3
<1>8. o \in Combine(Nodes(part), part.boolOp) <=>
         \/ part.boolOp = "and" /\ \A n \in Nodes(part) : o \in n
         \/ part.boolOp = "or" /\ \E n \in Nodes(part) : o \in n
  BY DEF Combine
<1> QED
  BY <1>4, <1>5, <1>6, <1>7, <1>8

\* The scope: an object passes the filter and the entity ids exactly where the
\* part's scope holds it.
LEMMA CompiledScope ==
    ASSUME NEW part, NEW o \in Objects,
           offered \subseteq {"selected_objects", "previous_result"}, ScopeValid(part, offered),
           part.scope = "spatial_candidate" => part.candidate \in {"band", "active_model"},
           ~BandUnknown(part),
           ask.selection \subseteq Objects, ask.previousIds \subseteq Objects
    PROVE  InScope(part, o) <=>
              /\ o \in ScopeFilter(part)
              /\ ScopeIds(part, ask) # NoScope => o \in ScopeIds(part, ask)
<1>1. ask.selection # NoScope /\ ask.previousIds # NoScope
  BY NoScopeIsNoSet
<1>2. CASE part.scope = "spatial_candidate"
  BY <1>2 DEF InScope, NamedScope, ScopeFilter, InBand, BandUnknown, ScopeIds
<1>3. CASE part.scope \in {"active_model", "selected_objects", "previous_result"}
  BY <1>1, <1>3 DEF InScope, NamedScope, ScopeFilter, InBand, ScopeIds
<1> QED
  BY <1>2, <1>3 DEF ScopeValid

\* Together: a predicate with nothing left out matches what the part asks for.
LEMMA CompiledIsRequested ==
    ASSUME NEW part,
           part.boolOp \in {"and", "or"},
           \A c \in part.conditions : c.negated \in BOOLEAN /\ c.holds \subseteq c.recorded,
           offered \subseteq {"selected_objects", "previous_result"}, ScopeValid(part, offered),
           ask.selection \subseteq Objects, ask.previousIds \subseteq Objects,
           part.floor = NoScope \/ part.floor \subseteq Objects,
           ReadInFull(part),
           ~CompilePredicate(part, ask).unresolved
    PROVE  Matches(CompilePredicate(part, ask)) = Requested(part)
<1> DEFINE p == CompilePredicate(part, ask)
<1>1. ~BandUnknown(part) /\ Compilable(part) = part.conditions
  BY DEF CompilePredicate
<1>2. p.filters = MergeScopeAndConditions(ScopeFilter(part), Nodes(part), part.boolOp)
      /\ p.classes = part.subject /\ p.scope = ScopeIds(part, ask)
  BY DEF CompilePredicate
<1>3. p.filters \subseteq Objects
  BY CompiledIsPredicate DEF IsPredicate
<1> HIDE DEF p
<1>4. ASSUME NEW o \in Objects
      PROVE  o \in Matches(p) <=> o \in Requested(part)
  <2>1. Nodes(part) = {} \/ o \in Combine(Nodes(part), part.boolOp) <=> ConditionsHold(part, o)
    BY <1>1, CompiledConditions DEF ReadInFull, Understood
  <2>2. InScope(part, o) <=> o \in ScopeFilter(part) /\ (p.scope # NoScope => o \in p.scope)
    BY <1>1, <1>2, CompiledScope DEF ReadInFull
  <2>3. o \in p.filters <=>
           o \in ScopeFilter(part)
               /\ (Nodes(part) = {} \/ o \in Combine(Nodes(part), part.boolOp))
    BY <1>2 DEF MergeScopeAndConditions
  <2> QED
    BY <1>2, <2>1, <2>2, <2>3 DEF Matches, Requested
<1> QED
  BY <1>3, <1>4 DEF Matches, Requested, p

----------------------------------------------------------------------------
(***************************************************************************)
(* What the results are, and what is made of them.                         *)
(***************************************************************************)

\* Every result is the report of its own part of an admitted plan.
ResultsReport ==
    \A i \in DOMAIN results :
        /\ i \in Nat /\ i \in DOMAIN plan.parts
        /\ Reports(results[i], plan.parts[i], ask)

LEMMA ExecutionReports == Execution => ResultsReport
<1> SUFFICES ASSUME Execution, NEW i \in DOMAIN results
             PROVE  /\ i \in Nat /\ i \in DOMAIN plan.parts
                    /\ Reports(results[i], plan.parts[i], ask)
  BY DEF ResultsReport
<1>1. results # <<>>
  OBVIOUS
<1>2. plan \in Plans /\ ask.selection \subseteq Objects /\ ask.previousIds \subseteq Objects
  BY <1>1 DEF Execution, Admitted, Inputs, Cleared
<1>3. PICK e \in BOOLEAN :
          results = [k \in DOMAIN plan.parts |-> ExecuteAnswerPart(plan.parts[k], ask, e)]
  BY <1>1 DEF Execution, Ran
<1>4. i \in DOMAIN plan.parts /\ results[i] = ExecuteAnswerPart(plan.parts[i], ask, e)
  BY <1>3
<1>5. i \in Nat /\ (plan.parts[i].floor = NoScope \/ plan.parts[i].floor \subseteq Objects)
  BY <1>2, <1>4, PlansAreAboutObjects
<1> QED
  BY <1>2, <1>4, <1>5, PartReports

\* Two results have different part ids.
LEMMA ResultsDistinct ==
    ASSUME Execution, NEW id, NEW i \in ResultOf(id), NEW j \in ResultOf(id)
    PROVE  i = j
<1>1. results # <<>>
  BY DEF ResultOf
<1>2. DistinctIds(plan)
  BY <1>1 DEF Execution, Admitted, Cleared, StructurallyValid
<1>3. /\ i \in DOMAIN plan.parts /\ plan.parts[i].id = id
      /\ j \in DOMAIN plan.parts /\ plan.parts[j].id = id
  BY ExecutionReports DEF ResultsReport, Reports, ResultOf
<1> QED
  BY <1>2, <1>3 DEF DistinctIds

\* What is highlighted are objects.
LEMMA IdentitiesAreObjects ==
    ASSUME Execution
    PROVE  UNION {Identities(results[i]) : i \in SelectVisual} \subseteq Objects
<1>1. Visual \subseteq DOMAIN results /\ Visual \in SUBSET Nat
  BY ExecutionReports DEF Visual, ResultsReport
<1>2. Visual # {} => FirstIn(Visual) \in Visual
  BY <1>1, FirstInMember
<1>3. SelectVisual \subseteq DOMAIN results
  BY <1>1, <1>2 DEF SelectVisual
<1>4. ASSUME NEW i \in DOMAIN results
      PROVE  Identities(results[i]) \subseteq Objects
  <2>1. results[i].counted \subseteq Objects /\ Matches(results[i].predicate) \subseteq Objects
    BY ExecutionReports, MatchesAreObjects DEF ResultsReport, Reports
  <2> QED
    BY <2>1, FirstOfSubset DEF Identities
<1> QED
  BY <1>3, <1>4

\* The result that drives the viewer is a visible one, and there is one of them.
LEMMA OneIsShown ==
    ASSUME Execution
    PROVE  /\ SelectVisual \subseteq Visual
           /\ \A i, j \in SelectVisual : i = j
<1>1. Visual \in SUBSET Nat
  BY ExecutionReports DEF Visual, ResultsReport
<1>2. Visual # {} => FirstIn(Visual) \in Visual
  BY <1>1, FirstInMember
<1>3. \A i, j \in Visual \cap ResultOf(PrimaryVisual) : i = j
  BY ResultsDistinct
<1> QED
  BY <1>2, <1>3 DEF SelectVisual

\* The scope captured is that of an answerable result.
LEMMA NextScopeOfResult ==
    ASSUME Execution, NextScope # None
    PROVE  \E i \in DOMAIN results :
              /\ IsAnswerable(results[i])
              /\ NextScope = [predicate |-> results[i].predicate,
                              operation |-> results[i].operation,
                              counted |-> results[i].counted]
<1> DEFINE answerable == {i \in DOMAIN results : IsAnswerable(results[i])}
           primary == ResultOf(PrimaryVisual)
           target == IF primary # {} THEN primary
                     ELSE IF answerable # {} THEN {FirstIn(answerable)} ELSE {}
<1>1. PICK k \in target \cap answerable : TRUE
  BY DEF NextScope
<1>2. \A i \in target : i = k
  <2>1. CASE primary # {}
    <3> HIDE DEF answerable
    <3> QED
      BY <1>1, <2>1, ResultsDistinct
  <2>2. CASE primary = {}
    <3> HIDE DEF answerable, primary
    <3> QED
      BY <1>1, <2>2
  <2> QED
    BY <2>1, <2>2
<1>3. target = {k} /\ k \in Nat
  BY <1>1, <1>2, ExecutionReports DEF ResultsReport
<1>4. FirstIn(target) = k
  BY <1>3, FirstInMember
<1> QED
  BY <1>1, <1>4 DEF NextScope

----------------------------------------------------------------------------
(***************************************************************************)
(* The invariant is inductive.                                             *)
(***************************************************************************)

\* Nothing has been asked yet.
LEMMA InitInv == Init => IInv
<1> SUFFICES ASSUME Init PROVE IInv
  OBVIOUS
<1>1. Counters
  <2>1. plan \in Plans \cup {None}
    BY DEF Init
  <2>2. asked \in 0..MaxQuestions /\ calls \in 0..3
    BY BoundsAreNumbers DEF Init
  <2>3. corrected \in BOOLEAN
    BY DEF Init
  <2>4. stage \in {"idle", "asked", "bound", "executed", "answered"}
        /\ offered \subseteq {"selected_objects", "previous_result"}
    BY DEF Init
  <2> QED
    BY <2>1, <2>2, <2>3, <2>4 DEF Counters
<1>2. Phase /\ Kept /\ Given /\ highlight \subseteq Objects
  BY DEF Init, Phase, Kept, Given
<1>4. Lit
  BY DEF Init, Lit
<1>3. Execution
  BY DEF Init, Execution, Admitted, Ran, Inputs
<1> QED
  BY <1>1, <1>2, <1>3, <1>4 DEF IInv

\* Each step moves the counters within their bounds.
LEMMA CountersStep == Counters /\ Phase /\ [Next]_vars => Counters' /\ Phase'
<1> SUFFICES ASSUME Counters, Phase, [Next]_vars PROVE Counters' /\ Phase'
  OBVIOUS
<1> USE BoundsAreNumbers DEF Counters, Phase
<1>1. ASSUME NEW ledger \in Ledgers, NEW sel \in Selections, Question(ledger, sel)
      PROVE  Counters' /\ Phase'
  <2>1. asked' \in 0..MaxQuestions
    BY <1>1 DEF Question
  <2>2. Phase'
    BY <1>1 DEF Question
  <2>3. offered' \subseteq {"selected_objects", "previous_result"}
    BY <1>1 DEF Question
  <2>4. plan' \in Plans \cup {None}
    BY <1>1 DEF Question
  <2>5. stage' = "asked" /\ calls' \in 0..3
    BY <1>1 DEF Question
  <2>6. corrected' \in BOOLEAN
    BY <1>1 DEF Question
  <2> QED
    BY <2>1, <2>2, <2>3, <2>4, <2>5, <2>6
<1>2. CASE ManifestUnavailable
  BY <1>2 DEF ManifestUnavailable
<1>3. ASSUME NEW p \in Plans, Bind(p)
      PROVE  Counters' /\ Phase'
  BY <1>3 DEF Bind, Adopt
<1>4. ASSUME NEW p \in Plans, Correct(p)
      PROVE  Counters' /\ Phase'
  BY <1>4 DEF Correct, Adopt
<1>5. CASE Clarify
  BY <1>5 DEF Clarify, outcome
<1>6. ASSUME NEW embeddings \in BOOLEAN, Execute(embeddings)
      PROVE  Counters' /\ Phase'
  BY <1>6 DEF Execute
<1>7. ASSUME NEW grounded \in BOOLEAN, Answer(grounded)
      PROVE  Counters' /\ Phase'
  BY <1>7 DEF Answer
<1>8. CASE Show
  BY <1>8 DEF Show
<1>9. CASE Fail
  BY <1>9 DEF Fail
<1>10. CASE UNCHANGED vars
  BY <1>10 DEF vars, outcome
<1> QED
  BY <1>1, <1>2, <1>3, <1>4, <1>5, <1>6, <1>7, <1>8, <1>9, <1>10 DEF Next, AllAnswered

\* A plan that the gate calls ready has passed both validations.
LEMMA ReadyIsCleared ==
    ASSUME NEW p, NEW ledger, NEW on, Gate(p, ledger, on) = "ready"
    PROVE  StructurallyValid(p, on) /\ CoverageOk(p, ledger)
  BY DEF Gate

\* Binding or correcting admits a plan only through the gate.
LEMMA AdoptClears ==
    ASSUME NEW p \in Plans, Adopt(p), UNCHANGED <<ask, offered>>, gate' = "ready"
    PROVE  Cleared'
<1>1. Gate(p, ask.ledger, offered) = "ready" /\ plan' = p
  BY DEF Adopt
<1> QED
  BY <1>1, ReadyIsCleared DEF Cleared

\* Only an admitted plan runs, on the inputs of its own request.
LEMMA ExecutionStep == Counters /\ Phase /\ Execution /\ Kept /\ [Next]_vars => Execution'
<1> SUFFICES ASSUME Counters, Phase, Execution, Kept, [Next]_vars PROVE Execution'
  OBVIOUS
<1> USE DEF Execution
<1>1. ASSUME NEW ledger \in Ledgers, NEW sel \in Selections, Question(ledger, sel)
      PROVE  Execution'
  <2>1. ResolvePrevious \subseteq Objects
    BY MatchesAreObjects DEF ResolvePrevious, Kept
  <2>2. ask'.selection = sel /\ ask'.previousIds = ResolvePrevious
    BY <1>1 DEF Question
  <2>3. Inputs'
    BY <2>1, <2>2, SelectionsAreObjects DEF Inputs
  <2> QED
    BY <1>1, <2>3 DEF Question, Admitted, Ran
<1>2. CASE ManifestUnavailable
  BY <1>2 DEF ManifestUnavailable, Phase, Admitted, Ran, Inputs
<1>3. ASSUME NEW p \in Plans, Bind(p)
      PROVE  Execution'
  <2>1. results' = <<>> /\ Adopt(p) /\ UNCHANGED <<ask, offered>> /\ stage # "idle"
    BY <1>3 DEF Bind, Phase
  <2>2. Admitted'
    BY <2>1, AdoptClears DEF Admitted
  <2> QED
    BY <2>1, <2>2 DEF Ran, Inputs
<1>4. ASSUME NEW p \in Plans, Correct(p)
      PROVE  Execution'
  <2>1. results' = <<>> /\ Adopt(p) /\ UNCHANGED <<ask, offered>> /\ stage # "idle"
    BY <1>4 DEF Correct, Phase
  <2>2. Admitted'
    BY <2>1, AdoptClears DEF Admitted
  <2> QED
    BY <2>1, <2>2 DEF Ran, Inputs
<1>5. CASE Clarify
  BY <1>5 DEF Clarify, outcome, Phase, Admitted, Ran, Inputs
<1>6. ASSUME NEW embeddings \in BOOLEAN, Execute(embeddings)
      PROVE  Execution'
  <2>1. Admitted' /\ Inputs'
    BY <1>6 DEF Execute, Admitted, Cleared, Inputs
  <2>2. Ran'
    BY <1>6 DEF Execute, Ran
  <2> QED
    BY <2>1, <2>2
<1>7. ASSUME NEW grounded \in BOOLEAN, Answer(grounded)
      PROVE  Execution'
  BY <1>7 DEF Answer, Admitted, Cleared, Ran, Inputs
<1>8. CASE Show
  BY <1>8 DEF Show, Admitted, Cleared, Ran, Inputs
<1>9. CASE Fail
  BY <1>9 DEF Fail, Admitted, Ran, Inputs
<1>10. CASE UNCHANGED vars
  BY <1>10 DEF vars, outcome, Admitted, Cleared, Ran, Inputs
<1> QED
  BY <1>1, <1>2, <1>3, <1>4, <1>5, <1>6, <1>7, <1>8, <1>9, <1>10 DEF Next, AllAnswered

\* The scope kept changes with an answered question only, and the request in
\* progress keeps the one it was given.
LEMMA ScopeStep == IInv /\ [Next]_vars => Kept' /\ Given' /\ (highlight \subseteq Objects)'
<1> SUFFICES ASSUME IInv, [Next]_vars
             PROVE  Kept' /\ Given' /\ (highlight \subseteq Objects)'
  OBVIOUS
<1> USE DEF IInv
<1>1. ASSUME NEW ledger \in Ledgers, NEW sel \in Selections, Question(ledger, sel)
      PROVE  Kept' /\ Given' /\ (highlight \subseteq Objects)'
  <2>1. ask'.previousIds = ResolvePrevious /\ highlight' = {} /\ UNCHANGED previous
    BY <1>1 DEF Question
  <2>2. "previous_result" \in offered' => previous # None
    BY <1>1 DEF Question
  <2> QED
    BY <2>1, <2>2 DEF Kept, Given, ResolvePrevious, Matches
<1>2. CASE ManifestUnavailable
  BY <1>2 DEF ManifestUnavailable, Kept, Given
<1>3. ASSUME NEW p \in Plans, Bind(p)
      PROVE  Kept' /\ Given' /\ (highlight \subseteq Objects)'
  BY <1>3 DEF Bind, Kept, Given, IsPredicate, Matches
<1>4. ASSUME NEW p \in Plans, Correct(p)
      PROVE  Kept' /\ Given' /\ (highlight \subseteq Objects)'
  BY <1>4 DEF Correct, Kept, Given, IsPredicate, Matches
<1>5. CASE Clarify
  BY <1>5 DEF Clarify, outcome, Kept, Given
<1>6. ASSUME NEW embeddings \in BOOLEAN, Execute(embeddings)
      PROVE  Kept' /\ Given' /\ (highlight \subseteq Objects)'
  BY <1>6 DEF Execute, Kept, Given, IsPredicate, Matches
<1>7. ASSUME NEW grounded \in BOOLEAN, Answer(grounded)
      PROVE  Kept' /\ Given' /\ (highlight \subseteq Objects)'
  BY <1>7 DEF Answer, Kept, Given, IsPredicate, Matches
<1>8. CASE Show
  <2>1. stage' = "idle" /\ previous' = NextScope
        /\ highlight' = UNION {Identities(results[i]) : i \in SelectVisual}
    BY <1>8 DEF Show
  <2>2. Given' /\ (highlight \subseteq Objects)'
    BY <2>1, IdentitiesAreObjects DEF Given
  <2>3. ASSUME NextScope # None PROVE Kept'
    <3>1. PICK i \in DOMAIN results :
              /\ IsAnswerable(results[i])
              /\ NextScope = [predicate |-> results[i].predicate,
                              operation |-> results[i].operation,
                              counted |-> results[i].counted]
      BY <2>3, NextScopeOfResult
    <3>2. Reports(results[i], plan.parts[i], ask)
      BY ExecutionReports DEF ResultsReport
    <3>3. results[i].status # "unavailable"
      BY <3>1 DEF IsAnswerable
    <3> QED
      BY <2>1, <3>1, <3>2, <3>3 DEF Kept, Reports, Faithful, IsPredicate, Matches
  <2> QED
    BY <2>1, <2>2, <2>3 DEF Kept
<1>9. CASE Fail
  BY <1>9 DEF Fail, Kept, Given, IsPredicate, Matches
<1>10. CASE UNCHANGED vars
  BY <1>10 DEF vars, outcome, Kept, Given, IsPredicate, Matches
<1> QED
  BY <1>1, <1>2, <1>3, <1>4, <1>5, <1>6, <1>7, <1>8, <1>9, <1>10 DEF Next, AllAnswered

\* Light comes on with the answer and goes out with the next question.
LEMMA LitStep == IInv /\ [Next]_vars => Lit'
<1> SUFFICES ASSUME IInv, [Next]_vars PROVE Lit'
  OBVIOUS
<1> USE DEF IInv, Lit
<1>1. CASE Show
  <2>1. stage' = "idle" /\ results' = results
        /\ highlight' = UNION {Identities(results[i]) : i \in SelectVisual}
    BY <1>1 DEF Show
  <2>2. ASSUME highlight' # {}
        PROVE  \E i \in DOMAIN results :
                   HasVisualResult(results[i]) /\ highlight' = Identities(results[i])
    <3>1. PICK i \in SelectVisual : TRUE
      BY <2>1, <2>2
    <3>2. SelectVisual = {i} /\ i \in Visual
      BY <3>1, OneIsShown
    <3> QED
      BY <2>1, <3>2 DEF Visual
  <2> QED
    BY <2>1, <2>2
<1>2. CASE UNCHANGED <<stage, results, highlight>>
  BY <1>2
<1>3. CASE highlight' = {}
  BY <1>3
<1>4. Show \/ UNCHANGED <<stage, results, highlight>> \/ highlight' = {}
  BY DEF Next, Question, ManifestUnavailable, Bind, Correct, Clarify, Execute, Answer, Fail,
         AllAnswered, vars, outcome
<1> QED
  BY <1>1, <1>2, <1>3, <1>4

LEMMA Inductive == Spec => []IInv
<1>1. IInv /\ [Next]_vars => IInv'
  BY CountersStep, ExecutionStep, ScopeStep, LitStep DEF IInv
<1> QED
  BY InitInv, <1>1, PTL DEF Spec

----------------------------------------------------------------------------
(***************************************************************************)
(* Theorems.                                                               *)
(***************************************************************************)

\* Every state is type-correct and no question costs more than three calls of
\* the language model, whatever it answers (pipeline.py, run_pipeline).
THEOREM TypeCorrect == Spec => []TypeOK
<1>1. IInv => TypeOK
  BY ExecutionReports DEF IInv, Counters, Kept, ResultsReport, Reports, TypeOK
<1> QED
  BY Inductive, <1>1, PTL

\* Whatever the language model plans, what runs is accounted for: required
\* elements are disposed of as their role allows and filters have a source
\* (pipeline.py, ledger_validation.py).
THEOREM WhatRunsIsAccounted == Spec => []RunsAreAccounted
<1>1. ASSUME IInv, results # <<>> PROVE RunsAreAccounted
  <2>1. CoverageOk(plan, ask.ledger)
    BY <1>1 DEF IInv, Execution, Admitted, Cleared
  <2>2. \A i \in ask.ledger.required :
            /\ i \in DOMAIN plan.dispositions
            /\ plan.dispositions[i].kind \in Acceptable[ask.ledger.role[i]]
    BY <2>1 DEF CoverageOk, Undisposed, Mismatched, Disposed
  <2>3. \A k \in DOMAIN plan.parts : \A c \in plan.parts[k].conditions :
            c.inherited \/ c.span = "verbatim" \/ c.id \in DOMAIN plan.dispositions
    BY <2>1 DEF CoverageOk, Invented, PartsOf
  <2>4. ASSUME NEW i \in ask.ledger.required, plan.dispositions[i].kind = "bound_condition"
        PROVE  \E k \in DOMAIN plan.parts : plan.parts[k].conditions # {}
    <3>1. ClaimHolds(plan, ask.ledger, plan.dispositions[i])
      BY <2>1, <2>2, <2>4
         DEF CoverageOk, Unsupported, Mismatched, DeclaredFailures, Disposed, HonestFailures
    <3> QED
      BY <2>4, <3>1 DEF ClaimHolds, PartsOf
  <2> QED
    BY <2>2, <2>3, <2>4 DEF RunsAreAccounted
<1>2. IInv => RunsAreAccounted
  BY <1>1 DEF RunsAreAccounted
<1> QED
  BY Inductive, <1>2, PTL

\* A chain of follow-ups never loses or gains an object: the scope that is kept
\* and given to the next question is what the answer counted
\* (previous_scope.py).
THEOREM FollowUpsAreComplete == Spec => []FollowUpIsComplete
<1>1. IInv => FollowUpIsComplete
  BY DEF IInv, Kept, Given, FollowUpIsComplete
<1> QED
  BY Inductive, <1>1, PTL

\* For every model and every plan the gate admits, a number that SQL counted is
\* the number of objects its part asks for (compile.py, execute.py).
THEOREM CountsAreRequested == Spec => []ExactCountsRequested
<1>1. ASSUME IInv, NEW i \in DOMAIN results,
             plan.parts[i].operation # "relationship", ReadInFull(plan.parts[i]),
             results[i].status \in {"exact", "partial", "zero"}
      PROVE  results[i].counted = Requested(plan.parts[i])
  <2> DEFINE part == plan.parts[i]
  <2>1. i \in DOMAIN plan.parts /\ Reports(results[i], part, ask)
    BY <1>1, ExecutionReports DEF IInv, ResultsReport
  <2>2. results # <<>>
    BY <1>1
  <2>3. /\ plan \in Plans /\ StructurallyValid(plan, offered)
        /\ ask.selection \subseteq Objects /\ ask.previousIds \subseteq Objects
        /\ offered \subseteq {"selected_objects", "previous_result"}
    BY <1>1, <2>2 DEF IInv, Counters, Execution, Admitted, Cleared, Inputs
  <2>4. ScopeValid(part, offered)
    BY <2>1, <2>3 DEF StructurallyValid, PartValid, PartsOf
  <2>5. /\ results[i].counted = Matches(CompilePredicate(part, ask))
        /\ ~CompilePredicate(part, ask).unresolved
    BY <1>1, <2>1 DEF Reports, Faithful
  <2>6. /\ part.floor = NoScope \/ part.floor \subseteq Objects
        /\ part.boolOp \in {"and", "or"}
        /\ \A c \in part.conditions : c.negated \in BOOLEAN /\ c.holds \subseteq c.recorded
    BY <2>1, <2>3, PlansAreAboutObjects
  <2> HIDE DEF part
  <2>7. ReadInFull(part)
    BY <1>1 DEF part
  <2>8. Matches(CompilePredicate(part, ask)) = Requested(part)
    BY <2>3, <2>4, <2>5, <2>6, <2>7, CompiledIsRequested
  <2> QED
    BY <2>5, <2>8 DEF part
<1>2. IInv => ExactCountsRequested
  BY <1>1 DEF ExactCountsRequested
<1> QED
  BY Inductive, <1>2, PTL

\* The viewer shows one counted part, whole or as much of it as may be sent,
\* however many parts the plan has (viewer.py).
THEOREM HighlightsAreOneAnswer == Spec => []HighlightIsOneAnswer
<1>1. ASSUME IInv, NEW i \in DOMAIN results, HasVisualResult(results[i]),
             highlight = Identities(results[i])
      PROVE  /\ highlight \subseteq results[i].counted
             /\ highlight = results[i].counted \/ Cardinality(highlight) = MaxIdentities
  <2>1. Reports(results[i], plan.parts[i], ask)
    BY <1>1, ExecutionReports DEF IInv, ResultsReport
  <2>2. results[i].status # "unavailable"
    BY <1>1 DEF HasVisualResult
  <2>3. highlight = FirstOf(results[i].counted, MaxIdentities)
    BY <1>1, <2>1, <2>2 DEF Identities, Reports, Faithful
  <2>4. results[i].counted \subseteq Nat /\ IsFiniteSet(results[i].counted)
    BY <2>1, ObjectsAreIds, FS_Subset DEF Reports
  <2> QED
    BY <2>3, <2>4, FirstOfSubset, FirstOfSize, BoundsAreNumbers
<1>2. IInv => HighlightIsOneAnswer
  BY <1>1 DEF IInv, Lit, HighlightIsOneAnswer
<1> QED
  BY Inductive, <1>2, PTL
=============================================================================

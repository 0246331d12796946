--------------------------- MODULE QueryPipeline ---------------------------
(***************************************************************************)
(* run_pipeline (pipeline.py) as QueryService calls it, question after     *)
(* question of one conversation about one model: bind (LLM call 1), gate,  *)
(* at most one correction, one execution per answer part, grounded answer  *)
(* (LLM call 2), viewer identities and the scope a follow-up inherits.     *)
(*                                                                         *)
(* The language model is not trusted: each binding call may return any     *)
(* plan of Plans.  SessionStore models what interleaved requests do to the *)
(* stored scope; here questions of the session arrive one at a time.       *)
(***************************************************************************)
EXTENDS PartExecution, BindingGate

CONSTANTS
    Ledgers,        \* what build_ledger may make of a question
    Selections,     \* the viewer selections a question may carry
    Plans,          \* the plans a binding call may return
    MaxIdentities,  \* settings.max_viewer_match_ids
    MaxQuestions,   \* bound: questions of a run
    None            \* no previous scope, no plan, no visual part

ASSUME SelectionsAreObjects == Selections \subseteq SUBSET Objects
\* What the plan's identifiers resolve to: parts in a list, filters over the
\* objects of the model.
ASSUME PlansAreAboutObjects ==
    \A p \in Plans : \A i \in DOMAIN p.parts :
        /\ i \in Nat
        /\ p.parts[i].floor = NoScope \/ p.parts[i].floor \subseteq Objects
        /\ p.parts[i].boolOp \in {"and", "or"}
        /\ \A c \in p.parts[i].conditions :
              /\ c.negated \in BOOLEAN /\ c.several \in BOOLEAN
              /\ c.holds \subseteq c.recorded /\ c.literal \subseteq c.recorded
              /\ c.recorded \subseteq Objects
ASSUME BoundsAreNumbers == MaxQuestions \in Nat /\ MaxIdentities \in Nat /\ MaxSeeds \in Nat

VARIABLES
    stage,      \* where run_pipeline is
    ask,        \* the request: ledger, selection, entity ids of the previous result
    offered,    \* the entity scopes the slate offers
    plan,       \* outcome.binding
    gate,       \* outcome.gate_state
    corrected,  \* outcome.used_correction
    calls,      \* outcome.llm_calls
    results,    \* outcome.results
    fallback,   \* outcome.used_fallback
    highlight,  \* outcome.hydration.primary_global_ids
    previous,   \* SessionState.previous_scope
    asked       \* number of questions so far

outcome == <<plan, gate, corrected, calls, results, fallback, highlight>>
vars == <<stage, ask, offered, outcome, previous, asked>>

Init ==
    /\ stage = "idle"
    /\ ask = None
    /\ offered = {}
    /\ plan = None /\ gate = "none" /\ corrected = FALSE /\ calls = 0
    /\ results = <<>> /\ fallback = FALSE /\ highlight = {}
    /\ previous = None
    /\ asked = 0

\* The stored predicate is re-executed: every match, not a prefix.
ResolvePrevious == IF previous = None THEN {} ELSE Matches(previous.predicate)

Question(ledger, selection) ==
    /\ stage = "idle"
    /\ asked < MaxQuestions
    /\ asked' = asked + 1
    /\ ask' = [ledger |-> ledger, selection |-> selection, previousIds |-> ResolvePrevious]
    /\ offered' = {s \in {"selected_objects"} : selection # {}}
                  \cup {s \in {"previous_result"} : previous # None}
    /\ stage' = "asked"
    /\ plan' = None /\ gate' = "none" /\ corrected' = FALSE /\ calls' = 0
    /\ results' = <<>> /\ fallback' = FALSE /\ highlight' = {}
    /\ UNCHANGED previous

\* The manifest of the model cannot be read: no call is made, and the
\* outcome's empty next scope replaces the stored one.
ManifestUnavailable ==
    /\ stage = "asked"
    /\ gate' = "model_data_unavailable"
    /\ previous' = None
    /\ stage' = "idle"
    /\ UNCHANGED <<ask, offered, plan, corrected, calls, results, fallback, highlight, asked>>

\* A plan that will be corrected is of no further use.
Adopt(p) ==
    LET verdict == Gate(p, ask.ledger, offered)
    IN  /\ gate' = verdict
        /\ plan' = IF verdict = "recoverable_binding_gap" THEN None ELSE p

Bind(p) ==
    /\ stage = "asked"
    /\ calls' = calls + 1
    /\ Adopt(p)
    /\ stage' = "bound"
    /\ UNCHANGED <<ask, offered, corrected, results, fallback, highlight, previous, asked>>

Correct(p) ==
    /\ stage = "bound"
    /\ gate = "recoverable_binding_gap" /\ ~corrected
    /\ calls' = calls + 1
    /\ corrected' = TRUE
    /\ Adopt(p)
    /\ UNCHANGED <<stage, ask, offered, results, fallback, highlight, previous, asked>>

\* Ask back.  The outcome carries no scope, so the stored one is lost.
Clarify ==
    /\ stage = "bound"
    /\ gate = "needs_clarification" \/ (gate = "recoverable_binding_gap" /\ corrected)
    /\ previous' = None
    /\ stage' = "idle"
    /\ UNCHANGED <<ask, offered, outcome, asked>>

Execute(embeddings) ==
    /\ stage = "bound" /\ gate = "ready"
    /\ results' = [i \in DOMAIN plan.parts |->
                      ExecuteAnswerPart(plan.parts[i], ask, embeddings)]
    /\ stage' = "executed"
    /\ UNCHANGED <<ask, offered, plan, gate, corrected, calls, fallback, highlight, previous, asked>>

\* validate_answer accepts the generated answer or a summary replaces it;
\* there is no second answer call.
Answer(grounded) ==
    /\ stage = "executed"
    /\ calls' = calls + 1
    /\ fallback' = ~grounded
    /\ stage' = "answered"
    /\ UNCHANGED <<ask, offered, plan, gate, corrected, results, highlight, previous, asked>>

----------------------------------------------------------------------------
ResultOf(id) == {i \in DOMAIN results : results[i].part = id}

FirstIn(S) == CHOOSE i \in S : \A j \in S : i <= j

Visual == {i \in DOMAIN results : HasVisualResult(results[i])}

\* _primary_visual_part_id: the part the plan marks, else the first visual one.
PrimaryVisual ==
    IF Cardinality(PrimaryParts(plan)) = 1
    THEN plan.parts[CHOOSE i \in PrimaryParts(plan) : TRUE].id
    ELSE IF Visual # {} THEN results[FirstIn(Visual)].part ELSE None

\* Seeded bug: a marked part drives the viewer whatever its result.
SelectMarked ==
    IF ResultOf(PrimaryVisual) # {} THEN ResultOf(PrimaryVisual)
    ELSE IF Visual # {} THEN {FirstIn(Visual)} ELSE {}

\* _select_visual_part: the primary part if it is visual, else the first
\* visual one, else nothing.
SelectVisual ==
    LET primary == Visual \cap ResultOf(PrimaryVisual)
    IN  IF primary # {} THEN primary
        ELSE IF Visual # {} THEN {FirstIn(Visual)} ELSE {}

\* Endpoints of a traversal, or the part's own predicate run again.
Identities(r) ==
    FirstOf(IF r.operation = "relationship" THEN r.counted ELSE Matches(r.predicate),
            MaxIdentities)

\* Seeded bug: the id scope of a scoped answer is not captured.
NextScopeWithoutIds ==
    LET answerable == {i \in DOMAIN results : IsAnswerable(results[i])}
        target == IF ResultOf(PrimaryVisual) # {} THEN ResultOf(PrimaryVisual)
                  ELSE IF answerable # {} THEN {FirstIn(answerable)} ELSE {}
    IN  IF target \cap answerable = {} THEN None
        ELSE LET r == results[FirstIn(target)]
             IN  [predicate |-> [r.predicate EXCEPT !.scope = NoScope],
                  operation |-> r.operation, counted |-> r.counted]

\* capture_previous_scope of the primary part, or of the first answerable one
\* when no part is primary; a part whose subject the model does not hold has no
\* class to follow up.  `counted` is history: what that part reported.
NextScope ==
    LET answerable == {i \in DOMAIN results : IsAnswerable(results[i])}
        target == IF ResultOf(PrimaryVisual) # {} THEN ResultOf(PrimaryVisual)
                  ELSE IF answerable # {} THEN {FirstIn(answerable)} ELSE {}
    IN  IF target \cap answerable = {} \/ Absent(results[FirstIn(target)].predicate) THEN None
        ELSE LET r == results[FirstIn(target)]
             IN  [predicate |-> r.predicate, operation |-> r.operation, counted |-> r.counted]

Show ==
    /\ stage = "answered"
    /\ highlight' = UNION {Identities(results[i]) : i \in SelectVisual}
    /\ previous' = NextScope
    /\ stage' = "idle"
    /\ UNCHANGED <<ask, offered, plan, gate, corrected, calls, results, fallback, asked>>

\* A provider error in any call, or a database error in the execution: the
\* service returns an error envelope and leaves the session alone.
Fail ==
    /\ stage # "idle"
    /\ stage' = "idle"
    /\ gate' = "failed"
    /\ plan' = None /\ results' = <<>> /\ highlight' = {}
    /\ UNCHANGED <<ask, offered, corrected, calls, fallback, previous, asked>>

\* The conversation is over.
AllAnswered ==
    /\ stage = "idle" /\ asked = MaxQuestions
    /\ UNCHANGED vars

Next ==
    \/ \E ledger \in Ledgers, selection \in Selections : Question(ledger, selection)
    \/ ManifestUnavailable
    \/ \E p \in Plans : Bind(p) \/ Correct(p)
    \/ Clarify
    \/ \E embeddings \in BOOLEAN : Execute(embeddings)
    \/ \E grounded \in BOOLEAN : Answer(grounded)
    \/ Show
    \/ Fail
    \/ AllAnswered

Spec == Init /\ [][Next]_vars

----------------------------------------------------------------------------
IsPredicate(p) ==
    /\ DOMAIN p = {"classes", "filters", "scope", "unresolved"}
    /\ p.filters \subseteq Objects
    /\ p.scope = NoScope \/ p.scope \subseteq Objects
    /\ p.unresolved \in BOOLEAN

\* Every state is well formed, and no question costs more than three calls.
TypeOK ==
    /\ stage \in {"idle", "asked", "bound", "executed", "answered"}
    /\ offered \subseteq {"selected_objects", "previous_result"}
    /\ plan \in Plans \cup {None}
    /\ corrected \in BOOLEAN
    /\ calls \in 0..3
    /\ asked \in 0..MaxQuestions
    /\ highlight \subseteq Objects
    /\ \A i \in DOMAIN results :
          IsPredicate(results[i].predicate) /\ results[i].counted \subseteq Objects
    /\ previous # None => IsPredicate(previous.predicate) /\ previous.counted \subseteq Objects

\* What a part asks for, read off the part itself, object by object.
Satisfies(o, c) == o \in c.recorded /\ (o \in c.holds <=> ~c.negated)

ConditionsHold(part, o) ==
    LET ungrouped == {c \in part.conditions : c.group = NoGroup}
        groups == {c.group : c \in part.conditions} \ {NoGroup}
        AnyOf(g) == \E c \in part.conditions : c.group = g /\ Satisfies(o, c)
    IN  \/ part.conditions = {}
        \/ /\ part.boolOp = "and"
           /\ \A c \in ungrouped : Satisfies(o, c)
           /\ \A g \in groups : AnyOf(g)
        \/ /\ part.boolOp = "or"
           /\ (\E c \in ungrouped : Satisfies(o, c)) \/ (\E g \in groups : AnyOf(g))

\* The scope a part names, directly or through a spatial candidate.
NamedScope(part) == IF part.scope = "spatial_candidate" THEN part.candidate ELSE part.scope

InScope(part, o) ==
    CASE NamedScope(part) = "active_model" -> TRUE
      [] NamedScope(part) = "band" -> o \in part.floor
      [] NamedScope(part) = "selected_objects" -> o \in ask.selection
      [] NamedScope(part) = "previous_result" -> o \in ask.previousIds

Requested(part) ==
    {o \in Objects : /\ ClassOf[o] \in part.subject
                     /\ InScope(part, o)
                     /\ ConditionsHold(part, o)}

\* The values of a condition are all that its comparison is about: every
\* spelling of them that the field holds is among them.
Spelled(c) ==
    c.literal = IF c.comparison = "not_equals" THEN c.recorded \ c.holds ELSE c.holds

\* What the compiler reads of a part: the negation of a text equality whose
\* values are spelled out, not that of a fragment, of an inequality, of a number
\* or of a presence; and an entity scope only where it is named directly.
NegationRead(c) == c.kind = "text" /\ c.comparison \in {"equals", "one_of"}
ReadInFull(part) ==
    /\ \A c \in part.conditions :
          /\ c.negated => NegationRead(c)
          /\ (c.kind = "text" /\ (Excludes(c) \/ c.several)) => Spelled(c)
    /\ part.scope = "spatial_candidate" => part.candidate \in {"band", "active_model"}

\* An answer counted by SQL and called exact counts exactly the objects its
\* part asks for, class, scope, alternatives and exclusions included, where the
\* compiler reads the part in full.  The count is never widened by a condition
\* that could not be compiled (compile.py, execute.py).
ExactCountsRequested ==
    \A i \in DOMAIN results :
        LET part == plan.parts[i]
        IN  (part.operation # "relationship" /\ ReadInFull(part)
                /\ results[i].status \in {"exact", "partial", "zero"})
            => results[i].counted = Requested(part)

\* The viewer lights up the objects of one part that was counted, all of them
\* or as many as it may be sent, and nothing for a zero, an unavailable or an
\* unanswered question (viewer.py).
HighlightIsOneAnswer ==
    highlight # {} =>
        \E i \in DOMAIN results :
            /\ HasVisualResult(results[i])
            /\ highlight \subseteq results[i].counted
            /\ highlight = results[i].counted \/ Cardinality(highlight) = MaxIdentities

\* The scope kept for a follow-up stands for exactly the objects the answer
\* counted, however many there were and however the answer was itself scoped
\* (previous_scope.py), and that is what the next question is given.
FollowUpIsComplete ==
    /\ (previous # None /\ previous.operation # "relationship") =>
           Matches(previous.predicate) = previous.counted
    /\ (stage \in {"asked", "bound", "executed"} /\ "previous_result" \in offered) =>
           ask.previousIds = Matches(previous.predicate)

\* No part runs unless every required element of the question was disposed of
\* in a way its role allows, and no filter runs that neither the question nor
\* a previous result accounts for - also after a correction (pipeline.py).
RunsAreAccounted ==
    results # <<>> =>
        /\ \A i \in ask.ledger.required :
              /\ i \in DOMAIN plan.dispositions
              /\ plan.dispositions[i].kind \in Acceptable[ask.ledger.role[i]]
        /\ \A k \in DOMAIN plan.parts : \A c \in plan.parts[k].conditions :
              c.span = "verbatim" \/ (c.span = "none" /\ c.inherited)
                  \/ c.id \in DOMAIN plan.dispositions \/ c.inherited
        /\ \A i \in ask.ledger.required :
              (ask.ledger.role[i] = "condition"
                  /\ plan.dispositions[i].kind = "bound_condition") =>
                  \E k \in DOMAIN plan.parts : plan.parts[k].conditions # {}

----------------------------------------------------------------------------
(***************************************************************************)
(* What the sources say and the code does not do.                          *)
(***************************************************************************)

\* A dropped condition cannot be reported as a broader exact answer
\* (pipeline.py): the plan declares a required condition of the question
\* unavailable, filters by nothing, and its count is called exact.
NoConditionDropped ==
    (\E i \in DOMAIN results : results[i].status = "exact") =>
        \/ \E part \in PartsOf(plan) : part.conditions # {}
        \/ \A i \in ask.ledger.required :
              ask.ledger.role[i] = "condition" => plan.dispositions[i].kind \notin HonestFailures

\* An unresolved condition forces an unavailable or partial result, whatever
\* the operation (compile.py).
UnresolvedIsNotExact ==
    \A i \in DOMAIN results :
        results[i].predicate.unresolved => results[i].status \in {"unavailable", "partial"}

\* A scope that cannot restrict is refused, so no count leaves the scope its
\* part names (compile.py: "Validation rejects this too").
CountsStayInScope ==
    \A i \in DOMAIN results :
        (results[i].operation # "relationship" /\ results[i].status = "exact") =>
            \A o \in results[i].counted : InScope(plan.parts[i], o)

\* The scope kept for a follow-up describes the result the user was shown
\* (previous_scope.py).
FollowUpIsWhatWasShown ==
    (stage = "idle" /\ previous # None /\ highlight # {}) =>
        highlight \subseteq Matches(previous.predicate)
=============================================================================

---------------------------- MODULE BindingGate ----------------------------
(***************************************************************************)
(* The deterministic gate between the binding call and execution:          *)
(* validate_binding (validate.py) checks a plan's structure,               *)
(* validate_ledger_coverage (ledger_validation.py) checks that it accounts *)
(* for every required element of the question, and _gate (pipeline.py)     *)
(* turns the two verdicts into one state.                                  *)
(*                                                                         *)
(* A ledger is [role, required]: the role of each item the question was    *)
(* split into and the items that must be accounted for.  A plan is         *)
(* [parts, dispositions, clarify], a disposition [kind, part, other].      *)
(***************************************************************************)
EXTENDS Integers, Sequences, FiniteSets

HonestFailures == {"ambiguous", "unavailable"}

\* What may discharge an item of each role.
Acceptable ==
    LET always == {"redundant_with"} \cup HonestFailures
    IN  [subject |-> always \cup {"bound_subject", "bound_condition"},
         condition |-> always \cup {"bound_condition", "bound_subject", "bound_scope"},
         scope |-> always \cup {"bound_scope", "bound_condition"},
         output |-> always \cup {"bound_output", "bound_subject"},
         relationship |-> always \cup {"bound_relationship"}]

PartsOf(plan) == {plan.parts[i] : i \in DOMAIN plan.parts}

\* _verify_claim: a claimed binding must point at work the plan contains.
ClaimHolds(plan, ledger, d) ==
    IF d.kind = "redundant_with" THEN d.other \in DOMAIN ledger.role
    ELSE \E part \in PartsOf(plan) :
            /\ part.id = d.part
            /\ d.kind = "bound_condition" => part.conditions # {}
            /\ d.kind = "bound_output" => part.outputs # "none"
            /\ d.kind = "bound_relationship" => part.relationship # "none"

Undisposed(plan, ledger) == ledger.required \ DOMAIN plan.dispositions

Disposed(plan, ledger) == ledger.required \cap DOMAIN plan.dispositions

Mismatched(plan, ledger) ==
    {i \in Disposed(plan, ledger) :
        plan.dispositions[i].kind \notin Acceptable[ledger.role[i]]}

DeclaredFailures(plan, ledger) ==
    {i \in Disposed(plan, ledger) : plan.dispositions[i].kind \in HonestFailures}

Unsupported(plan, ledger) ==
    {i \in Disposed(plan, ledger) \ (Mismatched(plan, ledger) \cup DeclaredFailures(plan, ledger)) :
        ~ClaimHolds(plan, ledger, plan.dispositions[i])}

\* A condition is traced by inheritance, by a verbatim span of the question
\* or by the id of a disposed item.
Invented(plan) ==
    {c \in UNION {part.conditions : part \in PartsOf(plan)} :
        ~(c.inherited \/ c.span = "verbatim" \/ c.id \in DOMAIN plan.dispositions)}

CoverageOk(plan, ledger) ==
    /\ Undisposed(plan, ledger) = {}
    /\ Mismatched(plan, ledger) = {}
    /\ Unsupported(plan, ledger) = {}
    /\ Invented(plan) = {}

----------------------------------------------------------------------------
(***************************************************************************)
(* Structural validation.  `offered` holds the entity scopes this request  *)
(* has: "selected_objects", "previous_result".                             *)
(***************************************************************************)

\* _check_condition: provenance, then the candidate, operator, value and unit
\* checks, whose verdict is the plan's `fits`.
ConditionValid(c, offered) ==
    /\ c.span \in {"verbatim", "normalised"} \/ (c.span = "none" /\ c.inherited)
    /\ c.inherited => "previous_result" \in offered
    /\ c.fits

\* A spatial candidate need only be one that the slate offers.
ScopeValid(part, offered) ==
    IF part.scope = "spatial_candidate"
    THEN part.candidate \in {"band", "active_model"} \cup offered
    ELSE part.scope \in {"active_model"} \cup offered

\* An empty subject is one that names no class of the model's manifest.
PartValid(part, offered) ==
    /\ part.subject # {}
    /\ ScopeValid(part, offered)
    /\ \A c \in part.conditions : ConditionValid(c, offered)
    /\ part.ranking => part.operation \in {"description", "comparison"}
    /\ part.outputs # "unknown"
    /\ part.operation = "relationship" => part.relationship # "none"
    /\ part.relationship \notin {"unknown", "absent"}

DistinctIds(plan) ==
    \A i, j \in DOMAIN plan.parts : plan.parts[i].id = plan.parts[j].id => i = j

PrimaryParts(plan) == {i \in DOMAIN plan.parts : plan.parts[i].visual}

StructurallyValid(plan, offered) ==
    /\ plan.parts # <<>>
    /\ DistinctIds(plan)
    /\ Cardinality(PrimaryParts(plan)) <= 1
    /\ \A part \in PartsOf(plan) : PartValid(part, offered)

\* Seeded bug: a plan is admitted on its structure alone.
GateOnStructure(plan, ledger, offered) ==
    IF plan.clarify THEN "needs_clarification"
    ELSE IF StructurallyValid(plan, offered) THEN "ready"
    ELSE "recoverable_binding_gap"

\* _gate.  A mechanical gap (anything CoverageOk rules out) may be corrected
\* once; a declared failure may not.
Gate(plan, ledger, offered) ==
    IF plan.clarify THEN "needs_clarification"
    ELSE IF StructurallyValid(plan, offered) /\ CoverageOk(plan, ledger) THEN "ready"
    ELSE "recoverable_binding_gap"
=============================================================================

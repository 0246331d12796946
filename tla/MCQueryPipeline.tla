-------------------------- MODULE MCQueryPipeline --------------------------
(***************************************************************************)
(* A model of three walls and two spaces, linked wall by wall to a space,  *)
(* and the plans a binding call may return about it: every operation under *)
(* every scope, conditions that filter, exclude, group, do not compile or  *)
(* do not belong, two-part plans, and plans the gate must refuse.          *)
(***************************************************************************)
EXTENDS QueryPipeline

MCObjects == 1..5
MCClassOf == [o \in 1..5 |-> IF o <= 3 THEN "wall" ELSE "space"]
MCMeasured == {1, 2, 4}
MCLinked == <<{4}, {5}, {4}, {1, 3}, {2}>>
MCSelections == {{}, {2, 4}}

\* "External walls" as a filter; the same words naming a subject.
MCLedgers ==
    {[role |-> [L1 |-> "condition"], required |-> {"L1"}],
     [role |-> [L1 |-> "subject", L2 |-> "scope"], required |-> {"L1"}]}

External ==
    [id |-> "c1", kind |-> "text", comparison |-> "equals", several |-> FALSE,
     recorded |-> {1, 2, 3}, holds |-> {1, 2}, literal |-> {1, 2},
     negated |-> FALSE, group |-> NoGroup, resolves |-> TRUE, fits |-> TRUE,
     span |-> "verbatim", inherited |-> FALSE]
FireRated == [External EXCEPT !.id = "c2", !.recorded = {2, 3}, !.holds = {3}, !.literal = {3}]
NotFireRated == [FireRated EXCEPT !.negated = TRUE, !.holds = {2}, !.literal = {2}]
\* "Not EI 60", bound to an inequality, and that negated once more; a value the
\* field spells in two ways; a fragment of a value, and its negation.
Unequal == [FireRated EXCEPT !.comparison = "not_equals", !.holds = {2}]
NotUnequal == [Unequal EXCEPT !.negated = TRUE]
OneOf == [External EXCEPT !.id = "c3", !.comparison = "one_of", !.several = TRUE]
TwoSpellings == [NotFireRated EXCEPT !.holds = {2, 3}]
Fragment == [External EXCEPT !.id = "c4", !.comparison = "fragment", !.literal = {1}]
NotFragment == [Fragment EXCEPT !.negated = TRUE]
NotThick == [External EXCEPT !.kind = "number", !.negated = TRUE, !.holds = {1}, !.literal = {1}]
UnknownValue == [External EXCEPT !.resolves = FALSE]
WrongField == [External EXCEPT !.fits = FALSE]
Unasked == [External EXCEPT !.span = "none"]
Paraphrased == [External EXCEPT !.span = "normalised"]
OfPrevious == [External EXCEPT !.span = "none", !.inherited = TRUE]

Grouped == {[External EXCEPT !.group = "g"], [FireRated EXCEPT !.group = "g"]}

Part ==
    [id |-> "p1", operation |-> "count", subject |-> {"wall"}, scope |-> "active_model",
     candidate |-> "band", floor |-> {1, 3, 4}, conditions |-> {}, boolOp |-> "and", outputs |-> "none",
     ranking |-> FALSE, relationship |-> "none", endpoint |-> {}, visual |-> FALSE]

Scopes == {"active_model", "selected_objects", "previous_result", "spatial_candidate"}

Filtered ==
    {[Part EXCEPT !.conditions = cs] :
        cs \in {{}, {External}, {NotFireRated}, {External, FireRated}, {NotThick},
                {UnknownValue}, {OfPrevious}, Grouped, Grouped \cup {NotFireRated},
                {Unequal}, {NotUnequal}, {OneOf, Unequal}, {TwoSpellings}, {Fragment}, {NotFragment}}}
    \cup {[Part EXCEPT !.conditions = cs, !.boolOp = "or"] :
             cs \in {{External, FireRated}, {External, UnknownValue}}}

Spaces == [Part EXCEPT !.subject = {"space"}]
Doors == [Part EXCEPT !.subject = {"door"}]
Summed ==
    {[p EXCEPT !.operation = "aggregate", !.outputs = f] : p \in {Part, Spaces},
                                                            f \in {"measured", "mixed"}}
Described == [Part EXCEPT !.operation = "description", !.ranking = TRUE]
Connected ==
    {[Part EXCEPT !.operation = "relationship", !.relationship = "recorded",
                  !.conditions = cs, !.endpoint = e] :
        cs \in {{}, {External}, {UnknownValue}}, e \in {{}, {"space"}}}
    \cup {[Part EXCEPT !.operation = "relationship", !.relationship = "untraversable"],
          [Doors EXCEPT !.operation = "relationship", !.relationship = "recorded"]}

Scoped ==
    {[p EXCEPT !.scope = s] : p \in Filtered \cup Summed \cup Connected \cup {Spaces, Doors, Described},
                              s \in Scopes}
    \cup {[Part EXCEPT !.scope = "spatial_candidate", !.floor = NoScope]}
    \cup {[Part EXCEPT !.scope = "spatial_candidate", !.candidate = s] :
             s \in Scopes \ {"spatial_candidate"}}

Refused ==
    {[Part EXCEPT !.conditions = {c}] : c \in {WrongField, Unasked, Paraphrased}}
    \cup {[Part EXCEPT !.subject = {}], [Part EXCEPT !.outputs = "unknown"],
          [Part EXCEPT !.ranking = TRUE], [Part EXCEPT !.operation = "relationship"],
          [Part EXCEPT !.relationship = "absent"]}

Accounts == [kind |-> "bound_condition", part |-> "p1", other |-> "L1"]
Names == [Accounts EXCEPT !.kind = "bound_subject"]
Dispositions ==
    {[L1 |-> [Accounts EXCEPT !.kind = k]] :
        k \in {"bound_condition", "bound_subject", "bound_output", "unavailable", "redundant_with"}}
    \cup {[L1 |-> [Accounts EXCEPT !.part = "p3"]],
          [L1 |-> [Accounts EXCEPT !.kind = "redundant_with", !.other = "L9"]], <<>>}

Plan(parts, d) == [parts |-> parts, dispositions |-> d, clarify |-> FALSE]

Second(visual) ==
    {[p EXCEPT !.id = "p2", !.visual = visual] :
        p \in {Spaces, [Part EXCEPT !.conditions = {UnknownValue}],
               [Spaces EXCEPT !.scope = "previous_result"]}}

MCPlans ==
    {Plan(<<p>>, [L1 |-> IF p.conditions # {} THEN Accounts ELSE Names]) : p \in Scoped}
    \cup {Plan(<<Part>>, d) : d \in Dispositions}
    \cup {Plan(<<p>>, [L1 |-> Names]) : p \in Refused}
    \cup {Plan(<<p, q>>, [L1 |-> Names]) :
             p \in {Part, [Part EXCEPT !.visual = TRUE], [Part EXCEPT !.scope = "previous_result"]},
             q \in Second(TRUE) \cup Second(FALSE)}
    \cup {Plan(<<Part, Part>>, [L1 |-> Names]), Plan(<<>>, [L1 |-> Names])}
    \cup {[Plan(<<>>, <<>>) EXCEPT !.clarify = TRUE]}
=============================================================================

------------------------------- MODULE Answers -------------------------------
(***************************************************************************)
(* From a validated plan to what the user receives: run_pipeline executes  *)
(* every part, a language model writes an answer from the packet, the      *)
(* answer is validated or replaced by the fallback, and the highlight and  *)
(* the card are built from the results (pipeline.py, service.py).          *)
(***************************************************************************)
EXTENDS AnswerResults

-----------------------------------------------------------------------------
(* The highlight and the card: viewer.py fetches the objects of one part,   *)
(* presentation.py and service.py describe them.                            *)

CONSTANTS
  MaxIdentities,    \* Settings.max_viewer_match_ids
  MaxRows,          \* MAX_EXPLANATION_ROWS
  MaxBars,          \* MAX_EXPLANATION_BUCKETS
  MaxGroups         \* MAX_EXPLANATION_GROUPS

Visual(results) == {i \in DOMAIN results : HasVisualResult(results[i])}

\* _primary_visual_part_id: the one marked part, otherwise the first visual one.
PrimaryVisual(results) ==
  LET marked == {i \in DOMAIN results : results[i].part.primary}
  IN IF Cardinality(marked) = 1 THEN results[CHOOSE i \in marked : TRUE].part.id
     ELSE IF Visual(results) = {} THEN None ELSE results[Min(Visual(results))].part.id

\* _select_visual_part and select_visual_result: a marked part without objects
\* gives way to the first that has some.
SelectVisual(results) ==
  LET explicit == {i \in Visual(results) : results[i].part.id = PrimaryVisual(results)}
  IN IF Visual(results) = {} THEN None ELSE results[Min(IF explicit # {} THEN explicit ELSE Visual(results))]

NoHighlight == [ids |-> {}, total |-> 0, truncated |-> FALSE, counts |-> {}]
Capped(S) == [ids |-> FirstOf(S, MaxIdentities), total |-> Cardinality(S),
              truncated |-> Cardinality(S) > MaxIdentities, counts |-> Buckets(S, ClassOf)]

\* hydrate_viewer_identities, _hydrate_from_endpoints.
Hydrate(r) ==
  IF r = None THEN NoHighlight
  ELSE IF r.part.op = "relationship" THEN Capped(r.endpoints)
  ELSE IF r.part.classes = {} THEN NoHighlight ELSE Capped(Matched(r.part))

-----------------------------------------------------------------------------
Count(buckets, key) == IF \E b \in buckets : b.key = key THEN (CHOOSE b \in buckets : b.key = key).count ELSE None

Group(class, ids, exact) ==
  [key |-> class, count |-> Count(exact, class), ids |-> ids,
   truncated |-> Count(exact, class) # None /\ Count(exact, class) > Cardinality(ids)]
\* Seeded bug: the counts of the groups are those of the capped list.
GroupsOfShown(r, lit) ==
  LET shown == {ClassOf[o] : o \in lit.ids}
  IN {Group(c, {o \in lit.ids : ClassOf[o] = c}, Buckets(lit.ids, ClassOf)) : c \in shown}
\* _groups: two classes at least; the largest come first, then those of a lower name.
Groups(r, lit) ==
  LET shown  == {ClassOf[o] : o \in lit.ids}
      exact  == IF r.breakdown # {} THEN r.breakdown ELSE lit.counts
      groups == {Group(c, {o \in lit.ids : ClassOf[o] = c}, exact) : c \in shown}
      Before(g, h) == g.count > h.count \/ (g.count = h.count /\ g.key < h.key)
  IN IF Cardinality(shown) < 2 THEN {}
     ELSE {g \in groups : Cardinality({h \in groups : Before(h, g)}) < MaxGroups}

\* _choose: the one presentation the operation and its data support.
Presentations(r, lit) ==
  LET plain == [kind |-> None, rows |-> {}, bars |-> {}, graph |-> None, groups |-> {}]
      bars  == Largest(r.distribution, MaxBars)
      graph == Graph(r, lit.ids)
  IN CASE r.part.op \in {"count", "list"} ->
            {[plain EXCEPT !.kind = "result_table", !.rows = FirstOf(lit.ids, MaxRows), !.groups = Groups(r, lit)]}
       [] r.part.op = "group_distribution" ->
            {[plain EXCEPT !.kind = IF Cardinality(b) > 1 THEN "bar_chart" ELSE "group_table", !.bars = b] : b \in bars}
       [] r.part.op = "relationship" ->
            {IF graph.why = None THEN [plain EXCEPT !.kind = "relationship_graph", !.graph = graph]
             ELSE [plain EXCEPT !.kind = "relationship_table", !.rows = FirstOf(r.endpoints, MaxRows),
                                !.groups = Groups(r, lit)]}
       [] OTHER -> {plain}

\* build_answer_explanation: no card without a highlight or a presentation.
Cards(r, lit) ==
  IF r = None \/ lit.ids = {} THEN {None}
  ELSE {IF c.kind = None THEN None
        ELSE [part |-> r.part.id, status |-> r.status, exact |-> r.total, shown |-> Cardinality(lit.ids),
              total |-> lit.total, truncated |-> lit.truncated, aggregate |-> r.aggregate,
              kind |-> c.kind, rows |-> c.rows, bars |-> c.bars, graph |-> c.graph, groups |-> c.groups] :
        c \in Presentations(r, lit)}

-----------------------------------------------------------------------------
CONSTANTS Plans,   \* sequences of validated answer parts
          Drafts   \* what the language model may write
\* MAX_EXPLANATION_ROWS mirrors the setting, which a test holds to be equal.
ASSUME BoundsAreCounts == {MaxSeeds, MaxIdentities, MaxRows} \subseteq Nat /\ MaxRows <= MaxIdentities
\* validate_binding: no part id twice.
ASSUME PartsAreValid ==
  \A parts \in Plans :
    /\ Len(parts) \in Nat /\ DOMAIN parts = 1 .. Len(parts)
    /\ \A i, j \in DOMAIN parts : parts[i].id = parts[j].id => i = j
    /\ \A i \in DOMAIN parts : LET p == parts[i] IN
         /\ p.where \subseteq Objects /\ p.depth \in Nat
         /\ p.scope # None => p.scope \subseteq Objects
\* What a text states it has the digits of.
ASSUME TextsHaveDigits == \A d \in Drafts : d.numbers \subseteq d.spelled

VARIABLES plan, results, said, lit, card, stage
vars == <<plan, results, said, lit, card, stage>>

Init ==
  /\ plan \in Plans
  /\ results = <<>> /\ said = None /\ lit = NoHighlight /\ card = None
  /\ stage = "validated"

\* One execution per part, in the order of the plan.
Execute ==
  /\ stage = "validated"
  /\ results' \in {rs \in [DOMAIN plan -> UNION {Results(plan[i]) : i \in DOMAIN plan}] :
                     \A i \in DOMAIN plan : rs[i] \in Results(plan[i])}
  /\ stage' = "executed"
  /\ UNCHANGED <<plan, said, lit, card>>

\* The language model's answer, if it restates the packet; otherwise one line
\* of the backend's own for every part.
Answer(d) ==
  /\ stage = "executed"
  /\ said' = IF Validated(d, results) THEN [by |-> "model", draft |-> d]
             ELSE [by |-> "backend", lines |-> [i \in DOMAIN results |-> FallbackLine(results[i])]]
  /\ stage' = "answered"
  /\ UNCHANGED <<plan, results, lit, card>>

\* hydrate_viewer_identities, then build_answer_explanation.
Present ==
  /\ stage = "answered"
  /\ \E shown \in {SelectVisual(results)} :
       /\ lit' = Hydrate(shown)
       /\ card' \in Cards(shown, lit')
  /\ stage' = "presented"
  /\ UNCHANGED <<plan, results, said>>

Next == Execute \/ (\E d \in Drafts : Answer(d)) \/ Present
Spec == Init /\ [][Next]_vars

-----------------------------------------------------------------------------
(* What is true of the model, without the code's queries.                   *)

PlanOf(id) == plan[CHOOSE i \in DOMAIN plan : plan[i].id = id]
InScope(p) == IF p.scope = None THEN Objects ELSE p.scope
Meant(p) == {o \in p.where \cap InScope(p) : ClassOf[o] \in p.classes}
Known(p) == {o \in Meant(p) : Value[o] # None}

Opposite(m, n) == (m.role \in Relating /\ n.role \in Related) \/ (m.role \in Related /\ n.role \in Relating)
LinkRows == {l \in MemberRows \X MemberRows : /\ l[1].rel = l[2].rel /\ l[1] # l[2] /\ None \notin {l[1].of, l[2].of}
                                              /\ Opposite(l[1], l[2])}
Touching(S) == {k[2].of : k \in {l \in LinkRows : l[1].of \in S}}
Near(S, d) ==
  LET near[n \in 0 .. d] == IF n = 0 THEN S ELSE near[n - 1] \cup Touching(near[n - 1])
  IN near[d]
Starts(p) == IF p.scope \in {None, {}} THEN Meant(p) ELSE p.scope
Connected(p) ==
  {o \in Near(Starts(p), p.depth) \ Starts(p) : p.reaches = {} \/ ClassOf[o] \in p.reaches}
\* Parts the code answers as asked: their condition resolved, their subject in
\* the model, and no more subjects than a traversal starts from.
Plain(p) == p.op = "relationship" =>
              (~p.unresolved /\ p.classes # {} /\ Cardinality(Starts(p)) <= MaxSeeds)

Asked(p) == IF p.op = "relationship" THEN Connected(p) ELSE Meant(p)
Established(p) ==
  IF p.op = "relationship" THEN p.relation = "recorded" /\ Starts(p) # {} ELSE ~p.unresolved
Truth(p, kind) ==
  CASE kind = "total" -> Ones(Cardinality(Meant(p)))
    [] kind = "aggregate" -> IF p.op = "extremum" THEN Max({Value[o] : o \in Known(p)})
                             ELSE Total(Known(p))
    [] kind = "endpoints" -> Ones(Cardinality(Connected(p)))

\* v reads as t does: exactly below a million parts, beyond to five digits.
ReadsAs(v, t) ==
  /\ t \in 1 - Million .. Million - 1 => v = t
  /\ t \in 0 .. Billion - 1 => v \in t - (t \div 100000) .. t + (t \div 100000)
  /\ t \in 1 - Billion .. 0 => -v \in -t - (-t \div 100000) .. -t + (-t \div 100000)

\* A line the backend writes on its own says what the model holds, a count
\* exactly, a measure to the digits ':g' keeps.
LineIsTrue(l, p) ==
  CASE l.says \in {"total", "endpoints"} -> Established(p) /\ l.value = Truth(p, l.says)
    [] l.says = "aggregate" ->
         Established(p) /\ Known(p) = Meant(p) /\ Known(p) # {} /\ ReadsAs(l.value, Truth(p, l.says))
    [] l.says = "none_found" -> Established(p) /\ Asked(p) = {}
    [] l.says = "not_established" ->
         ~Established(p) \/ (p.op \in {"aggregate", "extremum"} /\ (p.output # "measured" \/ Known(p) = {}))
    [] OTHER -> p.op \in {"aggregate", "extremum", "description", "comparison"}

\* answer_validation.py: whatever the language model wrote, a number that is
\* delivered as a claim about a part is the number the model's objects give, no
\* absent value is added up to zero, and what replaces a rejected answer is
\* true as well.  Of a claim that states no number the text has at least the
\* digits, which is not to say that it states them (ClaimTextStatesTheValue).
\* A claim about a relationship counts only where the answer lists that part,
\* states a number and is in a script that normalising keeps: the packet has an
\* endpoint count of 0 even for a part that could not be established, and only
\* the check of these answers rejects it.
DeliveredIsTrue ==
  said # None =>
    IF said.by = "backend"
    THEN \A i \in DOMAIN plan : Plain(plan[i]) => LineIsTrue(said.lines[i], plan[i])
    ELSE LET c == said.draft.claim
         IN c # None =>
              \A i \in DOMAIN plan :
                (plan[i].id = c.part /\ Plain(plan[i])
                 /\ (c.kind = "endpoints" => c.part \in said.draft.listed /\ c.value # None /\ said.draft.legible)) =>
                  /\ Established(plan[i])
                  /\ c.kind = "aggregate" => Known(plan[i]) # {}
                  /\ c.value # None => c.value = Truth(plan[i], c.kind)
                  /\ c.value = None => \E v \in said.draft.spelled : ReadsAs(v, Truth(plan[i], c.kind))
                  /\ c.kind = "aggregate" /\ None \notin {c.unit, plan[i].unit} => c.unit = plan[i].unit

\* answer_validation.py:168 says that a claim without a number passes "when the
\* answer prose actually states the authoritative number": its text states what
\* the packet's fact says.
ClaimTextStatesTheValue ==
  (said # None /\ said.by = "model" /\ said.draft.claim # None /\ said.draft.claim.value = None) =>
    \E f \in Facts(results) : /\ f.part = said.draft.claim.part /\ f.kind = said.draft.claim.kind
                              /\ Written(f.value) \in said.draft.numbers

\* answer_validation.py:275 says that the fallback restates each result with
\* "the same statuses and numbers the model was given": the packet's.
ClaimFallbackKeepsNumbers ==
  (said # None /\ said.by = "backend") =>
    \A i \in DOMAIN results : \A f \in FactsOf(results[i]) :
      said.lines[i].says = f.kind => said.lines[i].value = f.value

\* presentation.py, viewer.py: the card describes the part that is highlighted
\* and no other; its rows and groups select nothing the viewer does not
\* highlight, and its totals are those of the whole result, however many of
\* the objects were sent.
CardShowsHighlight ==
  card # None =>
    LET p == PlanOf(card.part)
        whole == Asked(p)
    IN Plain(p) =>
       /\ lit.ids # {} /\ lit.ids \subseteq whole
       /\ card.total = Cardinality(whole) /\ card.exact = card.total
       /\ card.truncated = (lit.ids # whole) /\ card.shown = Cardinality(lit.ids)
       /\ card.rows \subseteq lit.ids
       /\ \A g \in card.groups :
            /\ g.ids # {} /\ g.ids \subseteq lit.ids
            /\ g.count = Cardinality({o \in whole : ClassOf[o] = g.key})
            /\ g.truncated = (g.count # Cardinality(g.ids))
       /\ \A g, h \in card.groups : g # h => g.ids \cap h.ids = {}

\* topology.py: a diagram shows every object the answer claims, each stored
\* connection the traversal came across once, whichever way and however often
\* it was found, and a node selects only what is highlighted.
DiagramIsComplete ==
  (card # None /\ card.kind = "relationship_graph") =>
    LET p == PlanOf(card.part)
        shown == Starts(p) \cup Connected(p)
        met == {l \in LinkRows : /\ l[1].role \in Relating /\ l[1].of \in shown /\ l[2].of \in shown
                                 /\ {l[1].of, l[2].of} \cap Near(Starts(p), p.depth - 1) # {}}
        nodes == card.graph.nodes
    IN Plain(p) =>
       /\ Connected(p) \subseteq UNION {n.ids : n \in nodes} \/ \E n \in nodes : n.truncated
       /\ \A n \in nodes : ~n.seed => n.ids \subseteq Connected(p)
       /\ MapThenSumSet(LAMBDA e : e.count, card.graph.edges) =
            Cardinality({<<l[1].rel, l[1].of, l[2].of>> : l \in met})
       /\ \A n \in nodes : n.selectable => n.ids \subseteq lit.ids
       /\ Cardinality(nodes) \in MinNodes .. MaxNodes /\ Cardinality(card.graph.edges) <= MaxEdges
=============================================================================

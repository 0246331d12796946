-------------------------- MODULE QuestionLedger --------------------------
(***************************************************************************)
(* binding/spans.py and ledger.py: what a question asks for.  A question   *)
(* is a sequence of phrases; a phrase is one word or one match of a span   *)
(* pattern ("wider than", "200 mm", "the second floor", a quoted value):   *)
(*   spans  the span kinds whose pattern matches it,                       *)
(*   stems  the singular forms of its words that can name something,       *)
(*   word   it has a run of letters, which the word pattern finds,         *)
(*   content  that run is longer than a letter and is no structural word,  *)
(*   marker   it is one of _OUTPUT_MARKERS.                                *)
(***************************************************************************)
EXTENDS Integers, Sequences, FiniteSets, Ordering

CONSTANT MaxSpans        \* detect_spans.max_spans
ASSUME MaxSpansPositive == MaxSpans \in Nat \ {0}

\* The order of ModifierKind's values, by which spans of one place are sorted.
SpanKinds == <<"comparison", "floor_reference", "negation", "numeric_bound",
               "previous_result_reference", "quoted_value", "scope_reference",
               "selection_reference", "unit">>
Material == {"quoted_value", "comparison", "numeric_bound", "floor_reference", "negation",
             "previous_result_reference", "selection_reference"}
ScopeSpans == {"scope_reference", "previous_result_reference", "selection_reference", "floor_reference"}

\* detect_spans: a scope noun within a floor reference is no scope reference.
Kinds(phrase) ==
  IF "floor_reference" \in phrase.spans THEN phrase.spans \ {"scope_reference"} ELSE phrase.spans
KindPlace(kind) == CHOOSE n \in DOMAIN SpanKinds : SpanKinds[n] = kind
AllSpans(question) ==
  Ordered(UNION {{[at |-> i, kind |-> k] : k \in Kinds(question[i])} : i \in DOMAIN question},
          LAMBDA s, t : s.at < t.at \/ (s.at = t.at /\ KindPlace(s.kind) < KindPlace(t.kind)))
Spans(question) == Take(AllSpans(question), MaxSpans)

Covered(question) == {Spans(question)[n].at : n \in DOMAIN Spans(question)}

\* A unit and a scope reference are recorded but not required.
SpanItem(question, span) ==
  [text |-> question[span.at].stems, at |-> {span.at}, source |-> "question_span",
   role |-> IF span.kind \in ScopeSpans THEN "scope" ELSE "condition",
   required |-> span.kind \notin {"scope_reference", "unit"},
   negated |-> span.kind = "negation", kind |-> span.kind]

\* _content_runs: maximal runs of content words; a phrase without letters, a
\* bare number, does not end a run.
Words(question) == Ordered({i \in DOMAIN question : question[i].word}, <)
IsContent(question, i) == question[i].content /\ i \notin Covered(question)
\* Seeded bug: the run still open at the end of the question is not flushed.
RunsUnflushed(question) ==
  LET w == Words(question)
  IN {r \in (DOMAIN w) \X (DOMAIN w) :
        /\ r[1] <= r[2] /\ r[2] < Len(w) /\ \A j \in r[1] .. r[2] : IsContent(question, w[j])
        /\ r[1] = 1 \/ ~IsContent(question, w[r[1] - 1])
        /\ ~IsContent(question, w[r[2] + 1])}

Runs(question) ==
  LET w == Words(question)
  IN {r \in (DOMAIN w) \X (DOMAIN w) :
        /\ r[1] <= r[2] /\ \A j \in r[1] .. r[2] : IsContent(question, w[j])
        /\ r[1] = 1 \/ ~IsContent(question, w[r[1] - 1])
        /\ r[2] = Len(w) \/ ~IsContent(question, w[r[2] + 1])}

\* _items_from_content: the phrase of a run, and, if it has several words, each
\* distinct one.  A place is the run and the word, 0 for the phrase.
NewWord(question, run, k) ==
  \A j \in run[1] .. k - 1 : question[Words(question)[j]].stems # question[Words(question)[k]].stems
Places(question, run) ==
  {<<run, 0>>} \cup
  {<<run, k>> : k \in {j \in run[1] .. run[2] : run[1] # run[2] /\ NewWord(question, run, j)}}
ContentItem(question, place) ==
  LET w == Words(question)
      run == place[1]
      places == {w[j] : j \in run[1] .. run[2]}
      within == {i \in DOMAIN question : w[run[1]] <= i /\ i <= w[run[2]]}
      output == \E i \in places : question[i].marker
      item(at, text, role) == [text |-> text, at |-> at, source |-> "question_span", role |-> role,
                               required |-> TRUE, negated |-> FALSE, kind |-> "none"]
  IN IF place[2] = 0
     THEN item(within, UNION {question[i].stems : i \in within}, IF output THEN "output" ELSE "subject")
     ELSE item(places, question[w[place[2]]].stems, "condition")
ContentItems(question) ==
  LET order == Ordered(UNION {Places(question, run) : run \in Runs(question)},
                       LAMBDA p, q : p[1][1] < q[1][1] \/ (p[1][1] = q[1][1] /\ p[2] < q[2]))
  IN [i \in DOMAIN order |-> ContentItem(question, order[i])]

\* The previous result and the selection are offered, not required.
Provided(source, given) ==
  IF given THEN <<[text |-> {}, at |-> {}, source |-> source, role |-> "scope",
                   required |-> FALSE, negated |-> FALSE, kind |-> "none"]>>
  ELSE <<>>

\* build_ledger: item n of the sequence is the one called Ln.
BuildLedger(question, previous, selected) ==
  [i \in DOMAIN Spans(question) |-> SpanItem(question, Spans(question)[i])]
  \o ContentItems(question)
  \o Provided("inherited_scope", previous) \o Provided("selection", selected)
Required(ledger) == {i \in DOMAIN ledger : ledger[i].required}
=============================================================================

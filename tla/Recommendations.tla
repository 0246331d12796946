-------------------------- MODULE Recommendations --------------------------
(***************************************************************************)
(* binding/recommend.py: everything the binder may choose, and the short   *)
(* advisory list it is shown first.  A concept of the manifest is a record *)
(*   [id, kind, name, values, searchable, addressable, class, count]:      *)
(* name is the set of words of its identifier, values the word sets of its *)
(* stored values in order, id its rank in label order.  Scores are in      *)
(* sixtieths, so that the fractions of _score are integers.                *)
(***************************************************************************)
EXTENDS QuestionLedger, SchemaRoles, LogicalFloors

CONSTANTS PerSpan,      \* DEFAULT_PER_SPAN
          Total,        \* DEFAULT_TOTAL
          Supplements,  \* what the embedding service returns at most, 3
          Similarity    \* its score of a concept for an item's text, below 60
ASSUME RecommendationBounds == PerSpan \in Nat \ {0} /\ Total \in Nat \ {0} /\ Supplements \in Nat

FieldKinds == {"property", "quantity", "attribute"}

\* _load_universe: no cap and no filter; materials and classifications are
\* concepts that no filter can address.
AllSubjects(manifest) ==
  LET present == {c.class : c \in {d \in manifest : d.kind = "class"}}
  IN {Subject(c, present) : c \in present}
AllFields(manifest) == {c \in manifest : c.kind \in FieldKinds /\ c.addressable}
AllValues(manifest) ==
  UNION {{<<c.id, i>> : i \in DOMAIN c.values} : c \in {d \in manifest : d.kind \in FieldKinds /\ ~d.searchable}}
AllScopes(asked) ==
  {<<"active_model", None>>} \cup (IF asked.selected THEN {<<"selection", None>>} ELSE {})
  \cup (IF asked.previous THEN {<<"previous_result", None>>} ELSE {})
  \cup (IF asked.floorWords THEN {<<"floor_band", f>> : f \in OfferedFloors(Storeys(asked.storeys))} ELSE {})

\* _score: the whole name, part of it, or one of its stored values.
Score(concept, text) ==
  LET named == Cardinality(text \cap concept.name)
      size  == Cardinality(concept.name)
  IN IF size = 0 THEN 0
     ELSE IF named = size THEN 600 + 60 * size
     ELSE IF named > 0 THEN 180 + (60 * named) \div size
     ELSE IF \E i \in DOMAIN concept.values : concept.values[i] # {} /\ concept.values[i] \subseteq text
          THEN 360 ELSE 0

\* Recommendations are sorted by score, then by label.
Better(a, b) == a.score > b.score \/ (a.score = b.score /\ a.id < b.id)
Ranked(S) == Ordered(S, Better)
Best(S, n) == {m \in S : Cardinality({x \in S : Better(x, m)}) < n}

\* _matches_for: lexical matches, supplemented when there are fewer than three.
Lexical(manifest, text) == {[id |-> c.id, score |-> Score(c, text)] : c \in {d \in manifest : Score(d, text) > 0}}
Similar(manifest, text) ==
  LET pool == {[id |-> c.id, score |-> Similarity[c.id]] : c \in {d \in manifest : Score(d, text) = 0 /\ d.name # {}}}
  IN {s \in pool : s.score > 0 /\ Cardinality({t \in pool : t.score > s.score}) < Supplements}
MatchesFor(manifest, text, service) ==
  IF text = {} THEN {}
  ELSE Lexical(manifest, text) \cup
         (IF service /\ Cardinality(Lexical(manifest, text)) < 3 THEN Similar(manifest, text) ELSE {})

\* Seeded bug: the bound per item counts concepts that are already listed.
KeptOfFirst(matches, seen) == {m \in Best(matches, PerSpan) : m.id \notin seen}

\* The best of one item's matches that no earlier item has listed.
Kept(matches, seen) == Best({m \in matches : m.id \notin seen}, PerSpan)

\* _rank: what the item adds to the list; only required items are ranked.
Added(manifest, item, n, list, service) ==
  IF ~item.required THEN {}
  ELSE {[id |-> m.id, score |-> m.score, for |-> n] :
          m \in Kept(MatchesFor(manifest, item.text, service), {r.id : r \in list})}

\* Each item in turn, then one list by score, cut at Total.
Recommend(manifest, ledger, service) ==
  LET listed[n \in 0 .. Len(ledger)] ==
        IF n = 0 THEN {} ELSE listed[n - 1] \cup Added(manifest, ledger[n], n, listed[n - 1], service)
  IN Take(Ranked(listed[Len(ledger)]), Total)
=============================================================================

-------------------------- MODULE QuestionAnalysis --------------------------
(***************************************************************************)
(* What the backend works out of a question before and after the language  *)
(* model binds it: the ledger of what was asked, the universe of what may  *)
(* be chosen, the advisory list, and the classes the chosen subjects mean. *)
(* The choice itself is the language model's: any subjects at all.         *)
(***************************************************************************)
EXTENDS Recommendations

CONSTANTS Requests   \* [phrases, floorWords, previous, selected, storeys, manifest]
ASSUME StoreysAreRows ==
  /\ None \notin Int
  /\ \A r \in Requests : IsFiniteSet(r.storeys) /\ \A s \in r.storeys : s.elevation \in Int \cup {None}
\* Phrases are matched by the patterns there are; a content word is a word.
ASSUME PhrasesAreMatched ==
  \A r \in Requests :
    /\ Len(r.phrases) \in Nat /\ DOMAIN r.phrases = 1 .. Len(r.phrases)
    /\ \A i \in DOMAIN r.phrases :
         /\ r.phrases[i].spans \subseteq {SpanKinds[n] : n \in DOMAIN SpanKinds}
         /\ r.phrases[i].content => r.phrases[i].word
\* A concept has one place in label order, and finitely many words.
ASSUME ConceptsAreNamed ==
  \A r \in Requests :
    /\ IsFiniteSet(r.manifest)
    /\ \A c \in r.manifest : c.id \in Nat /\ IsFiniteSet(c.name) /\ Similarity[c.id] \in Int
    /\ \A c, d \in r.manifest : c.id = d.id => c = d

VARIABLES asked,            \* the request
          ledger,           \* ConstraintLedger.items
          universe,         \* the universe: subjects, fields, values, scopes
          recommendations,  \* the advisory list
          choice,           \* the subjects bound: [primary, unions]
          closure,          \* SubjectClosure of that choice
          stage
vars == <<asked, ledger, universe, recommendations, choice, closure, stage>>

NoConcepts == [subjects |-> {}, fields |-> {}, values |-> {}, scopes |-> {}]
Init ==
  /\ asked \in Requests
  /\ ledger = <<>> /\ universe = NoConcepts /\ recommendations = <<>>
  /\ choice = None /\ closure = Unresolved /\ stage = "asked"

\* build_ledger.
Analyse ==
  /\ stage = "asked"
  /\ ledger' = BuildLedger(asked.phrases, asked.previous, asked.selected)
  /\ stage' = "analysed"
  /\ UNCHANGED <<asked, universe, recommendations, choice, closure>>

\* build_recommendations; the embedding service may be missing or fail.
Suggest ==
  /\ stage = "analysed"
  /\ universe' = [subjects |-> AllSubjects(asked.manifest), fields |-> AllFields(asked.manifest),
                  values |-> AllValues(asked.manifest), scopes |-> AllScopes(asked)]
  /\ \E service \in BOOLEAN : recommendations' = Recommend(asked.manifest, ledger, service)
  /\ stage' = "suggested"
  /\ UNCHANGED <<asked, ledger, choice, closure>>

\* The gate resolves the subjects of the plan; an id may be made up.
Bind ==
  /\ stage = "suggested"
  /\ \E primary \in DOMAIN Ontology \cup {c.class : c \in asked.manifest},
        unions \in SUBSET (DOMAIN Ontology) :
       /\ Cardinality(unions) <= 1
       /\ choice' = [primary |-> primary, unions |-> unions]
       /\ closure' = ResolveClosure(universe.subjects, primary, unions)
  /\ stage' = "bound"
  /\ UNCHANGED <<asked, ledger, universe, recommendations>>

Next == Analyse \/ Suggest \/ Bind
Spec == Init /\ [][Next]_vars

-----------------------------------------------------------------------------
Asks(i) == asked.phrases[i]
Present == {c.class : c \in {d \in asked.manifest : d.kind = "class"}}
Neighbour(i, j) == /\ Asks(i).content /\ Asks(j).content /\ i # j
                   /\ \A k \in (i .. j) \cup (j .. i) : k \notin Covered(asked.phrases) /\
                        (Asks(k).word => Asks(k).content)

\* ledger.py: no qualifier is lost.  Unless the bound on spans is exceeded,
\* every phrase that restricts and every content word is in a required item,
\* and a word beside another one also has an item to itself.
NoQualifierLost ==
  (stage # "asked" /\ Len(AllSpans(asked.phrases)) <= MaxSpans) =>
    \A i \in DOMAIN asked.phrases :
      LET own == {j \in Required(ledger) : i \in ledger[j].at}
          covered == i \in Covered(asked.phrases)
      IN /\ (Kinds(Asks(i)) \cap Material # {} \/ (Asks(i).content /\ ~covered)) =>
              \E j \in own : Asks(i).stems \subseteq ledger[j].text
         /\ (\E j \in DOMAIN asked.phrases : Neighbour(i, j)) =>
              \E j \in Required(ledger) : ledger[j].text = Asks(i).stems /\ ledger[j].role = "condition"

\* recommend.py: ranking per item keeps one noun from consuming a compound
\* question.  A concept that a required item matches is on the list, unless
\* that item has its whole share of it or the list is full.
EveryItemHasItsShare ==
  stage \in {"suggested", "bound"} =>
    \A i \in Required(ledger), c \in asked.manifest :
      Score(c, ledger[i].text) > 0 =>
        \/ \E j \in DOMAIN recommendations : recommendations[j].id = c.id
        \/ Len(recommendations) = Total
        \/ Cardinality({j \in DOMAIN recommendations : recommendations[j].for = i}) = PerSpan

\* closure.py: the classes counted are exactly the present ones that are, or
\* descend from, a chosen subject and are the same kind of thing as it; one
\* total never mixes kinds, whatever the language model chose.
ClosureIsOneFamily ==
  (stage = "bound" /\ closure.resolved) =>
    LET chosen == choice.unions \cup {choice.primary}
        means(c) == \E s \in chosen : c = s \/ (c \in DOMAIN Ontology /\ s \in Ontology[c] /\ SchemaRole(c) = SchemaRole(s))
    IN /\ closure.classes = {c \in Present : means(c)}
       /\ \A c \in closure.classes : SchemaRole(c) = closure.role
       /\ closure.role \in ResultKinds

\* Heights with none between them, and the steps at which a new floor begins.
Steps(H) == {p \in H \X H : p[1] < p[2] /\ \A h \in H : h <= p[1] \/ p[2] <= h}
Wide(H, p) == \A q \in Steps(H) : 10 * (p[2] - p[1]) > 3 * (q[2] - q[1])

\* spatial.py, routes/models.py, recommend.py: the viewer has one button for two
\* storeys exactly when no step between them exceeds 0.3 of the widest step of the
\* model; floors ascend, one of them is the reference; and the scopes offered
\* for a question about floors are the floors of the buttons, with their storeys.
FloorsMeanOneBand ==
  \A storeys \in {Storeys(asked.storeys)} :
  \A floors \in {FloorContract(storeys)}, H \in {{s.elevation : s \in storeys}} :
    /\ \A s, t \in storeys : s.elevation <= t.elevation =>
         ((\E i \in DOMAIN floors : {s, t} \subseteq floors[i].storeys) <=>
            \A p \in Steps(H) : Wide(H, p) => p[1] < s.elevation \/ t.elevation < p[2])
    /\ \A i \in DOMAIN floors : i + 1 \in DOMAIN floors => floors[i].max < floors[i + 1].min
    /\ storeys # {} => \E i \in DOMAIN floors : \A j \in DOMAIN floors : floors[j].isReference <=> j = i
    /\ (stage \in {"suggested", "bound"} /\ asked.floorWords) =>
         {<<f[2].index, f[2].storeys>> : f \in {g \in universe.scopes : g[1] = "floor_band"}}
           = {<<floors[i].index, floors[i].storeys>> : i \in DOMAIN floors}

\* routes/models.py:180-184 "the buttons and the query language can never disagree
\* about what 'the second floor' is": the scopes offered to the language model are
\* numbered from the lowest band, the buttons from the reference band.
ClaimOneFloorNumbering ==
  \A f \in {g \in universe.scopes : g[1] = "floor_band"} :
    \E i \in DOMAIN FloorContract(Storeys(asked.storeys)) :
      LET button == FloorContract(Storeys(asked.storeys))[i]
      IN button.index = f[2].index /\ button.label = f[2].label

\* recommend.py:363 "Exact matches always outrank supplements": a concept keeps
\* the score of the first item that lists it, even if a later one names it outright.
ClaimExactOutranks ==
  \A i, j \in DOMAIN recommendations, k \in Required(ledger) :
    LET c == CHOOSE d \in asked.manifest : d.id = recommendations[j].id
    IN i < j /\ Score(c, ledger[k].text) >= 600 => recommendations[i].score >= 600

\* recommend.py:170-171 "A present class the ontology cannot describe still
\* queries as itself": its role is unknown, and an unknown role is no result.
ClaimUndescribedQueriesAsItself ==
  (stage = "bound" /\ choice.unions = {} /\ choice.primary \in Present \ DOMAIN Ontology) => closure.resolved
=============================================================================

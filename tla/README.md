# BIMtrieval: a TLA+ verification project

BIMtrieval answers questions about building models.  IFC files are ingested into PostgreSQL; a FastAPI backend
turns a question into validated plans over that database, with a language model that is never trusted; a browser
application shows the answer, an explanation card and the objects in a 3D viewer.  This directory models the whole
path, from the file to what the user sees.  TLC checks the models on small instances, and TLAPS proves every safety
property that a run checks for every value of the constants.

`PROJECT.json` maps every definition to the source lines it stands for, and lists every run, a seeded bug that
breaks each property of a passing run, the hazards of the code, the findings and the theorems.

To check a run: `tlc -config <cfg> <module>`.  To check the proofs: `tlapm M.tla` for `SessionStore_proofs`,
`AppController_proofs`, `QueryPipeline_proofs`, `Ingestion_proofs`, `ViewerScene_proofs`, `SemanticManifest_proofs`,
`Questions_proofs` and `Answers_proofs`.

## 1. The system

| Component (source) | State it keeps | Operations | Hard behaviour |
| --- | --- | --- | --- |
| Sessions: `query/session.py`, handlers of `query/service.py` | dictionary of shared, mutable `SessionState` objects; the scope a follow-up inherits | question, reset, model confirmation, each in a worker thread | requests of a session interleave; the lock covers one dictionary operation at a time |
| Question analysis: `binding/spans.py`, `ledger.py`, `recommend.py`, `closure.py`, `semantic/roles.py`, `spatial.py` | none | spans, ledger items, advisory list, candidates, subject closure, logical floors | overlapping patterns, budgets shared by many items, ties, classes inside classes |
| Fields and values: `semantic/vocabulary`, `field_concepts.py`, `binding/values.py`, `compile.py`, `sql/*`, `viewer/details.py` | two process caches | build the index and the conditions, run them; panel requests | caps, caches filled during an import, one value read in several ways |
| Binding gate: `validate.py`, `ledger_validation.py` | none | verdict on a plan | what the plan leaves out |
| Question pipeline: `binding/pipeline.py`, `viewer.py`, `previous_scope.py` | the outcome of one question, the scope of the next | bind, gate, correct once, execute, answer, select the highlight, capture the scope | untrusted plans, one of several steps failing, follow-ups of follow-ups |
| Part execution: `execute.py`, `graph_exec.py`, `traversal.py`, `evidence.py` | none (reads the database) | predicate, counts, aggregates, ranking, traversal | conditions that do not compile, scopes nested with alternatives, capped lists |
| Answers: `packet.py`, `answer_validation.py`, `presentation.py`, `topology.py` | none | packet, validation, fallback, highlight, card, diagram | several results, one text; lists cut at different caps |
| Units and manifest: `measures.py`, `measurement.py`, `semantic_manifest/*`, `semantic/manifest/loader.py` | JSON artifact per model, process cache | register units, measure, build, validate, publish, load | project defaults and overrides, mixed units, coverage, a cache keyed by a hash |
| Ingestion and vector phase: `stage1_import.py`, `stage2_embed.py`, `db.py`, `reporting.py` | tables, committed batch by batch | parse, store, describe, embed, resume | stops between commits, partial failures, another extraction version |
| Browser controller: `state/controller.ts`, `store.ts` | zustand store, tokens of the flows in progress | load, ask, cancel, clear, reset, pick, open the panel, highlight a group, select a floor | every `await` is a point where any other operation may run |
| Viewer: `ViewerAdapter.ts`, `EdgeOverlay.ts`, `ProjectedSizePolicy.ts`, `floorPlan.ts` | colours, hidden objects, edge overlay, open plan and its cut | paint, hide small objects, rebuild edges, open and leave a plan, cut it | operations of many steps that overlap |
| Artifact cache: `artifactCache.ts` | IndexedDB records, two at most | get, put, evict | separate transactions |
| RAG and embedding service; language model client | vectors, a lazily loaded model | search, generate | unavailability |
| Chat and card components, catalogue, evaluation harness, demonstration site, containers | none of their own, read only or offline | - | - |

How they interact.  Ingestion writes the database and the manifest the backend reads; nothing locks the two against
each other.  The browser sends `POST /api/query` with a session id, the active model and the selected objects.
`QueryService` fetches the session object; `run_pipeline` analyses the question, lets the language model bind it,
gates and compiles the plan, executes it, has an answer written and checked, and picks what is highlighted; the
service writes the next scope back into the object it fetched.  The controller accepts or drops the response by
comparing a token, then updates the chat, the card, the panel and the viewer over several awaits.

## 2. The modules

An arrow reads "is extended by".

    SessionStore <- SessionStore_proofs
    AppState <- ModelFlow, QueryFlow, SelectionFlow <- AppController
    AppController <- MCApp, AppController_proofs
    ViewerScene <- MCViewer, ViewerScene_proofs
    PartExecution, BindingGate <- QueryPipeline <- MCQueryPipeline, QueryPipeline_proofs
    ImportContract (instantiated by) Ingestion <- MCIngestion, Ingestion_proofs
    UnitRegistry <- ManifestBuilder <- SemanticManifest <- MCManifest, SemanticManifest_proofs
    Ordering <- LogicalFloors; QuestionLedger, SchemaRoles, LogicalFloors <- Recommendations
                                               <- QuestionAnalysis <- MCQuestions, Questions_proofs
    StoredFields <- FieldVocabulary, ValueMatching, ObjectDetails <- FieldQueries <- MCFields, Questions_proofs
    RelationshipGraph <- AnswerResults <- Answers <- MCAnswers, Answers_proofs

**SessionStore.**  `store` is `SessionStore._sessions`; `heap` holds the `previous_scope` of every `SessionState`
object, named after the request that allocated it, because `get_or_create` hands every thread of a session the same
object.  One action per stretch of a handler between two accesses to shared state: `GetOrCreate`, `HandleReset`,
`HandleConfirmation`, `BindQuestion` (reads the scope, filters by model), `WriteScope` (assigns to the shared
object), `Save` (stores it again).  What the pipeline computes is a choice between no scope and a scope.

**AppState, ModelFlow, QueryFlow, SelectionFlow, AppController.**  JavaScript runs one callback at a time, so every
stretch between two awaits is one action and an asynchronous function is a *task* whose `at` names the await it is
suspended at.  The counters the code compares (`queryToken`, `loadToken`, ...) become the task that holds the
current value (`token`): each increment hands it to at most one flow, and a comparison asks whether the flow still
holds it.  Aborting a fetch always comes with an increment, so a cancelled fetch and a stale token are one case.
A highlighted set is named by its origin (the answer to a question, a subgroup, the group of an object) and its
model; it resolves only in the model the viewer has loaded.  `ModelFlow` holds confirm-and-load, retry, floors and
Reset App, `QueryFlow` questions, cancellation, the card and Clear Chat, `SelectionFlow` picks, chips (with the
debounce timer) and the component panel.  `AppController` interleaves them.

**ViewerScene.**  What `AppState` takes as one step, here await by await, for the model that
is loaded.  `face` is the colour of every object, `hidden` what the size policy believes it hid and `visible` what the
calls on the Fragments model made visible, `overlay` the edge overlay with the roles it was drawn for, `section` the
mounted cut of a plan and `planToken` the counter that makes older cuts stale.  Operations in progress are tasks, as
above: the actions from `PaintAll` to `Painted` are `renderHighlights`, `Evaluate` and `Sizing` are
`applyProjectedSizePolicy`, `Refresh` and the three layers are `buildPlanSection`, `Enter`, `Restored`, `Fitted` and
`Exit` are the plan mode.  `RepaintFails` is a call of `renderHighlights` that rejects: the failure is swallowed with the
steps that were to follow, and `unpainted` remembers it until a repaint is completed.  `Placed` to `RangeOf` are the arithmetic of `floorPlan.ts` on integers (tenths of a metre;
the halves of a lower boundary are counted twice).

**PartExecution, BindingGate, QueryPipeline.**  The database is a set of entity ids with a class; a compiled filter
is the set of objects it keeps, so SQL's `AND`, `OR` and exclusion are set operations, and the nesting of scope,
condition groups and alternatives - where counts go wrong - is kept exactly.  A bound condition carries the objects
that record its field, those its comparison holds for and those that store one of its values to the letter (what
`IN` and `NOT_IN` compare); whether it resolves and whether its operator, value and unit fit are Booleans.  `BindingGate` is `validate_binding`, `validate_ledger_coverage` and `_gate`.
`QueryPipeline` runs question after question of a conversation: each binding call may return *any* plan of `Plans`,
any call may fail, the embedding service may be missing, the answer may be rejected.

**ImportContract, Ingestion.**  `row`, `doc` and `file` are the tables, the search documents and the manifest;
`phase`, `left` and `okay` where the import is, what is left of the phase's batches and whether anything failed.  Each
transaction is an action; `Stop` may happen between any two and a new import, of the same or of another extraction
version, starts over what is there.  `ImportContract` is what that promises without phases or batches: stored items
stay, the index and the manifest are copies of what was stored, and "clean" is said only of the whole image.

**UnitRegistry, ManifestBuilder, SemanticManifest.**  A file declares units (SI, conversion, context, money) and
objects with properties, quantities and attributes that may override the project's unit.  `Register` and `ExtractObject`
are `measures.py`; the extractor's `registry` grows with every object, while `stored`, what the manifest is built from,
is the copy `ifc_to_db` takes before the first of them; `ManifestBuilder` is each section of the artifact (schema coverage, field states, measurement scales,
relationships, materials, storeys); `SemanticManifest` builds, validates and publishes it, and requests of the backend
read it through the loader's cache.

**LogicalFloors, QuestionLedger, SchemaRoles, Recommendations, QuestionAnalysis.**  A question is a sequence of
phrases; a phrase says which of the code's patterns match it, so that the regular expressions are input and what is
made of their matches - overlap resolution, spans, items and their kinds, numbering - is computed.  Concepts are sets
of words; scores are integers in sixtieths.  `SchemaRoles` is the class lineage, the role markers and the subject
closure; `LogicalFloors` groups storeys into bands, and has both what is made of them: the contract of the viewer's
buttons (`FloorContract`) and the scopes a question about floors may be bound to (`OfferedFloors`).  The choice of
subjects between the two is any choice.

**StoredFields, FieldVocabulary, ValueMatching, ObjectDetails, FieldQueries.**  An object is its class and a map from
fields to stored values; a value is described by what the code reads in it (folded text, stem, number, Boolean).
`StoredFields` is what a reference selects, counts, aggregates and groups; `FieldVocabulary` which fields the index knows,
with all its caps, and which of their values are read; `ValueMatching` how the words of a condition become one comparison
or a reason why not; `ObjectDetails` the panel.  In `FieldQueries` the objects of a model arrive in batches while one
request fills the caches, is bound to any field that the manifest offers and SQL can address, is compiled and executed.

**RelationshipGraph, AnswerResults, Answers.**  `RelationshipGraph` is the hops retained between the objects of an answer
and the diagram or the reason for none; `AnswerResults` what execution records of each part, the facts of the packet,
the draft a language model may write (with the numbers its text states and those whose digits it merely
contains), its validation and the fallback, whose numbers have six significant digits; `Answers` the highlighted part and the card,
and the steps in the order of `run_pipeline`.

The last part of `AppController` and the definitions named *Claim...* state what the repository says beyond the
properties and the code does not do (section 6).  *MC* modules give TLC its instances.

## 3. Bounds

| Instance | Bound | Why it is enough |
| --- | --- | --- |
| SessionStore | 3 requests, 2 sessions, 2 models | a stale scope takes a writer, a reset and a reader; a third party of another session or model shows that they do not mix |
| AppChat | 3 tasks, 2 models, 4 user operations | a question, what supersedes it and a question after that, with one operation to spare |
| AppSelection | 2 tasks, 2 models of 2 objects, 5 operations | a late response and the flow that made it late; additive picks and deselection need two objects |
| AppSettles | 2 tasks, 3 operations, from an empty or a loaded application | liveness: a flow, its rival and a cause of failure; no symmetry, which is unsound for it |
| Viewer | 2 overlapping operations, 3 in all, any repaint failing, 4 objects (wall, roof slab, two small ones), 3 floors in two buildings | an operation, its rival and one more; each kind of object; a plan with a floor above, below or unresolved |
| QueryPipeline | 5 objects of 2 classes, 168 plans, 3 questions, highlight cap 2, seed cap 2 | three questions are a follow-up of a follow-up; caps are below the class sizes, so that they bite; every kind of operation, scope and condition, negated fragments and inequalities among them, and every verdict of the gate occurs |
| Ingestion | 1 object, 2 relationships (one connects it, one connects nothing rooted), 2 versions, 3 imports, batches of one | every transaction boundary is a place to stop; a run, a run of another version over it and a repair |
| Manifest | 730 files of at most 3 objects, with or without an older artifact in place, 2 readers, 2 schema versions | defaults, overrides and mixtures of units take two values of a field; a reader that caches and one that finds the cache |
| Questions | all questions of up to 3 phrases of 8 kinds and 5 longer ones; all sets of 8 storey heights | overlaps take two phrases, the caps bite at four spans and six concepts |
| Fields | 6 objects of 4 classes in up to 3 batches, 10 fields of which the manifest offers 8 by class, 18 values | a field of two types, of two classes and of one only; a value that is text, number and Boolean at once; letters that only `lower()` keeps; caps of two |
| Answers | 7 objects, 172 plans, 140 drafts, caps of 2 to 4, numbers in thousandths (`One`) of up to nine digits | results above and below each cap; one and two parts; a chain long enough for a diagram (`MinNodes` is 3 here and 4 in the code) |

The bounds of the models themselves are `Tasks` (operations in progress at once), `MaxOps` (user operations of a
behaviour), `MaxQuestions` and `MaxImports`; the theorems hold for any.  Deadlock is checked where the system goes
on for ever or the final state loops explicitly; `Ingestion`, `Manifest`, `Viewer`, `Questions`, `Fields` and `Answers`
say `CHECK_DEADLOCK FALSE`, because one file, one request or a bounded number of operations comes to its end there.

## 4. The runs

| Run | Checks | Shows |
| --- | --- | --- |
| `sessions` | FollowUpOwnModel, FollowUpOwnSession, QuietResetIsFinal | follow-ups stay within their model and their session whatever requests interleave; a reset with no question in flight is final |
| `app_chat` | PendingOwned, AnswersFollowQuestions, RetryOfShownFailure | the composer is blocked exactly while its own question is in flight; nothing that returns after Clear Chat or Reset App shows as an answer; Retry belongs to the failure that is shown |
| `app_selection` | DetailsMatchPanel, PanelFollowsSelection | the panel is about the object picked last, in the model active now |
| `app_settles` | FloorsOfActiveModel, QuestionsSettle, LoadsSettle, DetailsSettle | floors are those of the active model, and questions, loads and details all come to an end |
| `viewer` | HighlightedVisible, SectionShowsRoles, ThreeDRestored, EdgesFollow, PlanShowsItsFloor | however operations overlap, at rest the answer and the selection are visible and edges and cut follow the roles, unless the last repaint failed; a plan shows its own floor and leaving it restores 3D |
| `pipeline` | ExactCountsRequested, HighlightIsOneAnswer, FollowUpIsComplete, RunsAreAccounted | exact counts are of what the part asks; the highlight is one counted part; a chain of follow-ups loses nothing; what runs is accounted for |
| `ingestion` | CleanMeansWhole, MembersAreStored, ManifestDescribesModel, ImplementsContract, ImportsEnd | a clean report is of the whole file under one version, whatever was stopped or failed before; the phases implement the contract; an import that is not stopped ends |
| `manifest` | UnitsAreFaithful, ServedMeansOneScale, NothingSilentlyMissing | what the stored registry says of a value's unit is that unit or nothing; a field is served as measured only when the values that have a measure share a scale; what is stored and not described is listed as not described |
| `questions` | NoQualifierLost, EveryItemHasItsShare, ClosureIsOneFamily, FloorsMeanOneBand | no number or qualifier of a question is dropped, an item is starved of advice only when the list is full, a closure has one kind of thing counted once, the floors offered for a question are those of the buttons |
| `fields` | ConditionHonoursTheValue, RefusalIsTrue, AccountedFor, GroupHoldsItsMember | an equality that runs selects what the user's value means; a value refused as not recorded is not recorded; counts and missing values add up; the group of an object contains it |
| `answers` | DeliveredIsTrue, CardShowsHighlight, DiagramIsComplete | whatever is written, a number delivered as a claim is that of the results; the card shows what is highlighted; a diagram leaves out no connection the traversal met, which are all but those between two objects of the last depth |
| `claim_nodrop` | NoConditionDropped (violated) | a condition declared unavailable is dropped and the count called exact |

`ExactCountsRequested` is stated against `Requested`, which reads a part condition by condition and object by object,
while the code nests filters; `ReadInFull` names the conditions it does not hold for: a negated one that is not an
equality on text, and an exclusion, or a list of values, of which the field holds other spellings (section 6).  The properties of the pure
algorithms are stated the same way, against a reading of the request that does not go through the code's steps.

**Fairness.**  `app_settles` assumes weak fairness of every task and of the debounce timer: every request is
answered or fails, every viewer call returns, and the event loop runs what is due.  The browser's event loop and
the promises of `fetch` justify it except for a request that never returns (`client.ts` sets no time limit).
`ingestion` assumes that a process that is not stopped proceeds, and that imports are stopped finitely often (the
bound `MaxImports`).  Nothing is assumed of the user.  All other properties are safety properties.

## 5. The proofs

Proofs hold for every value of the constants that satisfies the modules' assumptions.

**SessionStore_proofs**: `TypeCorrect`, `FollowUpsKeepTheirModel`, `FollowUpsKeepTheirSession`, `QuietResetsAreFinal`.
None of the last three is inductive: they speak of the scope a question was given, which was read from an object that
other threads share.  `IInv` adds *Ownership* (objects in the store, held by a handler or filled with a scope belong to
one session), *Allocation* (an object that is stored, held or filled has been handed out, so a fresh one is empty) and
*Recency* (what can still be reached in a session is newer than every quiet reset of it).  The last is the heart of
`QuietResetsAreFinal`: a reset with nobody answering leaves no handler that could bring an older scope back.

**AppController_proofs**: `ComposerIsOwned`, `AnswersHaveQuestions`, `RetriesAreOfFailures`, `DetailsAreOfPanel`,
`PanelFollowsPicks`, `FloorsAreOfModel`, of `Spec`, which starts with the empty application.  The argument is the
same for each: only the flow that holds a token may change what the token guards.  `Conversation` says what the holder of
the query token knows of the chat, `PanelInv` what the holder of the details token knows of the panel, `Loads` which
flow may still call a model ready; lemmas about `Await`, `Begin`, `End` and `Retire` show that a step of one flow leaves
the holders of other tokens alone, so each action has to be looked at for one token only.

**QueryPipeline_proofs**: `TypeCorrect`, `CountsAreRequested`, `FollowUpsAreComplete`, `WhatRunsIsAccounted`.  `IInv`
says that results are those of one execution (*Ran*) of a plan the gate let through (*Admitted*) on the inputs of its own
request (*Inputs*, *Given*), and that calls match the stage (*Phase*); the theorems then follow from lemmas about the
operators: `CompiledConditions` and `CompiledScope` (nesting filters means what the part says), `StructuredCounts`,
`QualitativeCounts` and `PartReports` (a result counts its predicate's matches), `NextScopeOfResult`.
`HighlightsAreOneAnswer` rests on *Lit*: what is lit are the first objects of one visible result, whose number a lemma
about capped sets gives.  Assumptions: `PlansAreAboutObjects`, `NoScopeIsNoSet`, `BoundsAreNumbers` and those that a
model is finite, its classes known and its links within it.

**Ingestion_proofs**: `TypeCorrect`, `CleanImport`, `StoredMembers`, `DescribedModel` and `ImportRefines`.  `IInv` follows
the phases: *RowsDone*, *ManifestDone* and *DocsDone* say which part of the work is done when nothing has failed, and a
failure makes each vacuous.  `ImportRefines` maps rows, documents, manifest and report to the contract: a step
of a phase is one of its actions or a stutter.  Assumption: `IngestionAssumption` (objects and relationships differ, a
relationship connects objects of the file).

**ViewerScene_proofs**: `HighlightsAreVisible`, `SectionIsCurrent`, `ThreeDIsRestored`, `EdgesAreCurrent`.  The properties
speak of the viewer at rest and are not inductive; the invariants (*Hides*, *Edges*, *Cuts*) say that while something
does not follow the roles an operation is in progress that will see to it: an object may be hidden against its role
only while a repaint is under way, an overlay may lag behind only while an operation will recolour it, and a cut may be
out of date only while the plan is about to be cut again.  *Cuts* adds that only the operation that holds `planToken` can
mount.  A repaint that failed is an exception to each (`unpainted`), which the next complete repaint ends.
`PlanIsItsFloor` adds the arithmetic of a range: bands that ascend have a cut above their own floor and below the next
resolved one.  Assumptions: `SceneConstants`, `RangeConstants` and `FloorsAscend` (the backend's contract lists the
floors of a building from the lowest up; `LogicalFloors` is where that order is made, and `FloorsAreBands` its proof).

**SemanticManifest_proofs**: `UnitsStayTrue`, `OneScaleIsServed`, `NothingIsLeftOut`, for files of any length.  `IInv`
follows the import: *Imported* (the extractor's registry gives a key one definition for good and has all that was stored
of it, its defaults are those of the file, and each row says of its values' units what the file does), *InPlace* (a finished import has its own manifest in
place, and an artifact of the version the backend reads was built from this file), *InCache* and *InHand* (a cached
copy, and one a request holds, are on one scale as well).  That units stay true rests on `RegisterKeeps`: a
registration adds keys and changes none, so that a key of a row means in the stored registry, if it is there at all, what
it meant when the row was extracted.  Assumptions: `FilesAreRead` (a field's path
has its container's shape; a measured value's own unit is no currency), `KeysAreKeys`, `PreviousIsOlder` and
`MeasuresInOrder`.

**Questions_proofs**, of `QuestionAnalysis`: `FloorsAreBands`, `ClosuresAreOneFamily`, `NothingAskedIsLost`,
`EveryItemIsServed`.  The invariants are short (*Resolution*, *LedgerBuilt*, *Recommended*: what is held is what was
computed of the request that is asked), and the work is in the operators.  `Ranks` shows that the places `Ordering`
gives are all the numbers up to the size of the set, so a listing has every member once; from it follow the order of
floors and of the ledger. `BasesAreWideSteps` says where the bands begin, `OneFloorOneBand` that two storeys are in one
band when no wide step lies between them, `LedgerHolds` that spans
and places of content words each have their item, `ListStands` that the advisory list, built item by item, has a
concept once and fits its bound. Assumptions: `StoreysAreRows`, `PhrasesAreMatched`, `ConceptsAreNamed`,
`OntologyIsClosed` and the positive bounds.

**Questions_proofs**, of `FieldQueries`: `ConditionsAreHonoured`, `RefusalsAreTrue`, `EverythingIsAccountedFor`,
`GroupsHoldTheirMembers`, for any fields, values, batches and caps.  None is inductive: a condition is compiled from the
values stored then and counted later.  `FieldInv` says that every store has one row of an id (`Batches`), that a
condition is the one compiled from its bound form and the values of `known`, or none where the index lacks its field
(*Compiled*), and that an answer is computed over what the store holds now (*Executed*, *Asked*).  TLC found it to hold on
the instance of `fields` before it was proved.  The work is again in the operators.

- *Conditions.*  `ResolvedIsFound`: the ladder returns a stored value that some rung reads like the user's, and that
  value itself when it is stored; `ValuesRead`: what is read is every stored value but the blank one while they are at
  most `MaxDistinct`.  `SelectedReadsAlike` and `StoredIsCompared` combine them with the comparison of the statement.
- *Refusals.*  `UnresolvedIsUnlike`: where the ladder finds nothing, no value that was read matches on any rung;
  `RefusedIsUnlike` takes it from the values read to those stored.
- *Counts.*  `SumOverIsTheWhole`: numbers that count what falls under each key add up to the whole; classes
  (`ClassesAddUp`), missing states (`StatesAddUp`) and buckets (`GroupsAddUp`) are three uses of it.
- *Groups.*  `GroupsAreWhole`, one scope after the other; `FamilyIsShown` for the first family property.

Assumptions: `RowsAreStored` (a transaction holds an id once; a class is no logical floor; a type's GlobalId is shown
whole, as 22 characters without blanks are), `ValuesAreRead` (values that `lower()` makes equal are equal for the
ladder; a blank value reads as nothing), `FieldsAreTabled` (finitely many fields), `ConceptsAreOfFields` and
`VocabularyBounds`.

Two attempts that failed were findings about the model.  A value in letters other than a-z is stripped by the ladder
(`lexical.py:44`) and not by the statement's `lower()`, so that what an equality counts may differ from every rung's
reading of the user's value by case alone: `Denotes` says so now, and `fields` has two such values.  And the group of
a type by its GlobalId is the same from each member even where another text of the object is cut, so the property no
longer excepts those objects.

**Answers_proofs**: `DeliveredNumbersAreTrue`, `CardDescribesHighlight`, `DiagramShowsAll`, for any plan, objects,
relationships and drafts.  `IInv` says that results are those of the plan's parts (*Executed*), that what is said was
validated against them or is the backend's own line (*SaidOfResults*), and that the card is made of the part that is
highlighted (*ShownOfResults*).  `ResultIsTold` then shows, operation by operation, that a result states the numbers
the model's objects give; for a relationship it rests on `WalkIsNear`, which equates the traversal's frontier with what
is reachable in as many hops.  `SumIsTheWhole` shows that edges which partition the stored connections add up to them.  `SixDigitsAreNear`
and `WrittenReadsAs` bound what `:g` may change: nothing of a number of up to six digits, at most one part in a hundred
thousand of one of up to nine, counted in parts of 1/`One`; larger ones are left open.
`DeliveredIsTrue` counts a claim about endpoints only where the answer lists that part, states a number and is in a
script that normalising keeps: the packet has a count of 0 for a relationship that could not be established, and it
is the check of listed statuses that rejects the claim (`answer_validation.py`), which text that normalises to nothing
escapes (section 6).  Of a claim without a number it says only that the text has the digits, as the code does.  Assumptions: `ObjectsAreIds`, `RowsAreOfObjects`, `RowsAreStored`, `NoneIsNoReason`,
`OneIsPositive`, `BoundsAreNumbers`, `PartsAreValid` (what `validate_binding` lets through) and `BoundsAreCounts`: numbers, and no more
rows in a card than objects in a highlight.  The constant mirrors the setting (`presentation.py:69`) and a test holds them
to be equal (`tests/binding/test_presentation.py:198`); an installation that lowers the setting is outside it (section 6).

**Induction.**  The prover cannot instantiate the library's induction theorems, which take an operator.  Where a
definition recurs over numbers or folds over a set, the proofs use the least counterexample instead: `UpTo` says that a
set of numbers that holds 0 and with each number the next is the whole interval.  It shows first that
a recursive function exists (`WalkExists`, `ListExists`, `AfterExists`: `CHOOSE` then gives one that satisfies its equation)
and then what it computes.

**Only model-checked.**  Liveness (`QuestionsSettle`, `LoadsSettle`, `DetailsSettle`, `ImportsEnd`), as fairness and
`ENABLED` are out of the prover's reach; what `claim_nodrop` shows the code to violate; and the statements of section 6.
Every other property of a run is proved.

## 6. What the code does not do

One run refutes a sentence of the repository, quoted in `PROJECT.json`: `claim_nodrop`.  A required condition declared
unavailable is dropped and the count is called exact (`pipeline.py:18`, `ledger_validation.py:168`).

Eight more sentences are stated as invariants in the modules.  They have no run of their own; TLC finds each violated when
its name replaces the properties of the configuration given here.

| Invariant | Configuration | The repository says | The code does |
| --- | --- | --- | --- |
| `OverridesAreDefined` | `Manifest.cfg` | unit definitions are stored once per model (`measures.py:20`) | the registry is copied before the first object is extracted (`pipeline_structured.py:123`); units that properties and quantities bring (`measures.py:628`, `:638`) are not in the copy that is stored.  Their values have a key without a definition, and their fields become `unknown` |
| `UntypedMeansUnknown` | `Manifest.cfg` | a value without a type has no measure and no unit (`measures.py:15`, `measurement.py:29`) | an untyped value of an object keeps the measure its type object gives the field (`measures.py:554`) |
| `CacheFollowsManifest` | `Manifest.cfg`, `Schemas = {2, 3}` | a changed builder invalidates the cache (`loader.py:56`) | the key holds what the reading process knows, nothing of the artifact in place (`loader.py:74`) |
| `ClaimOneFloorNumbering` | `Questions.cfg` | buttons and language can never disagree (`routes/models.py:182`) | floors are offered to the language model from the lowest (`recommend.py:310`), the buttons count from the reference floor.  `resolve_floor_concept` (`spatial.py:292`) counts as the buttons do, and only tests call it |
| `ClaimUnpopulatedMeansEmpty` | `Fields.cfg` | a field never populated is unavailable (`compile.py:538`) | a field without a concept in the capped index is not read, and is said to hold no values (`:498`, `:545`) |
| `ClaimMixedUnitsAreNotCompared` | `Fields.cfg` | a field in mixed or unknown units is never compared (`units.py:16`) | candidates are built without the unit state the manifest has (`recommend.py:230`) |
| `ClaimTextStatesTheValue` | `Answers.cfg` | a text states the number (`answer_validation.py:168`) | its digits may occur anywhere, also inside another number (`:172`) |
| `ClaimFallbackKeepsNumbers` | `Answers.cfg` | the fallback has the same numbers (`answer_validation.py:275`) | an aggregate is written with `:g`, six significant digits (`:297`) |

While modelling, other statements of the repository or expectations of a reader were found not to hold.  They are
definitions of the models or notes, without a run of their own.

- **Sessions.**  `ResetInvalidatesScope`: a question answered while its session is reset writes its scope back
  (`previous_scope.py:15`, `service.py:412`).
- **Browser** (end of `AppController`).  `LateModelIgnored`: an answer about the previous model is accepted after a switch.
  `ReadyShowsActive`: two overlapping loads can leave the viewer with the superseded model.  `CurrentQuestionOwnSession`: a
  question asked while Clear Chat is in progress.  `CardMatchesHighlight`: of concurrent highlights the last to resolve
  wins.  Further: `SupersededKeepsCard`, `ConversationIsCurrent`, `ClearRetiresGroup`, `ScopeShown`, `ClosedPanelNoGroup`,
  `FloorModeShown`, `ReadyHasModel`, `ResetClosesPanel`, `SelectionAgrees`.
- **Viewer.**  `FacesFollowRoles`: two repaints that overlap can leave faces with colours their roles do not ask for
  (`ViewerAdapter.ts:1998`, `:2112`).  A plan that cannot be opened has closed the one that was open, and leaving
  afterwards returns early with the grid hidden and the size policy suspended (`:1425`).  `planView` may be gone after the
  awaits of `enterPlanMode` (`:1411`).  A hiding call that fails drops the showing that was to follow (`:1839`).  A floor
  above an unresolved one takes the model's minimum as its lower boundary (`floorPlan.ts:136`).
- **Question pipeline.**  A selection or previous result named as a spatial candidate does not restrict.  A
  relationship part ignores a condition that did not compile; after its answer "those" are the traversal's subjects.
  `negated` is ignored by every condition but one on text.  A negated fragment ("not containing 30") is compiled to
  `NOT_IN` of the fragment and excludes only values equal to it; a negated "not equal" excludes its value all the same; a
  negated equality excludes the resolved spelling only, and a list of values, fragments too, is an `IN` of whole values
  (`compile.py:508-532`).  `ReadInFull` excepts them.  A traversal starts from at most `MAX_SEEDS` objects
  while its result stays exact, and without a subject from the first fifty objects of the model (`graph_exec.py:196`).
- **Ingestion.**  A property-set failure inside `get_psets` is stored as a value without a warning, and what
  `ifc_parser.py:102-157` swallows is below the model's grain, so a clean report does not speak of it.  A relationship that
  raises after its members were deleted keeps the new row and the members inserted so far.  `ReadyMeansAll`: the report
  calls a model fully ready as soon as it has any document (`reporting.py:200`).  One importer at a time is assumed;
  nothing enforces it.
- **Units and manifest.**  A unit without a definition (money) falls back to the project's default.  "Absent is an exact
  zero" does not hold of attributes that only have noise.
- **Questions.**  `ClaimExactOutranks` (`recommend.py:363`); `ClaimUndescribedQueriesAsItself` (`closure.py:131`).  Digits
  glued to letters and spans beyond `MaxSpans` are not in the ledger; "not equal" and "equal" overlap by the case of the
  text.
- **Fields.**  `ClaimNegationExcludes` (`compile.py:324`, `tests/binding/test_compile.py:319`), `ClaimQuotedIsExact`
  (`compile.py:58`, `test_compile.py:318`), `ClaimGroupHoldsItsMember`.  Values in letters other than a-z are resolved
  only as they are written (`lexical.py:44`), while the statement still folds their case.  Missing-value states take
  `[]` and `{}` for empty while SQL does not; the strict number pattern accepts "1,5", the database does not; caches
  filled during an import stay.  Missing-value states, the unfiltered list and a field named without its set are reached
  only through the older dispatcher (`sql/dispatch.py`), which the question pipeline does not call.
- **Answers.**  The packet counts the endpoints of a relationship that could not be established as 0.  Numbers written
  without a claim are not checked (`packet.py:21`); a unit on a fact without one is accepted; the completeness check never
  fires for part results; text in another script normalises to nothing and skips the status check.  Endpoint rows have a cap of their own, above the highlight's if the setting is lowered.  The
  cuts of a distribution (50, 24 and 20) are not flagged.  `path_count` counts every hop.  The comparison branch and
  one fallback are dead or speak of a result that is not there.

## 7. What is not modelled

The regular expressions, word lists, ontology texts and embeddings are inputs of the question and field models: which
phrase matches which pattern, which words a concept has, how similar a concept is.  The language model is external:
any plan, any draft, or a failure.  Ranking scores of the RAG search and its embedding service, meshes, materials, the
camera and the preview scene are left out.  In the viewer, the profile that is detected after the first build, a
failure of `classifyGeometry` and the visualization parameters besides the edge angle are left out.  Statements of one
request are assumed to read one state of the database, although count, examples and identities are separate.

Rendering components keep no state the properties speak of.  The catalogue and asset routes read only; the
evaluation harness, the demonstration site and the containers are no part of the running system.  `build_slate`
(`binding/slate.py`) is off the request path since `build_recommendations` replaced it (`recommend.py:3`): a development
route, a measurement and tests call it, and it is not modelled.  The artifact cache,
migrations and two importers at once are not modelled.  Hazards seen and left without a property: a fetch that never
returns (`client.ts:170`), the selection the adapter drops without telling the store (`ViewerAdapter.ts:1112`), two
floor changes in progress (`controller.ts:245`), a question asked while Clear Chat is in progress (`controller.ts:627`),
colliding property and quantity ids (`builder.py:722`), concurrent migrations (`db_admin/migrations.py:103`).

## 8. Plan

1. `ArtifactCache`: hits that write their record back, evictions and insertions as separate transactions.  Safety:
   the limit is met again when the loads are over; a record found is the one of its hash.  Composed with `ModelFlow`.
2. `EmbeddingService`: the load-once lock and its failure.  `Migrations`: two initialisers over one ledger.
3. `Ingestion` with two importers of one file, below the same contract.
4. The refinement of the one viewer step of `AppState` by the tasks of `ViewerScene`.

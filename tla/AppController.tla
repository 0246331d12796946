--------------------------- MODULE AppController ---------------------------
(***************************************************************************)
(* The whole browser application: user operations start flows, the flows   *)
(* of the three components take their steps in any order, and the debounce *)
(* timer fires.  The properties are those of spec_v006 section 10,         *)
(* spec_v009 section 7, spec_v010 section 11 and spec_v011 section 7.      *)
(***************************************************************************)
EXTENDS ModelFlow, QueryFlow, SelectionFlow

Init ==
    /\ session = 0
    /\ messages = {} /\ pending = FALSE /\ retryQuestion = 0
    /\ card = NoCard
    /\ activeModel = NoModel /\ loadPhase = "idle"
    /\ floors = NoFloors
    /\ manualGuids = <<>> /\ resolvedChips = {} /\ resolveTimer = {}
    /\ panel = NoPanel
    /\ viewer = [model |-> NoModel, roles |-> NoRoles, manual |-> <<>>,
                 plan |-> NoBand, bands |-> NoModel]
    /\ task = [t \in Tasks |-> Idle]
    /\ token = [k \in Kinds |-> NoTask]
    /\ asked = 0
    /\ opsLeft = MaxOps

UserStep == StartModelFlow \/ StartQueryFlow \/ StartSelectionFlow

TaskStep(t) == ModelStep(t) \/ QueryStep(t) \/ SelectionStep(t)

TimerStep == \E t \in IdleTasks : TimerFires(t)

\* Nothing is in progress.
Settled == IdleTasks = Tasks /\ resolveTimer = {}

Next ==
    \/ UserStep
    \/ \E t \in Tasks : TaskStep(t)
    \/ TimerStep
    \/ Settled /\ UNCHANGED vars

Spec == Init /\ [][Next]_vars

(***************************************************************************)
(* Every request is answered or fails and every viewer call returns, so a  *)
(* flow that waits goes on; nothing is assumed of the user.                *)
(***************************************************************************)
Fairness == (\A t \in Tasks : WF_vars(TaskStep(t))) /\ WF_vars(TimerStep)

FairSpec == Spec /\ Fairness

-----------------------------------------------------------------------------
\* The composer is blocked exactly while the current question is in flight:
\* whatever is cancelled, cleared, superseded or failing in between, no flow
\* leaves it blocked and none releases it for another's question.
PendingOwned == pending <=> token["query"] # NoTask

\* An answer or an error only appears under its question: nothing that comes
\* back after Clear Chat or Reset App is shown in the new conversation, apart
\* from the notice of a highlight (ConversationIsCurrent).
AnswersFollowQuestions ==
    \A msg \in messages :
        msg.from \in {"answer", "error"} => Message("user", msg.q) \in messages

\* Retry is offered for the last question that failed and is still shown.
RetryOfShownFailure ==
    retryQuestion # 0 => ~pending /\ Message("error", retryQuestion) \in messages

\* The panel shows the details of its own subject, an object of the active
\* model, however quickly objects are picked and models switched.
DetailsMatchPanel ==
    panel.details.state = "loaded" =>
        /\ panel.details.of = panel.guid
        /\ activeModel # NoModel => panel.guid.model = activeModel

\* With a model active, the panel's subject is the object picked last.
PanelFollowsSelection ==
    activeModel # NoModel /\ PanelOpen =>
        manualGuids # <<>> /\ panel.guid = Last(manualGuids)

\* With a model active, the floor control never shows another model's floors.
FloorsOfActiveModel ==
    activeModel # NoModel => floors.model \in {NoModel, activeModel}

\* Every question is settled: the composer is not left blocked.
QuestionsSettle == pending ~> ~pending

\* Every load comes to an end: ready, failed, or reset.
LoadsSettle == loadPhase \in Busy ~> loadPhase \notin Busy

\* The panel does not wait for its details forever, unless the model is gone.
DetailsSettle ==
    panel.details.state = "loading" ~>
        panel.details.state # "loading" \/ activeModel = NoModel

(***************************************************************************)
(* What the repository's specifications and comments claim beyond that,    *)
(* stated as they state it.  The code does not meet these.                 *)
(***************************************************************************)
\* t's flow goes on in this step.
Continues(t) == task'[t] # task[t]

\* "Ignore late responses whose request, session, or active model is no longer
\* current" (spec_v009_chat_panel.md): an answer about another model.
LateModelIgnored ==
    [][\A t \in Tasks : At(t, "asked") /\ task[t].model # activeModel /\ Continues(t) =>
            UNCHANGED <<messages, card>> /\ viewer'.roles = viewer.roles]_vars

\* Clear Chat must "establish a fresh backend/frontend conversation identity"
\* (spec_v006_frontend_application.md): the question being answered was sent
\* under the session id the application has now.
CurrentQuestionOwnSession ==
    \A t \in Tasks : At(t, "asked") /\ Current(t, "query") => task[t].session = session

\* "Stale, canceled, or superseded responses can neither reopen nor overwrite
\* it" (spec_v010_explanation_panel.md).
SupersededKeepsCard ==
    [][\A t \in Tasks : At(t, "rendering") /\ ~Current(t, "query") /\ Continues(t) =>
            UNCHANGED card]_vars

\* "A stale response may never render a message" (spec_v009_chat_panel.md): every
\* message belongs to a question of the conversation.
ConversationIsCurrent ==
    \A msg \in messages : Message("user", msg.q) \in messages

\* "The highlight and the explanation are applied in one step [...], so they
\* cannot diverge" (spec_v010_explanation_panel.md).
CardMatchesHighlight ==
    Settled /\ card # NoCard => viewer.roles = Described(card)

\* The group token is retired in clearChat "so a late group response cannot
\* re-highlight after the clear" (controller.ts).
ClearRetiresGroup ==
    [][\A t \in Tasks : At(t, "clearing_chat") /\ Continues(t) =>
            /\ viewer'.roles.kind # "group"
            /\ \A u \in Tasks : ~At(u, "group_resolving")']_vars

\* componentScope says "which group action is currently applied" (store.ts).
ScopeShown ==
    Settled /\ panel.scope => viewer.roles = GroupRoles(panel.guid)

\* "Closing the panel clears its own group highlight"
\* (spec_v011_component_panel.md).
ClosedPanelNoGroup ==
    Settled /\ ~PanelOpen => viewer.roles.kind # "group"

\* floorBandIndex is "the active logical band while in plan mode" (store.ts): the
\* band the viewer shows.
FloorModeShown == Settled => floors.band = viewer.plan

\* "Monotonic tokens so late/stale async results are ignored after the model or
\* session changes" (controller.ts): a model that is ready is the one shown.
ReadyShowsActive ==
    Settled /\ loadPhase = "ready" /\ activeModel # NoModel => viewer.model = activeModel

\* Reset App must "return to the initial model-selection state"
\* (spec_v006_frontend_application.md): without a model nothing is ready.
ReadyHasModel == loadPhase = "ready" => activeModel # NoModel

\* "Reset App and model switch close and dispose the panel and its preview
\* entirely" (spec_v011_component_panel.md).
ResetClosesPanel == Settled /\ activeModel = NoModel => ~PanelOpen

\* Switching models "clears current results and selection" (App.tsx): the store
\* and the viewer agree on what is selected.
SelectionAgrees == Settled => manualGuids = viewer.manual
=============================================================================

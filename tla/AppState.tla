------------------------------ MODULE AppState ------------------------------
(***************************************************************************)
(* State of the browser application: the zustand store (store.ts), the     *)
(* imperative ViewerAdapter the controller drives, and the asynchronous    *)
(* flows of AppController (controller.ts).                                 *)
(*                                                                         *)
(* JavaScript runs one callback at a time, so every stretch of a flow      *)
(* between two awaits is one step; while a flow awaits, any other flow or  *)
(* user operation may run.  A flow in progress is a task; its `at' names   *)
(* the await it is suspended at.                                           *)
(***************************************************************************)
EXTENDS Integers, FiniteSets, SequencesExt

CONSTANTS
    Tasks,          \* bound: flows in progress at once
    NoTask,
    Models,         \* prepared models the catalog offers
    NoModel,
    Items,          \* objects of every model; one pick selects one
    NoItem,
    Bands,          \* logical floors of every model
    NoBand,
    MaxSelection,   \* the viewer's selection cap
    UserOps,        \* the operations the user of this instance performs
    MaxOps          \* bound: user operations of a behaviour

ASSUME AppConstants ==
    /\ NoTask \notin Tasks /\ NoModel \notin Models
    /\ NoItem \notin Items /\ NoBand \notin Bands
    /\ MaxSelection \in Nat \ {0} /\ MaxOps \in Nat

VARIABLES
    session,        \* sessionId, as the number of regenerations
    messages,       \* chat messages: who speaks, and about which question
    pending,        \* a question is being answered
    retryQuestion,  \* the question the Retry button would ask again
    card,           \* the explanation card
    activeModel,    \* the selected model
    loadPhase,
    floors,         \* the floor control: contract, mode and band
    manualGuids,    \* selected objects, as the store knows them
    resolvedChips,  \* those whose name has been resolved
    resolveTimer,   \* what the debounced resolution will ask for
    panel,          \* the component detail panel
    viewer,         \* ViewerAdapter: model, roles, manual picks, plan, bands
    task,           \* the flows in progress
    token,          \* per kind of flow, who holds the current token
    asked,          \* number of questions submitted so far
    opsLeft         \* user operations this behaviour may still perform

chat == <<messages, pending, retryQuestion>>
model == <<activeModel, loadPhase>>
selection == <<manualGuids, resolvedChips, resolveTimer>>
store == <<session, chat, card, model, floors, selection, panel>>
flows == <<task, token>>
vars == <<store, viewer, flows, asked, opsLeft>>

Guid == [model : Models, item : Items]

(***************************************************************************)
(* Highlighted sets are named by where they come from: the primary objects *)
(* of the answer to question q, a subgroup of it, or the group of an       *)
(* object.  The artifact of a model holds every object of that model and   *)
(* none of another, so a set resolves in its own model only.               *)
(***************************************************************************)
NoRoles == [kind |-> "none", model |-> NoModel, q |-> 0, item |-> NoItem]
AnswerRoles(q, m) == [kind |-> "answer", model |-> m, q |-> q, item |-> NoItem]
SubgroupRoles(q, m) == [kind |-> "subgroup", model |-> m, q |-> q, item |-> NoItem]
GroupRoles(guid) == [kind |-> "group", model |-> guid.model, q |-> 0, item |-> guid.item]

Questions == 1..MaxOps

RoleSet ==
    {NoRoles} \cup {AnswerRoles(q, m) : q \in Questions, m \in Models}
    \cup {SubgroupRoles(q, m) : q \in Questions, m \in Models}
    \cup {GroupRoles(g) : g \in Guid}

\* What getLocalIdsByGuids of the model `within' finds of a set.
Resolve(roles, within) == IF roles.model = within THEN roles ELSE NoRoles

NoCard == [q |-> 0, model |-> NoModel, shown |-> "none"]

\* The set the card says is highlighted.
Described(c) ==
    CASE c.shown = "answer" -> AnswerRoles(c.q, c.model)
      [] c.shown = "subgroup" -> SubgroupRoles(c.q, c.model)
      [] OTHER -> NoRoles

\* FLOOR_DEFAULTS
NoFloors ==
    [model |-> NoModel, loading |-> FALSE, available |-> FALSE, enabled |-> {}, band |-> NoBand]

NoGuid == [model |-> NoModel, item |-> NoItem]
Details(state, guid) == [state |-> state, of |-> guid]
NoPanel == [guid |-> NoGuid, details |-> Details("none", NoGuid), scope |-> FALSE]

PanelOpen == panel.guid # NoGuid

\* An opened panel, waiting for its details (openComponentPanel).
NewPanel(guid) == [guid |-> guid, details |-> Details("loading", NoGuid), scope |-> FALSE]

-----------------------------------------------------------------------------
(***************************************************************************)
(* Tasks and tokens.  A flow compares the token it captured with the       *)
(* counter to see whether it is still current; since every increment hands *)
(* the current value to at most one flow, the model keeps its holder.      *)
(* Aborting a fetch always comes with an increment, and an aborted fetch   *)
(* and a stale token both end the flow, so aborts are not modelled apart.  *)
(***************************************************************************)
Kinds == {"query", "load", "resolve", "detail", "group", "floor"}

Idle == [at |-> "idle"]
IdleTasks == {t \in Tasks : task[t] = Idle}

At(t, label) == task[t] # Idle /\ task[t].at = label

Current(t, kind) == token[kind] = t

\* The tokens after t has ended: nobody can compare with them any more.
Released(t) == [k \in Kinds |-> IF token[k] = t THEN NoTask ELSE token[k]]

\* The tokens after the counters of the given kinds have been incremented by
\* code that is not one of those flows.
Retire(tokens, kinds) == [k \in Kinds |-> IF k \in kinds THEN NoTask ELSE tokens[k]]

End(t) ==
    /\ task' = [task EXCEPT ![t] = Idle]
    /\ token' = Released(t)

Await(t, state) ==
    /\ task' = [task EXCEPT ![t] = state]
    /\ UNCHANGED token

\* A flow starts in t holding a new token of the given kind.
Begin(t, state, kind) ==
    /\ task' = [task EXCEPT ![t] = state]
    /\ token' = [token EXCEPT ![kind] = t]

\* A user operation, within the instance's bounds.
UserDoes(op) ==
    /\ op \in UserOps
    /\ opsLeft > 0
    /\ opsLeft' = opsLeft - 1
=============================================================================

---------------------------- MODULE SessionStore ----------------------------
(***************************************************************************)
(* The backend's in-memory conversation state: SessionStore (session.py)   *)
(* and the three request handlers of QueryService (service.py) that use    *)
(* it.  FastAPI runs every POST /api/query in a worker thread, so requests *)
(* of one session interleave.  The store's lock covers one dictionary      *)
(* operation at a time, and get_or_create hands every thread of a session  *)
(* the SAME mutable SessionState object.                                   *)
(*                                                                         *)
(* A SessionState is reduced to its previous_scope, the only field a later *)
(* question reads; a scope is reduced to the model it describes and the    *)
(* request whose accepted result it captured.                              *)
(***************************************************************************)
EXTENDS FiniteSets

CONSTANTS
    Requests,   \* requests a run may see; each is handled once
    Sessions,   \* browser session ids
    Models,     \* source_model_id values
    NoModel,    \* active_source_model_id = None
    NoScope,    \* previous_scope = None
    NoObject    \* no SessionState stored / held

ASSUME ConstantsDistinct ==
    /\ NoModel \notin Models
    /\ NoObject \notin Requests \X {"created", "fresh"}
    /\ NoScope \notin [model : Models, from : Requests]

VARIABLES
    store,      \* SessionStore._sessions
    heap,       \* previous_scope of every SessionState object
    call,       \* what each request asks for
    pc,         \* where each handler thread is
    held,       \* the SessionState a handler thread holds
    previous,   \* the previous scope the pipeline of a question was given
    resets,     \* history: the resets and model confirmations handled so far
    quiet,      \* history: those handled while no question was in flight
    born        \* history: the resets of its session a request arrived after

vars == <<store, heap, call, pc, held, previous, resets, quiet, born>>
history == <<resets, quiet, born>>

(***************************************************************************)
(* A SessionState object is named after the request that allocated it:     *)
(* get_or_create allocates at most one, a reset or a confirmation one more.*)
(***************************************************************************)
Object == Requests \X {"created", "fresh"}

Scope == [model : Models, from : Requests]

Call == [kind : {"question", "reset", "confirm"},
         session : Sessions,
         model : Models \cup {NoModel}]

Init ==
    /\ store = [s \in Sessions |-> NoObject]
    /\ heap = [o \in Object |-> NoScope]
    /\ call \in [Requests -> {c \in Call : c.kind = "confirm" => c.model \in Models}]
    /\ pc = [r \in Requests |-> "sent"]
    /\ held = [r \in Requests |-> NoObject]
    /\ previous = [r \in Requests |-> NoScope]
    /\ resets = {}
    /\ quiet = {}
    /\ born = [r \in Requests |-> {}]

InSession(s) == {r \in Requests : call[r].session = s}

\* Handler threads that are answering a question of session s.
Answering(s) ==
    {r \in InSession(s) : call[r].kind = "question" /\ pc[r] \in {"fetched", "bound", "saving"}}

\* Seeded bug: one current state for the whole process.
StateOfAnySession(r) ==
    LET stored == {s \in Sessions : store[s] # NoObject}
    IN  IF stored = {} THEN <<r, "created">> ELSE store[CHOOSE s \in stored : TRUE]

\* get_or_create: the stored object itself, not a copy, or a new one.
StateOf(r) ==
    LET s == call[r].session
    IN  IF store[s] = NoObject THEN <<r, "created">> ELSE store[s]

\* handle_query starts: store.get_or_create(request.session_id).
GetOrCreate(r) ==
    LET s == call[r].session
        state == StateOf(r)
    IN  /\ pc[r] = "sent"
        /\ store' = [store EXCEPT ![s] = state]
        /\ held' = [held EXCEPT ![r] = state]
        /\ born' = [born EXCEPT ![r] = resets \cap InSession(s)]
        /\ pc' = [pc EXCEPT ![r] = "fetched"]
        /\ UNCHANGED <<heap, call, previous, resets, quiet>>

\* History of one reset or confirmation of r's session.
RecordReset(r) ==
    /\ resets' = resets \cup {r}
    /\ quiet' = IF Answering(call[r].session) = {} THEN quiet \cup {r} ELSE quiet

\* Seeded bug: the handler answers but leaves the stored object in place.
StoreNothingFresh(r) == UNCHANGED store

\* The store entry of r's session becomes a SessionState made by r.
StoreFresh(r) == store' = [store EXCEPT ![call[r].session] = <<r, "fresh">>]

\* _handle_reset: store.reset(session_id).
HandleReset(r) ==
    /\ pc[r] = "fetched" /\ call[r].kind = "reset"
    /\ StoreFresh(r)
    /\ RecordReset(r)
    /\ pc' = [pc EXCEPT ![r] = "done"]
    /\ UNCHANGED <<heap, call, held, previous, born>>

\* _handle_confirmation: the model exists, a fresh SessionState is saved.
HandleConfirmation(r) ==
    /\ pc[r] = "fetched" /\ call[r].kind = "confirm"
    /\ StoreFresh(r)
    /\ RecordReset(r)
    /\ pc' = [pc EXCEPT ![r] = "done"]
    /\ UNCHANGED <<heap, call, held, previous, born>>

\* _handle_confirmation: ModelNotFoundError, the session is left alone.
ConfirmUnknownModel(r) ==
    /\ pc[r] = "fetched" /\ call[r].kind = "confirm"
    /\ pc' = [pc EXCEPT ![r] = "done"]
    /\ UNCHANGED <<store, heap, call, held, previous, history>>

\* _handle_question with no active model: a catalog answer, or the rejection of
\* a selection without a model.  Neither touches the session.
AnswerCatalog(r) ==
    /\ pc[r] = "fetched" /\ call[r].kind = "question" /\ call[r].model = NoModel
    /\ pc' = [pc EXCEPT ![r] = "done"]
    /\ UNCHANGED <<store, heap, call, held, previous, history>>

\* Seeded bug: any scope will do once a model is active.
MatchesAnyModel(scope, model) == model # NoModel

\* PreviousScope.matches_model.
MatchesModel(scope, model) == model # NoModel /\ scope.model = model

\* The scope a question may follow up on: state.previous_scope, unless it
\* describes another model.
Inherited(r) ==
    LET scope == heap[held[r]]
    IN  IF scope # NoScope /\ MatchesModel(scope, call[r].model) THEN scope ELSE NoScope

\* _answer_question up to the call of run_pipeline.
BindQuestion(r) ==
    /\ pc[r] = "fetched" /\ call[r].kind = "question" /\ call[r].model # NoModel
    /\ previous' = [previous EXCEPT ![r] = Inherited(r)]
    /\ pc' = [pc EXCEPT ![r] = "bound"]
    /\ UNCHANGED <<store, heap, call, held, history>>

\* A selection conflict, an execution error or an LLM error: an error envelope
\* is returned and _finalize_state is not reached.
FailQuestion(r) ==
    /\ \/ pc[r] = "fetched" /\ call[r].kind = "question" /\ call[r].model # NoModel
       \/ pc[r] = "bound"
    /\ pc' = [pc EXCEPT ![r] = "done"]
    /\ UNCHANGED <<store, heap, call, held, previous, history>>

\* outcome.next_scope: the accepted result's scope, or None for a clarification
\* or a result that describes no set of objects.
NextScope(r) == {NoScope, [model |-> call[r].model, from |-> r]}

\* _finalize_state, its assignments to the shared SessionState object.
WriteScope(r) ==
    /\ pc[r] = "bound"
    /\ \E scope \in NextScope(r) : heap' = [heap EXCEPT ![held[r]] = scope]
    /\ pc' = [pc EXCEPT ![r] = "saving"]
    /\ UNCHANGED <<store, call, held, previous, history>>

\* _finalize_state, store.save(state): the object the thread holds becomes the
\* session's state again, whatever has been stored in between.
Save(r) ==
    /\ pc[r] = "saving"
    /\ store' = [store EXCEPT ![call[r].session] = held[r]]
    /\ pc' = [pc EXCEPT ![r] = "done"]
    /\ UNCHANGED <<heap, call, held, previous, history>>

Handle(r) ==
    \/ GetOrCreate(r)
    \/ HandleReset(r)
    \/ HandleConfirmation(r)
    \/ ConfirmUnknownModel(r)
    \/ AnswerCatalog(r)
    \/ BindQuestion(r)
    \/ FailQuestion(r)
    \/ WriteScope(r)
    \/ Save(r)

\* Every request of the run has been answered.
AllAnswered == (\A r \in Requests : pc[r] = "done") /\ UNCHANGED vars

Next == (\E r \in Requests : Handle(r)) \/ AllAnswered

Spec == Init /\ [][Next]_vars

-----------------------------------------------------------------------------
TypeOK ==
    /\ store \in [Sessions -> Object \cup {NoObject}]
    /\ heap \in [Object -> Scope \cup {NoScope}]
    /\ call \in [Requests -> Call]
    /\ pc \in [Requests -> {"sent", "fetched", "bound", "saving", "done"}]
    /\ held \in [Requests -> Object \cup {NoObject}]
    /\ previous \in [Requests -> Scope \cup {NoScope}]
    /\ resets \subseteq Requests
    /\ quiet \subseteq resets
    /\ born \in [Requests -> SUBSET Requests]

\* A follow-up question never runs over the objects of another model, however
\* threads of the session interleave (the filter in _answer_question and again
\* in resolve_previous_entity_ids).
FollowUpOwnModel ==
    \A r \in Requests : previous[r] # NoScope => previous[r].model = call[r].model

\* A question never inherits the result of another browser session, although
\* SessionState objects are shared between the threads of a session.
FollowUpOwnSession ==
    \A r \in Requests :
        previous[r] # NoScope => call[previous[r].from].session = call[r].session

\* A reset or a model switch handled while no question of the session is being
\* answered is final: no question that arrives afterwards follows up on a
\* result from before it.
QuietResetIsFinal ==
    \A r \in Requests :
        previous[r] # NoScope => born[r] \cap quiet \subseteq born[previous[r].from]

\* "The scope is invalidated whenever it could no longer describe the same
\* objects: a different active model, a session reset, ..." (previous_scope.py):
\* no question follows up on a result from before the latest reset.
ResetInvalidatesScope ==
    \A r \in Requests : previous[r] # NoScope => born[previous[r].from] = born[r]
=============================================================================

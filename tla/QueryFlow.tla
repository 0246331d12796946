----------------------------- MODULE QueryFlow -----------------------------
(***************************************************************************)
(* Questions, the explanation card, group highlights and Clear Chat: the   *)
(* flows of controller.ts that decide what is highlighted.                 *)
(*                                                                         *)
(*   question  asked -> [resolving -> rendering ->] reporting              *)
(*   group     grouping -> [group_resolving -> group_rendering]            *)
(*   card      card_resolving                                              *)
(*   clear     clearing_chat                                               *)
(*                                                                         *)
(* applyQueryRoles suspends twice: while the viewer resolves GlobalIds     *)
(* (within the model it held at the call) and while it repaints.  The      *)
(* roles change between the two, whoever changed them in the meantime.     *)
(***************************************************************************)
EXTENDS AppState

Message(from, q) == [from |-> from, q |-> q]

Paint(t) == viewer' = [viewer EXCEPT !.roles = Resolve(task[t].roles, task[t].within)]

ClearQueryRoles == viewer' = [viewer EXCEPT !.roles = NoRoles]

-----------------------------------------------------------------------------
\* Seeded bug: the previous failure can still be retried.
SubmitQuestionKeepsRetry(t) ==
    /\ UserDoes("ask")
    /\ ~pending
    /\ asked' = asked + 1
    /\ messages' = messages \cup {Message("user", asked + 1)}
    /\ pending' = TRUE
    /\ Begin(t, [at |-> "asked", q |-> asked + 1, model |-> activeModel, session |-> session], "query")
    /\ UNCHANGED <<session, retryQuestion, card, model, floors, selection, panel, viewer>>

\* submitQuestion up to the request.
SubmitQuestion(t) ==
    /\ UserDoes("ask")
    /\ ~pending
    /\ asked' = asked + 1
    /\ messages' = messages \cup {Message("user", asked + 1)}
    /\ pending' = TRUE
    /\ retryQuestion' = 0
    /\ Begin(t, [at |-> "asked", q |-> asked + 1, model |-> activeModel, session |-> session], "query")
    /\ UNCHANGED <<session, card, model, floors, selection, panel, viewer>>

\* The response arrives for a flow that has been superseded or cancelled.
StaleResponse(t) ==
    /\ At(t, "asked") /\ ~Current(t, "query")
    /\ End(t)
    /\ UNCHANGED <<store, viewer, asked, opsLeft>>

\* The catch and finally blocks: an error message, Retry if the error allows
\* it, and the composer is free again.
FailQuestion(t) ==
    /\ messages' = messages \cup {Message("error", task[t].q)}
    /\ retryQuestion' \in {retryQuestion, task[t].q}
    /\ pending' = FALSE
    /\ End(t)
    /\ UNCHANGED <<session, card, model, floors, selection, panel, viewer, asked, opsLeft>>

QuestionRejected(t) == At(t, "asked") /\ Current(t, "query") /\ FailQuestion(t)

\* handleEnvelope of an answer without a highlight, or without a viewer: the
\* card is retired, and with it the highlight it explained.
PlainAnswer(t, clears) ==
    /\ At(t, "asked") /\ Current(t, "query")
    /\ messages' = messages \cup {Message("answer", task[t].q)}
    /\ card' = NoCard
    /\ IF viewer.model # NoModel /\ (clears \/ card # NoCard)
       THEN ClearQueryRoles
       ELSE UNCHANGED viewer
    /\ Await(t, [at |-> "reporting", q |-> task[t].q])
    /\ UNCHANGED <<session, pending, retryQuestion, model, floors, selection, panel, asked, opsLeft>>

\* handleEnvelope of an answer with objects to highlight, up to resolveGuids.
\* Only a question about a model has such an answer.
HighlightAnswer(t, explained, notice) ==
    /\ At(t, "asked") /\ Current(t, "query")
    /\ task[t].model # NoModel /\ viewer.model # NoModel
    /\ messages' = messages \cup {Message("answer", task[t].q)}
    /\ Await(t, [at |-> "resolving", q |-> task[t].q, explained |-> explained, notice |-> notice,
                 roles |-> AnswerRoles(task[t].q, task[t].model), within |-> viewer.model])
    /\ UNCHANGED <<session, pending, retryQuestion, card, model, floors, selection, panel,
                   viewer, asked, opsLeft>>

QuestionPainted(t) ==
    /\ At(t, "resolving")
    /\ Paint(t)
    /\ Await(t, [task[t] EXCEPT !.at = "rendering"])
    /\ UNCHANGED <<store, asked, opsLeft>>

\* The viewer's worker failed to resolve the objects.
QuestionUnresolved(t) ==
    /\ At(t, "resolving")
    /\ IF Current(t, "query")
       THEN FailQuestion(t)
       ELSE End(t) /\ UNCHANGED <<store, viewer, asked, opsLeft>>

\* applyViewerActions after the await: the card is replaced or retired, and a
\* capped or partly missing highlight is disclosed in a notice.
QuestionRendered(t) ==
    /\ At(t, "rendering")
    /\ LET roles == task[t].roles IN
       /\ card' = IF task[t].explained
                  THEN [q |-> task[t].q, model |-> roles.model, shown |-> "answer"]
                  ELSE NoCard
       /\ messages' = IF task[t].notice \/ Resolve(roles, task[t].within) = NoRoles
                      THEN messages \cup {Message("notice", task[t].q)}
                      ELSE messages
    /\ Await(t, [at |-> "reporting", q |-> task[t].q])
    /\ UNCHANGED <<session, pending, retryQuestion, model, floors, selection, panel, viewer,
                   asked, opsLeft>>

\* Seeded bug: pending is only reset by the request's own catch.
QuestionFinishedBlocked(t) ==
    /\ At(t, "reporting")
    /\ End(t)
    /\ UNCHANGED <<store, viewer, asked, opsLeft>>

\* The render timing is reported; finally, pending is reset by the current flow.
QuestionFinished(t) ==
    /\ At(t, "reporting")
    /\ pending' = IF Current(t, "query") THEN FALSE ELSE pending
    /\ End(t)
    /\ UNCHANGED <<session, messages, retryQuestion, card, model, floors, selection, panel,
                   viewer, asked, opsLeft>>

\* Seeded bug: the cancelled question stays current.
CancelQueryKeepsToken ==
    /\ UserDoes("cancel")
    /\ pending
    /\ pending' = FALSE
    /\ UNCHANGED <<session, messages, retryQuestion, card, model, floors, selection, panel,
                   viewer, flows, asked>>

CancelQuery ==
    /\ UserDoes("cancel")
    /\ pending
    /\ pending' = FALSE
    /\ token' = Retire(token, {"query"})
    /\ UNCHANGED <<session, messages, retryQuestion, card, model, floors, selection, panel,
                   viewer, task, asked>>

-----------------------------------------------------------------------------
\* showAllExplanationResults and selectExplanationGroup: the card changes at
\* once, the highlight when the objects are resolved.
ShowOnCard(t, shown) ==
    /\ UserDoes(shown)
    /\ card # NoCard
    /\ shown = "answer" => card.shown = "subgroup"
    /\ card' = [card EXCEPT !.shown = shown]
    /\ IF viewer.model = NoModel
       THEN UNCHANGED flows
       ELSE Await(t, [at |-> "card_resolving", within |-> viewer.model,
                      roles |-> Described([card EXCEPT !.shown = shown])])
    /\ UNCHANGED <<session, chat, model, floors, selection, panel, viewer, asked>>

CardPainted(t) ==
    /\ At(t, "card_resolving")
    /\ Paint(t)
    /\ End(t)
    /\ UNCHANGED <<store, asked, opsLeft>>

CloseExplanation ==
    /\ UserDoes("close_card")
    /\ card # NoCard
    /\ card' = NoCard
    /\ ClearQueryRoles
    /\ UNCHANGED <<session, chat, model, floors, selection, panel, flows, asked>>

-----------------------------------------------------------------------------
\* applyGroupScope up to the request; the buttons need loaded details.
ApplyGroupScope(t) ==
    /\ UserDoes("group")
    /\ activeModel # NoModel
    /\ PanelOpen /\ panel.details.state = "loaded"
    /\ Begin(t, [at |-> "grouping", model |-> activeModel, guid |-> panel.guid], "group")
    /\ UNCHANGED <<store, viewer, asked>>

GroupStillCurrent(t) ==
    /\ Current(t, "group")
    /\ panel.guid = task[t].guid
    /\ activeModel = task[t].model

SetComponentScope(on) == panel' = [panel EXCEPT !.scope = on]

\* The request failed, or this object has no such group.
NoGroup(t) ==
    /\ \/ At(t, "grouping")
       \/ At(t, "group_resolving")
    /\ IF GroupStillCurrent(t) THEN SetComponentScope(FALSE) ELSE UNCHANGED panel
    /\ End(t)
    /\ UNCHANGED <<session, chat, card, model, floors, selection, viewer, asked, opsLeft>>

\* The group arrived: the card is retired and the group's objects are resolved.
GroupFound(t) ==
    /\ At(t, "grouping") /\ GroupStillCurrent(t)
    /\ card' = NoCard
    /\ IF viewer.model = NoModel
       THEN SetComponentScope(TRUE) /\ End(t)
       ELSE /\ Await(t, [at |-> "group_resolving", model |-> task[t].model, guid |-> task[t].guid,
                         roles |-> GroupRoles(task[t].guid), within |-> viewer.model])
            /\ UNCHANGED panel
    /\ UNCHANGED <<session, chat, model, floors, selection, viewer, asked, opsLeft>>

GroupPainted(t) ==
    /\ At(t, "group_resolving")
    /\ Paint(t)
    /\ Await(t, [at |-> "group_rendering"])
    /\ UNCHANGED <<store, asked, opsLeft>>

GroupRendered(t) ==
    /\ At(t, "group_rendering")
    /\ SetComponentScope(TRUE)
    /\ End(t)
    /\ UNCHANGED <<session, chat, card, model, floors, selection, viewer, asked, opsLeft>>

-----------------------------------------------------------------------------
\* Seeded bug: the question in flight is not retired.
ClearChatKeepsQuestion(t) ==
    /\ UserDoes("clear")
    /\ messages' = {}
    /\ pending' = FALSE
    /\ retryQuestion' = 0
    /\ card' = NoCard
    /\ ClearQueryRoles
    /\ task' = [task EXCEPT ![t] = [at |-> "clearing_chat"]]
    /\ UNCHANGED <<session, model, floors, selection, panel, token, asked>>

\* clearChat up to the await of clearQueryRoles.
ClearChat(t) ==
    /\ UserDoes("clear")
    /\ messages' = {}
    /\ pending' = FALSE
    /\ retryQuestion' = 0
    /\ card' = NoCard
    /\ ClearQueryRoles
    /\ task' = [task EXCEPT ![t] = [at |-> "clearing_chat"]]
    /\ token' = Retire(token, {"query"})
    /\ UNCHANGED <<session, model, floors, selection, panel, asked>>

\* The rest of clearChat: group highlights are retired, the session id changes.
ChatCleared(t) ==
    /\ At(t, "clearing_chat")
    /\ SetComponentScope(FALSE)
    /\ session' = session + 1
    /\ task' = [task EXCEPT ![t] = Idle]
    /\ token' = Retire(token, {"group"})
    /\ UNCHANGED <<chat, card, model, floors, selection, viewer, asked, opsLeft>>

StartQueryFlow ==
    \/ CancelQuery
    \/ CloseExplanation
    \/ \E t \in IdleTasks :
        \/ SubmitQuestion(t)
        \/ \E shown \in {"answer", "subgroup"} : ShowOnCard(t, shown)
        \/ ApplyGroupScope(t)
        \/ ClearChat(t)

QueryStep(t) ==
    \/ StaleResponse(t) \/ QuestionRejected(t)
    \/ \E clears \in BOOLEAN : PlainAnswer(t, clears)
    \/ \E explained, notice \in BOOLEAN : HighlightAnswer(t, explained, notice)
    \/ QuestionPainted(t) \/ QuestionUnresolved(t) \/ QuestionRendered(t) \/ QuestionFinished(t)
    \/ CardPainted(t)
    \/ NoGroup(t) \/ GroupFound(t) \/ GroupPainted(t) \/ GroupRendered(t)
    \/ ChatCleared(t)
=============================================================================

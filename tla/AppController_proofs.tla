------------------------ MODULE AppController_proofs ------------------------
(***************************************************************************)
(* The safety properties of the browser application, for any number of     *)
(* flows, models, objects and floors.  What the properties rest on is who  *)
(* holds a token: the flow that may still change the chat, or the load     *)
(* that may still call the model ready.                                    *)
(***************************************************************************)
EXTENDS AppController, TLAPS

Flows == /\ task = [t \in Tasks |-> task[t]]
         /\ token \in [Kinds -> Tasks \cup {NoTask}]

\* The holder of a token and what it waits for are as before.
Leaves(k) == /\ token'[k] = token[k]
             /\ token[k] # NoTask => task'[token[k]] = task[token[k]]

\* A step of the flow t alone: it ends, waits again or takes a token of kind k.
Moves(t, k) == \/ End(t)
               \/ \E s : Await(t, s)
               \/ \E s : Begin(t, s, k)

\* A flow that holds no token moves without changing the holder of another kind.
LEMMA MovesAlone ==
  ASSUME Flows, NEW t \in Tasks, NEW k \in Kinds, Moves(t, k)
  PROVE  Flows' /\ \A j \in Kinds \ {k} : token[j] # t => Leaves(j)
<1>0. NoTask \notin Tasks BY AppConstants
<1>1. CASE End(t) BY <1>0, <1>1 DEF End, Flows, Released, Leaves
<1>2. CASE \E s : Await(t, s)
  <2>1. PICK s : Await(t, s) BY <1>2
  <2> QED BY <1>0, <2>1 DEF Await, Flows, Leaves
<1>3. CASE \E s : Begin(t, s, k)
  <2>1. PICK s : Begin(t, s, k) BY <1>3
  <2> QED BY <1>0, <2>1 DEF Begin, Flows, Leaves
<1> QED BY <1>1, <1>2, <1>3 DEF Moves

\* Counters are incremented by code that is no flow of theirs.
LEMMA RetireAlone ==
  ASSUME Flows, NEW kinds \in SUBSET Kinds, token' = Retire(token, kinds), UNCHANGED task
  PROVE  Flows' /\ \A j \in Kinds \ kinds : Leaves(j)
BY DEF Flows, Retire, Leaves

-----------------------------------------------------------------------------
(***************************************************************************)
(* Questions.  The holder of the query token waits within submitQuestion,  *)
(* and its question is shown.                                              *)
(***************************************************************************)
QueryAwaits == {"asked", "resolving", "rendering", "reporting"}

Asker ==
  LET t == token["query"] IN
  t # NoTask =>
    /\ task[t].at \in QueryAwaits
    /\ Message("user", task[t].q) \in messages
    /\ task[t].at = "resolving" => {"at", "q"} \subseteq DOMAIN task[t]

Conversation == /\ Flows /\ Asker
                /\ PendingOwned /\ AnswersFollowQuestions /\ RetryOfShownFailure

LEMMA Elsewhere ==
  ASSUME Conversation, Flows', Leaves("query"), UNCHANGED chat
  PROVE  Conversation'
<1>1. Asker' BY DEF Conversation, Asker, Leaves, chat, Message
<1> QED BY <1>1 DEF Conversation, Leaves, chat, PendingOwned, AnswersFollowQuestions,
                     RetryOfShownFailure, Message

LEMMA AskerElsewhere ==
  ASSUME Conversation, NEW t \in Tasks, task[t] = Idle \/ task[t].at \notin QueryAwaits
  PROVE  token["query"] # t
BY AppConstants DEF Conversation, Asker, QueryAwaits, Idle

-----------------------------------------------------------------------------
LEMMA ModelMoves ==
  ASSUME NEW t \in Tasks, ModelStep(t)
  PROVE  Moves(t, "floor") /\ task[t].at \notin QueryAwaits /\ UNCHANGED chat
<1> USE DEF QueryAwaits, At, Moves, To, store
<1>1. CASE LoadConfirming(t) BY <1>1 DEF LoadConfirming
<1>2. CASE LoadCaching(t) BY <1>2 DEF LoadCaching
<1>3. CASE LoadCached(t) BY <1>3 DEF LoadCached, StartViewerLoad
<1>4. CASE LoadFetched(t) BY <1>4 DEF LoadFetched, StartViewerLoad
<1>5. CASE Unload(t) BY <1>5 DEF Unload
<1>6. CASE Dispose(t) BY <1>6 DEF Dispose
<1>7. CASE Parse(t) BY <1>7 DEF Parse
<1>8. CASE Ready(t) BY <1>8 DEF Ready
<1>9. CASE LoadFailed(t) BY <1>9 DEF LoadFailed
<1>10. CASE NoFloorContract(t) BY <1>10 DEF NoFloorContract
<1>11. CASE FloorContract(t) BY <1>11 DEF FloorContract
<1>12. CASE FloorElevations(t) BY <1>12 DEF FloorElevations
<1>13. CASE PlanEntered(t) BY <1>13 DEF PlanEntered
<1>14. CASE PlanLeft(t) BY <1>14 DEF PlanLeft
<1>15. CASE ResetUnloading(t) BY <1>15 DEF ResetUnloading
<1>16. CASE ResetFinished(t) BY <1>16 DEF ResetFinished
<1> QED BY <1>1, <1>2, <1>3, <1>4, <1>5, <1>6, <1>7, <1>8, <1>9, <1>10, <1>11, <1>12,
           <1>13, <1>14, <1>15, <1>16 DEF ModelStep

LEMMA ModelConversation ==
  ASSUME Conversation, NEW t \in Tasks, ModelStep(t)
  PROVE  Conversation'
<1>1. Moves(t, "floor") /\ task[t].at \notin QueryAwaits /\ UNCHANGED chat BY ModelMoves
<1>2. token["query"] # t BY <1>1, AskerElsewhere
<1>3. Flows' /\ Leaves("query") BY <1>1, <1>2, MovesAlone DEF Conversation, Kinds
<1> QED BY <1>1, <1>3, Elsewhere

\* What the selection callback does to the flows: the flow t ends, and perhaps
\* an idle one waits for details.
LEMMA SyncLeaves ==
  ASSUME Flows, NEW t \in Tasks, NEW guids, SyncComponentPanel(t, guids),
         NEW k \in Kinds \ {"detail", "group"}, token[k] # t,
         token[k] # NoTask => task[token[k]] # Idle
  PROVE  Flows' /\ Leaves(k)
<1>1. CASE guids = <<>>
  BY <1>1 DEF SyncComponentPanel, Flows, Leaves, Retire, Released, Kinds, End
<1>2. CASE guids # <<>> /\ End(t) BY <1>2 DEF End, Flows, Leaves, Released
<1>3. CASE guids # <<>> /\ ~End(t)
  <2>1. PICK d \in IdleTasks \cup {t} :
          /\ task' = [[task EXCEPT ![t] = Idle] EXCEPT
                         ![d] = [at |-> "detailing", model |-> activeModel, guid |-> Last(guids)]]
          /\ token' = [Released(t) EXCEPT !["detail"] = d]
    BY <1>3 DEF SyncComponentPanel
  <2> QED BY <2>1 DEF Flows, Leaves, Released, IdleTasks, Kinds
<1> QED BY <1>1, <1>2, <1>3

\* A holder of the query token is in progress.
LEMMA AskerBusy == Conversation /\ token["query"] # NoTask => task[token["query"]] # Idle
BY DEF Conversation, Asker, QueryAwaits, Idle

LEMMA CallbackConversation ==
  ASSUME Conversation, NEW t \in Tasks, token["query"] # t, NEW guids,
         OnManualSelectionChange(t, guids)
  PROVE  Conversation'
<1>1. Flows' /\ Leaves("query")
  BY SyncLeaves, AskerBusy DEF OnManualSelectionChange, Conversation, Kinds
<1> QED BY <1>1, Elsewhere DEF OnManualSelectionChange

\* A selection flow moves alone, or the selection callback runs.
LEMMA SelectionMoves ==
  ASSUME NEW t \in Tasks, SelectionStep(t)
  PROVE  /\ task[t].at \notin QueryAwaits
         /\ \/ Moves(t, "detail") /\ UNCHANGED chat
            \/ \E guids : OnManualSelectionChange(t, guids)
<1> USE DEF QueryAwaits, At, Moves, store
<1>1. CASE PickMissed(t) BY <1>1 DEF PickMissed
<1>2. CASE \E item \in Items : PickHit(t, item) BY <1>2 DEF PickHit
<1>3. CASE PickAbandoned(t) BY <1>3 DEF PickAbandoned
<1>4. CASE PickIdentified(t) BY <1>4 DEF PickIdentified
<1>5. CASE DetailsArrived(t) BY <1>5 DEF DetailsArrived
<1>6. CASE ChipsResolved(t) BY <1>6 DEF ChipsResolved
<1>7. CASE ChipsUnresolved(t) BY <1>7 DEF ChipsUnresolved
<1> QED BY <1>1, <1>2, <1>3, <1>4, <1>5, <1>6, <1>7 DEF SelectionStep

LEMMA SelectionConversation ==
  ASSUME Conversation, NEW t \in Tasks, SelectionStep(t)
  PROVE  Conversation'
<1>1. token["query"] # t BY SelectionMoves, AskerElsewhere
<1>2. CASE Moves(t, "detail") /\ UNCHANGED chat
  <2>1. Flows' /\ Leaves("query") BY <1>1, <1>2, MovesAlone DEF Conversation, Kinds
  <2> QED BY <1>2, <2>1, Elsewhere
<1>3. CASE \E guids : OnManualSelectionChange(t, guids) BY <1>1, <1>3, CallbackConversation
<1> QED BY <1>2, <1>3, SelectionMoves

-----------------------------------------------------------------------------
LEMMA QueryConversation ==
  ASSUME Conversation, NEW t \in Tasks, QueryStep(t)
  PROVE  Conversation'
<1>0. NoTask \notin Tasks BY AppConstants
<1> DEFINE Alone == Moves(t, "group") /\ UNCHANGED chat /\ token["query"] # t
<1>1. CASE StaleResponse(t)
  <2>1. Alone BY <1>1 DEF StaleResponse, Moves, store, Current
  <2> QED BY <2>1, MovesAlone, Elsewhere DEF Conversation, Kinds
<1>2. ASSUME Current(t, "query"), FailQuestion(t) PROVE Conversation'
  <2>1. pending /\ Message("user", task[t].q) \in messages
    BY <1>0, <1>2 DEF Conversation, PendingOwned, Asker, Current
  <2>2. Flows' BY <1>2, MovesAlone DEF FailQuestion, Moves, Conversation, Kinds
  <2>3. token'["query"] = NoTask BY <1>2 DEF FailQuestion, End, Released, Current, Kinds
  <2>4. retryQuestion' \in {0, task[t].q} BY <1>2, <2>1 DEF FailQuestion, Conversation, RetryOfShownFailure
  <2> QED BY <1>2, <2>1, <2>2, <2>3, <2>4 DEF Conversation, Asker, PendingOwned,
            AnswersFollowQuestions, RetryOfShownFailure, FailQuestion, Message
<1>3. CASE QuestionRejected(t) BY <1>2, <1>3 DEF QuestionRejected
<1>4. ASSUME NEW clears \in BOOLEAN, PlainAnswer(t, clears) PROVE Conversation'
  <2>1. task' = [task EXCEPT ![t] = [at |-> "reporting", q |-> task[t].q]] /\ token' = token
        /\ token["query"] = t
    BY <1>4 DEF PlainAnswer, Await, Current
  <2>2. Flows' BY <2>1 DEF Conversation, Flows
  <2>3. task'[t].at = "reporting" /\ task'[t].q = task[t].q BY <2>1 DEF Conversation, Flows
  <2>4. messages' = messages \cup {Message("answer", task[t].q)} /\ UNCHANGED <<pending, retryQuestion>>
    BY <1>4 DEF PlainAnswer
  <2> QED BY <1>0, <2>1, <2>2, <2>3, <2>4 DEF Conversation, Asker, PendingOwned, QueryAwaits,
            AnswersFollowQuestions, RetryOfShownFailure, Message
<1>5. ASSUME NEW explained \in BOOLEAN, NEW notice \in BOOLEAN, HighlightAnswer(t, explained, notice)
      PROVE  Conversation'
  <2> DEFINE s == [at |-> "resolving", q |-> task[t].q, explained |-> explained, notice |-> notice,
                   roles |-> AnswerRoles(task[t].q, task[t].model), within |-> viewer.model]
  <2>1. task' = [task EXCEPT ![t] = s] /\ token' = token /\ token["query"] = t
    BY <1>5 DEF HighlightAnswer, Await, Current
  <2>2. Flows' BY <2>1 DEF Conversation, Flows
  <2>3. s.at = "resolving" /\ s.q = task[t].q /\ {"at", "q"} \subseteq DOMAIN s OBVIOUS
  <2>4. task'[t] = s BY <2>1 DEF Conversation, Flows
  <2>5. messages' = messages \cup {Message("answer", task[t].q)} /\ UNCHANGED <<pending, retryQuestion>>
    BY <1>5 DEF HighlightAnswer
  <2> HIDE DEF s
  <2> QED BY <1>0, <2>1, <2>2, <2>3, <2>4, <2>5 DEF Conversation, Asker, PendingOwned, QueryAwaits,
            AnswersFollowQuestions, RetryOfShownFailure, Message
<1>6. CASE QuestionPainted(t)
  <2>1. UNCHANGED chat /\ Moves(t, "group") BY <1>6 DEF QuestionPainted, store, Moves
  <2>2. CASE token["query"] # t BY <2>1, <2>2, MovesAlone, Elsewhere DEF Conversation, Kinds
  <2>3. CASE token["query"] = t
    <3> DEFINE s == [task[t] EXCEPT !.at = "rendering"]
    <3>1. task' = [task EXCEPT ![t] = s] /\ token' = token BY <1>6 DEF QuestionPainted, Await
    <3>2. {"at", "q"} \subseteq DOMAIN task[t] /\ Message("user", task[t].q) \in messages
      BY <1>0, <1>6, <2>3 DEF QuestionPainted, At, Conversation, Asker
    <3>3. s.at = "rendering" /\ s.q = task[t].q BY <3>2
    <3>4. Flows' /\ task'[t] = s BY <3>1 DEF Conversation, Flows
    <3> HIDE DEF s
    <3>5. Asker' BY <2>1, <2>3, <3>1, <3>2, <3>3, <3>4 DEF Asker, QueryAwaits, chat, Message
    <3> QED BY <2>1, <3>1, <3>4, <3>5 DEF Conversation, PendingOwned, AnswersFollowQuestions,
              RetryOfShownFailure, chat, Message
  <2> QED BY <2>2, <2>3
<1>7. CASE QuestionUnresolved(t)
  <2>1. CASE Current(t, "query") BY <1>2, <1>7, <2>1 DEF QuestionUnresolved
  <2>2. CASE ~Current(t, "query")
    <3>1. Alone BY <1>7, <2>2 DEF QuestionUnresolved, Moves, store, Current
    <3> QED BY <3>1, MovesAlone, Elsewhere DEF Conversation, Kinds
  <2> QED BY <2>1, <2>2
<1>8. CASE QuestionRendered(t)
  <2>1. task' = [task EXCEPT ![t] = [at |-> "reporting", q |-> task[t].q]] /\ token' = token
    BY <1>8 DEF QuestionRendered, Await
  <2>2. Flows' /\ task'[t].at = "reporting" /\ task'[t].q = task[t].q
        /\ \A u \in Tasks \ {t} : task'[u] = task[u]
    BY <2>1 DEF Conversation, Flows
  <2>3. messages' \in {messages, messages \cup {Message("notice", task[t].q)}}
        /\ UNCHANGED <<pending, retryQuestion>>
    BY <1>8 DEF QuestionRendered
  <2>4. Asker' BY <2>1, <2>2, <2>3 DEF Conversation, Flows, Asker, QueryAwaits, Message, Kinds
  <2> QED BY <2>1, <2>2, <2>3, <2>4 DEF Conversation, PendingOwned,
            AnswersFollowQuestions, RetryOfShownFailure, Message
<1>9. CASE QuestionFinished(t)
  <2>1. CASE Current(t, "query")
    <3>1. token'["query"] = NoTask /\ ~pending' /\ UNCHANGED <<messages, retryQuestion>>
      BY <1>9, <2>1 DEF QuestionFinished, End, Released, Current, Kinds
    <3>2. Flows' BY <1>9, MovesAlone DEF QuestionFinished, Moves, Conversation, Kinds
    <3> QED BY <3>1, <3>2 DEF Conversation, Asker, PendingOwned, AnswersFollowQuestions,
              RetryOfShownFailure, Message
  <2>2. CASE ~Current(t, "query")
    <3>1. Alone BY <1>9, <2>2 DEF QuestionFinished, Moves, chat, Current
    <3> QED BY <3>1, MovesAlone, Elsewhere DEF Conversation, Kinds
  <2> QED BY <2>1, <2>2
<1>10. ASSUME CardPainted(t) \/ NoGroup(t) \/ GroupFound(t) \/ GroupPainted(t) \/ GroupRendered(t)
       PROVE  Conversation'
  <2>1. task[t].at \notin QueryAwaits /\ UNCHANGED chat
    BY <1>10 DEF CardPainted, NoGroup, GroupFound, GroupPainted, GroupRendered, At, QueryAwaits, store
  <2>2. Moves(t, "group")
    BY <1>10 DEF CardPainted, NoGroup, GroupFound, GroupPainted, GroupRendered, Moves
  <2>3. Alone BY <2>1, <2>2, AskerElsewhere
  <2> QED BY <2>3, MovesAlone, Elsewhere DEF Conversation, Kinds
<1>11. CASE ChatCleared(t)
  <2>1. token["query"] # t BY <1>11, AskerElsewhere DEF ChatCleared, At, QueryAwaits
  <2>2. Flows' /\ Leaves("query")
    BY <1>11, <2>1 DEF ChatCleared, Conversation, Flows, Retire, Leaves, Kinds
  <2> QED BY <1>11, <2>2, Elsewhere DEF ChatCleared
<1> QED BY <1>1, <1>3, <1>4, <1>5, <1>6, <1>7, <1>8, <1>9, <1>10, <1>11 DEF QueryStep

-----------------------------------------------------------------------------
\* The conversation starts over: Clear Chat and Reset App.
LEMMA StartsOver ==
  ASSUME Flows', token'["query"] = NoTask, messages' = {}, pending' = FALSE, retryQuestion' = 0
  PROVE  Conversation'
BY DEF Conversation, Asker, PendingOwned, AnswersFollowQuestions, RetryOfShownFailure

LEMMA StartModelConversation ==
  ASSUME Conversation, StartModelFlow
  PROVE  Conversation'
<1>1. PICK t \in IdleTasks :
        \/ \E m \in Models : ConfirmAndLoadModel(t, m)
        \/ \E b \in Bands : SelectFloor(t, b) \/ PlanNotOpened(b)
        \/ Select3D(t)
        \/ ResetApp(t)
  BY DEF StartModelFlow
<1>2. t \in Tasks /\ token["query"] # t BY AskerElsewhere DEF IdleTasks
<1>3. CASE \E m \in Models : ConfirmAndLoadModel(t, m)
  <2>1. PICK m \in Models : ConfirmAndLoadModel(t, m) BY <1>3
  <2>2. Flows' /\ Leaves("query")
    BY <1>2, <2>1 DEF ConfirmAndLoadModel, Conversation, Flows, Retire, Leaves, Kinds
  <2> QED BY <2>1, <2>2, Elsewhere DEF ConfirmAndLoadModel
<1>4. CASE (\E b \in Bands : SelectFloor(t, b) \/ PlanNotOpened(b)) \/ Select3D(t)
  <2>1. UNCHANGED chat /\ (Moves(t, "floor") \/ UNCHANGED flows)
    BY <1>4 DEF SelectFloor, PlanNotOpened, Select3D, Moves
  <2>2. Flows' /\ Leaves("query")
    BY <1>2, <2>1, MovesAlone DEF Conversation, flows, Flows, Leaves, Kinds
  <2> QED BY <2>1, <2>2, Elsewhere
<1>5. CASE ResetApp(t)
  <2>1. Flows' /\ token'["query"] = NoTask
    BY <1>2, <1>5 DEF ResetApp, Conversation, Flows, Retire, Kinds
  <2> QED BY <1>5, <2>1, StartsOver DEF ResetApp
<1> QED BY <1>1, <1>3, <1>4, <1>5

LEMMA SubmitConversation ==
  ASSUME Conversation, NEW t \in IdleTasks, SubmitQuestion(t)
  PROVE  Conversation'
<1> DEFINE s == [at |-> "asked", q |-> asked + 1, model |-> activeModel, session |-> session]
<1>0. t \in Tasks /\ NoTask \notin Tasks BY AppConstants DEF IdleTasks
<1>1. /\ task' = [task EXCEPT ![t] = s] /\ token' = [token EXCEPT !["query"] = t]
      /\ messages' = messages \cup {Message("user", asked + 1)} /\ pending' = TRUE /\ retryQuestion' = 0
  BY DEF SubmitQuestion, Begin
<1>2. s.at = "asked" /\ s.q = asked + 1 OBVIOUS
<1> HIDE DEF s
<1>3. Flows' /\ task'[t] = s /\ token'["query"] = t BY <1>0, <1>1 DEF Conversation, Flows, Kinds
<1> QED BY <1>0, <1>1, <1>2, <1>3 DEF Conversation, Asker, PendingOwned, QueryAwaits,
          AnswersFollowQuestions, RetryOfShownFailure, Message

LEMMA StartQueryConversation ==
  ASSUME Conversation, StartQueryFlow
  PROVE  Conversation'
<1>1. CASE CancelQuery
  <2>1. Flows' /\ token'["query"] = NoTask
    BY <1>1 DEF CancelQuery, Conversation, Flows, Retire, Kinds
  <2> QED BY <1>1, <2>1 DEF CancelQuery, Conversation, Asker, PendingOwned, AnswersFollowQuestions,
            RetryOfShownFailure
<1>2. CASE CloseExplanation
  <2>1. Flows' /\ Leaves("query") BY <1>2 DEF CloseExplanation, flows, Conversation, Flows, Leaves
  <2> QED BY <1>2, <2>1, Elsewhere DEF CloseExplanation
<1>3. ASSUME NEW t \in IdleTasks,
             (\E shown \in {"answer", "subgroup"} : ShowOnCard(t, shown)) \/ ApplyGroupScope(t)
      PROVE  Conversation'
  <2>1. t \in Tasks /\ token["query"] # t BY AskerElsewhere DEF IdleTasks
  <2>2. UNCHANGED chat /\ (Moves(t, "group") \/ UNCHANGED flows)
    BY <1>3 DEF ShowOnCard, ApplyGroupScope, Moves, store
  <2>3. Flows' /\ Leaves("query")
    BY <2>1, <2>2, MovesAlone DEF Conversation, flows, Flows, Leaves, Kinds
  <2> QED BY <2>2, <2>3, Elsewhere
<1>4. ASSUME NEW t \in IdleTasks, ClearChat(t) PROVE Conversation'
  <2>1. Flows' /\ token'["query"] = NoTask
    BY <1>4 DEF ClearChat, Conversation, Flows, Retire, Kinds, IdleTasks
  <2> QED BY <1>4, <2>1, StartsOver DEF ClearChat
<1> QED BY <1>1, <1>2, <1>3, <1>4, SubmitConversation DEF StartQueryFlow

LEMMA StartSelectionConversation ==
  ASSUME Conversation, StartSelectionFlow \/ TimerStep
  PROVE  Conversation'
<1>1. CASE CloseComponent
  <2>1. Flows' /\ Leaves("query")
    BY <1>1 DEF CloseComponent, Conversation, Flows, Retire, Leaves, Kinds
  <2> QED BY <1>1, <2>1, Elsewhere DEF CloseComponent
<1>2. ASSUME NEW t \in IdleTasks, (\E additive \in BOOLEAN : Pick(t, additive)) \/ TimerFires(t)
      PROVE  Conversation'
  <2>1. t \in Tasks /\ token["query"] # t BY AskerElsewhere DEF IdleTasks
  <2>2. UNCHANGED chat /\ (Moves(t, "resolve") \/ UNCHANGED flows)
    BY <1>2 DEF Pick, TimerFires, Moves, store
  <2>3. Flows' /\ Leaves("query")
    BY <2>1, <2>2, MovesAlone DEF Conversation, flows, Flows, Leaves, Kinds
  <2> QED BY <2>2, <2>3, Elsewhere
<1>3. ASSUME NEW t \in IdleTasks, \E guid \in ToSet(manualGuids) : RemoveChip(t, guid)
      PROVE  Conversation'
  <2>1. t \in Tasks /\ token["query"] # t BY AskerElsewhere DEF IdleTasks
  <2> QED BY <1>3, <2>1, CallbackConversation DEF RemoveChip
<1> QED BY <1>1, <1>2, <1>3 DEF StartSelectionFlow, TimerStep

LEMMA ConversationKept == Conversation /\ [Next]_vars => Conversation'
<1> SUFFICES ASSUME Conversation, [Next]_vars PROVE Conversation' OBVIOUS
<1>1. CASE UNCHANGED vars
  <2>1. Flows' /\ Leaves("query") /\ UNCHANGED chat
    BY <1>1 DEF vars, store, flows, Conversation, Flows, Leaves
  <2> QED BY <2>1, Elsewhere
<1>2. CASE UserStep
  BY <1>2, StartModelConversation, StartQueryConversation, StartSelectionConversation DEF UserStep
<1>3. CASE \E t \in Tasks : TaskStep(t)
  BY <1>3, ModelConversation, QueryConversation, SelectionConversation DEF TaskStep
<1> QED BY <1>1, <1>2, <1>3, StartSelectionConversation DEF Next

LEMMA ConversationHolds == Spec => []Conversation
<1>1. Init => Conversation
  BY DEF Init, Conversation, Flows, Asker, PendingOwned, AnswersFollowQuestions, RetryOfShownFailure, Kinds
<1> QED BY <1>1, ConversationKept, PTL DEF Spec

\* submitQuestion, cancelQuery, clearChat, resetApp: the composer is blocked
\* exactly while the current question is in flight.
THEOREM ComposerIsOwned == Spec => []PendingOwned
BY ConversationHolds, PTL DEF Conversation

\* handleEnvelope and the catch of submitQuestion: whatever comes back after
\* Clear Chat or Reset App is not shown as an answer or an error.
THEOREM AnswersHaveQuestions == Spec => []AnswersFollowQuestions
BY ConversationHolds, PTL DEF Conversation

\* Retry asks the last failed question that is still shown, and only while
\* no other is being answered.
THEOREM RetriesAreOfFailures == Spec => []RetryOfShownFailure
BY ConversationHolds, PTL DEF Conversation

-----------------------------------------------------------------------------
(***************************************************************************)
(* The component panel: its subject, its details and the selection.        *)
(***************************************************************************)
PanelState == {"guid", "details", "scope"} \subseteq DOMAIN panel

PanelInv == PanelState /\ DetailsMatchPanel /\ PanelFollowsSelection

LEMMA PanelUntouched ==
  ASSUME PanelInv, UNCHANGED <<panel, activeModel, manualGuids>>
  PROVE  PanelInv'
BY DEF PanelInv, PanelState, DetailsMatchPanel, PanelFollowsSelection, PanelOpen

LEMMA PanelScoped ==
  ASSUME PanelInv, NEW on, SetComponentScope(on), UNCHANGED <<activeModel, manualGuids>>
  PROVE  PanelInv'
<1>1. panel'.guid = panel.guid /\ panel'.details = panel.details /\ PanelState'
  BY DEF SetComponentScope, PanelInv, PanelState
<1> QED BY <1>1 DEF PanelInv, DetailsMatchPanel, PanelFollowsSelection, PanelOpen

LEMMA PanelClosed ==
  ASSUME panel' = NoPanel
  PROVE  PanelInv'
BY DEF NoPanel, Details, PanelInv, PanelState, DetailsMatchPanel, PanelFollowsSelection, PanelOpen

LEMMA CallbackPanel ==
  ASSUME PanelInv, NEW t, NEW guids, OnManualSelectionChange(t, guids)
  PROVE  PanelInv'
<1>1. manualGuids' = guids /\ UNCHANGED activeModel /\ SyncComponentPanel(t, guids)
  BY DEF OnManualSelectionChange, model
<1>2. CASE guids = <<>>
  <2>1. panel' = NoPanel BY <1>1, <1>2 DEF SyncComponentPanel
  <2> QED BY <2>1, PanelClosed
<1>3. CASE guids # <<>> /\ UNCHANGED panel /\ (panel.guid = Last(guids) \/ activeModel = NoModel)
  BY <1>1, <1>3 DEF PanelInv, PanelState, DetailsMatchPanel, PanelFollowsSelection, PanelOpen
<1>4. CASE guids # <<>> /\ panel' = NewPanel(Last(guids))
  <2>1. panel'.guid = Last(guids) /\ panel'.details.state = "loading" /\ PanelState'
    BY <1>4 DEF NewPanel, Details, PanelState
  <2> QED BY <1>1, <1>4, <2>1 DEF PanelInv, DetailsMatchPanel, PanelFollowsSelection, PanelOpen
<1> QED BY <1>1, <1>2, <1>3, <1>4 DEF SyncComponentPanel

LEMMA DetailsPanel ==
  ASSUME PanelInv, NEW t, DetailsArrived(t)
  PROVE  PanelInv'
<1>1. UNCHANGED <<activeModel, manualGuids>> BY DEF DetailsArrived, model, selection
<1>2. CASE UNCHANGED panel BY <1>1, <1>2, PanelUntouched
<1>3. ASSUME NEW state, NEW guid, SetDetails(state, guid),
             state = "loaded" => guid = panel.guid /\ (activeModel # NoModel => guid.model = activeModel)
      PROVE  PanelInv'
  <2>1. panel'.guid = panel.guid /\ panel'.details = Details(state, guid) /\ PanelState'
    BY <1>3 DEF SetDetails, PanelInv, PanelState
  <2> QED BY <1>1, <1>3, <2>1 DEF Details, PanelInv, DetailsMatchPanel, PanelFollowsSelection, PanelOpen
<1>4. CASE DetailStillCurrent(t) /\ SetDetails("failed", NoGuid) BY <1>3, <1>4
<1>5. CASE DetailStillCurrent(t) /\ task[t].guid.model = task[t].model /\ SetDetails("loaded", task[t].guid)
  BY <1>3, <1>5 DEF DetailStillCurrent
<1> QED BY <1>2, <1>4, <1>5 DEF DetailsArrived

LEMMA PanelKept == PanelInv /\ [Next]_vars => PanelInv'
<1> SUFFICES ASSUME PanelInv, [Next]_vars PROVE PanelInv' OBVIOUS
<1> USE DEF store, model, selection
<1>1. CASE UNCHANGED vars BY <1>1, PanelUntouched DEF vars
<1>2. CASE StartModelFlow
  <2>1. CASE UNCHANGED <<panel, activeModel, manualGuids>> BY <2>1, PanelUntouched
  <2>2. CASE panel' = NoPanel BY <2>2, PanelClosed
  <2> QED BY <1>2, <2>1, <2>2 DEF StartModelFlow, ConfirmAndLoadModel, ResetApp, DropModelState,
            SelectFloor, PlanNotOpened, Select3D
<1>3. CASE StartQueryFlow
  BY <1>3, PanelUntouched DEF StartQueryFlow, CancelQuery, CloseExplanation, SubmitQuestion, ShowOnCard,
                              ApplyGroupScope, ClearChat
<1>4. CASE StartSelectionFlow
  <2>1. CASE CloseComponent BY <2>1, PanelClosed DEF CloseComponent
  <2>2. CASE \E t \in IdleTasks : \E additive \in BOOLEAN : Pick(t, additive)
    BY <2>2, PanelUntouched DEF Pick
  <2>3. CASE \E t \in IdleTasks : \E guid \in ToSet(manualGuids) : RemoveChip(t, guid)
    BY <2>3, CallbackPanel DEF RemoveChip
  <2> QED BY <1>4, <2>1, <2>2, <2>3 DEF StartSelectionFlow
<1>5. CASE TimerStep BY <1>5, PanelUntouched DEF TimerStep, TimerFires
<1>6. ASSUME NEW t \in Tasks, ModelStep(t) PROVE PanelInv'
  <2>1. CASE ResetFinished(t)
    BY <2>1 DEF ResetFinished, PanelInv, PanelState, DetailsMatchPanel, PanelFollowsSelection, PanelOpen
  <2>2. CASE ~ResetFinished(t)
    <3>1. UNCHANGED <<panel, activeModel, manualGuids>>
      BY <1>6, <2>2 DEF ModelStep, LoadConfirming, LoadCaching, LoadCached, LoadFetched, Unload, Dispose,
         Parse, Ready, LoadFailed, NoFloorContract, FloorContract, FloorElevations, PlanEntered, PlanLeft,
         ResetUnloading
    <3> QED BY <3>1, PanelUntouched
  <2> QED BY <2>1, <2>2
<1>7. ASSUME NEW t \in Tasks, QueryStep(t) PROVE PanelInv'
  <2>1. /\ UNCHANGED <<activeModel, manualGuids>>
        /\ UNCHANGED panel \/ \E on : SetComponentScope(on)
    BY <1>7 DEF QueryStep, StaleResponse, QuestionRejected, FailQuestion, PlainAnswer, HighlightAnswer,
       QuestionPainted, QuestionUnresolved, QuestionRendered, QuestionFinished, CardPainted, NoGroup,
       GroupFound, GroupPainted, GroupRendered, ChatCleared
  <2> QED BY <2>1, PanelUntouched, PanelScoped
<1>8. ASSUME NEW t \in Tasks, SelectionStep(t) PROVE PanelInv'
  <2>1. CASE DetailsArrived(t) BY <2>1, DetailsPanel
  <2>2. CASE ~DetailsArrived(t)
    <3>1. \/ UNCHANGED <<panel, activeModel, manualGuids>>
          \/ \E guids : OnManualSelectionChange(t, guids)
      BY <1>8, <2>2 DEF SelectionStep, PickMissed, PickHit, PickAbandoned, PickIdentified, ChipsResolved,
                        ChipsUnresolved
    <3> QED BY <3>1, PanelUntouched, CallbackPanel
  <2> QED BY <2>1, <2>2
<1> QED BY <1>1, <1>2, <1>3, <1>4, <1>5, <1>6, <1>7, <1>8 DEF Next, UserStep, TaskStep

LEMMA PanelHolds == Spec => []PanelInv
<1>1. Init => PanelInv BY PanelClosed DEF Init, NoPanel, Details, PanelInv, PanelState, DetailsMatchPanel,
                                         PanelFollowsSelection, PanelOpen
<1> QED BY <1>1, PanelKept, PTL DEF Spec

\* entityDetails and its guard: the panel shows its own subject's details, and
\* with a model active an object of that model.
THEOREM DetailsAreOfPanel == Spec => []DetailsMatchPanel
BY PanelHolds, PTL DEF PanelInv

\* syncComponentPanel: with a model active the subject is the last picked object.
THEOREM PanelFollowsPicks == Spec => []PanelFollowsSelection
BY PanelHolds, PTL DEF PanelInv

-----------------------------------------------------------------------------
(***************************************************************************)
(* Loads and floors.  The holder of the load token loads the active model, *)
(* unless Reset App has ended since and no model is active.                *)
(***************************************************************************)
LoadAwaits == {"clearing", "confirming", "caching", "fetching", "unloading", "disposing", "parsing",
               "preparing", "finishing", "contract", "elevations"}

Loader ==
  LET t == token["load"] IN
  t # NoTask => /\ task[t].at \in LoadAwaits
                /\ activeModel # NoModel => task[t].model = activeModel

Loads == Flows /\ Loader /\ "model" \in DOMAIN floors /\ FloorsOfActiveModel

LEMMA LoadsElsewhere ==
  ASSUME Loads, Flows', Leaves("load"), UNCHANGED <<activeModel, floors>>
  PROVE  Loads'
BY DEF Loads, Loader, Leaves, FloorsOfActiveModel

LEMMA LoaderElsewhere ==
  ASSUME Loads, NEW t \in Tasks, task[t] = Idle \/ task[t].at \notin LoadAwaits
  PROVE  token["load"] # t
BY AppConstants DEF Loads, Loader, LoadAwaits, Idle

LEMMA LoaderBusy == Loads /\ token["load"] # NoTask => task[token["load"]] # Idle
BY DEF Loads, Loader, LoadAwaits, Idle

LEMMA CallbackLoads ==
  ASSUME Loads, NEW t \in Tasks, token["load"] # t, NEW guids, OnManualSelectionChange(t, guids)
  PROVE  Loads'
<1>1. Flows' /\ Leaves("load")
  BY SyncLeaves, LoaderBusy DEF OnManualSelectionChange, Loads, Kinds
<1> QED BY <1>1, LoadsElsewhere DEF OnManualSelectionChange, model

\* What a step of a load, reset or floor flow leaves of the invariant.
FloorsKept == "model" \in DOMAIN floors' /\ FloorsOfActiveModel'

LEMMA LoadGoesOn ==
  ASSUME Loads, NEW t \in Tasks, NEW label \in LoadAwaits, To(t, label), UNCHANGED activeModel, FloorsKept
  PROVE  Loads'
<1>1. Flows' BY MovesAlone DEF To, Moves, Loads, Kinds
<1>2. task' = [task EXCEPT ![t] = Load(label, task[t].model)] /\ token' = token BY DEF To, Await
<1>3. task'[t].at = label /\ task'[t].model = task[t].model BY <1>2 DEF Loads, Flows, Load
<1>4. \A u \in Tasks \ {t} : task'[u] = task[u] BY <1>2 DEF Loads, Flows
<1>5. token["load"] \in Tasks \cup {NoTask} BY DEF Loads, Flows, Kinds
<1>6. Loader' BY <1>2, <1>3, <1>4, <1>5 DEF Loads, Loader
<1> QED BY <1>1, <1>6 DEF Loads, FloorsKept

LEMMA LoadEnds ==
  ASSUME Loads, NEW t \in Tasks, End(t), activeModel' \in {activeModel, NoModel}, FloorsKept
  PROVE  Loads'
<1>1. Flows' BY MovesAlone DEF Moves, Loads, Kinds
<1>2. \A u \in Tasks \ {t} : task'[u] = task[u] BY DEF End, Loads, Flows
<1>3. token'["load"] = IF token["load"] = t THEN NoTask ELSE token["load"] BY DEF End, Released, Kinds
<1>4. token["load"] \in Tasks \cup {NoTask} BY DEF Loads, Flows, Kinds
<1>5. Loader' BY <1>2, <1>3, <1>4 DEF Loads, Loader
<1> QED BY <1>1, <1>5 DEF Loads, FloorsKept

LEMMA ModelLoads ==
  ASSUME Loads, NEW t \in Tasks, ModelStep(t)
  PROVE  Loads'
<1> USE DEF LoadAwaits, model, store
<1>0. UNCHANGED <<activeModel, floors>> => FloorsKept BY DEF Loads, FloorsOfActiveModel, FloorsKept
<1>1. ASSUME UNCHANGED <<activeModel, floors>>, End(t) \/ \E label \in LoadAwaits : To(t, label) PROVE Loads'
  BY <1>0, <1>1, LoadGoesOn, LoadEnds
<1>2. CASE LoadConfirming(t) BY <1>1, <1>2 DEF LoadConfirming
<1>3. CASE LoadCaching(t) BY <1>1, <1>3 DEF LoadCaching
<1>4. CASE LoadCached(t) BY <1>1, <1>4 DEF LoadCached, StartViewerLoad
<1>5. CASE LoadFetched(t) BY <1>1, <1>5 DEF LoadFetched, StartViewerLoad
<1>6. CASE Unload(t) BY <1>1, <1>6 DEF Unload
<1>7. CASE Dispose(t) BY <1>1, <1>7 DEF Dispose
<1>8. CASE Parse(t) BY <1>1, <1>8 DEF Parse
<1>9. CASE Ready(t)
  <2>1. CASE ~Current(t, "load") BY <1>1, <1>9, <2>1 DEF Ready
  <2>2. CASE Current(t, "load")
    <3> DEFINE s == Load("contract", task[t].model)
    <3>1. /\ task' = [task EXCEPT ![t] = s] /\ token' = [token EXCEPT !["floor"] = t]
          /\ UNCHANGED activeModel /\ floors' = [NoFloors EXCEPT !.model = task[t].model, !.loading = TRUE]
      BY <1>9, <2>2 DEF Ready, Begin
    <3>2. s.at = "contract" /\ s.model = task[t].model BY DEF Load
    <3>3. floors'.model = task[t].model /\ "model" \in DOMAIN floors' BY <3>1 DEF NoFloors
    <3>4. activeModel # NoModel => task[t].model = activeModel
      BY <2>2, AppConstants DEF Loads, Loader, Current
    <3> HIDE DEF s
    <3>5. Flows' /\ task'[t] = s /\ token'["load"] = t BY <2>2, <3>1 DEF Current, Loads, Flows, Kinds
    <3> QED BY <3>1, <3>2, <3>3, <3>4, <3>5 DEF Loads, Loader, FloorsOfActiveModel
  <2> QED BY <2>1, <2>2
<1>10. CASE LoadFailed(t) BY <1>1, <1>10 DEF LoadFailed
<1>11. ASSUME End(t), UNCHANGED activeModel,
              \/ UNCHANGED floors
              \/ /\ FloorsStillCurrent(t)
                 /\ \E enabled, available : floors' = FloorOptions(task[t].model, enabled, available)
       PROVE  Loads'
  <2>1. CASE UNCHANGED floors BY <1>1, <1>11, <2>1
  <2>2. ASSUME FloorsStillCurrent(t), NEW enabled, NEW available,
               floors' = FloorOptions(task[t].model, enabled, available)
        PROVE  Loads'
    <3>1. FloorsKept BY <1>11, <2>2 DEF FloorOptions, FloorsStillCurrent, FloorsKept, FloorsOfActiveModel
    <3> QED BY <1>11, <3>1, LoadEnds
  <2> QED BY <1>11, <2>1, <2>2
<1>12. CASE NoFloorContract(t) BY <1>11, <1>12 DEF NoFloorContract
<1>13. CASE FloorContract(t) BY <1>1, <1>11, <1>13 DEF FloorContract
<1>14. CASE FloorElevations(t) BY <1>11, <1>14 DEF FloorElevations
<1>15. ASSUME NEW band, floors' = [floors EXCEPT !.band = band], UNCHANGED activeModel, End(t) PROVE Loads'
  <2>1. floors'.model = floors.model /\ "model" \in DOMAIN floors' BY <1>15 DEF Loads
  <2>2. FloorsKept BY <1>15, <2>1 DEF FloorsKept, Loads, FloorsOfActiveModel
  <2> QED BY <1>15, <2>2, LoadEnds
<1>16. CASE PlanEntered(t) BY <1>15, <1>16 DEF PlanEntered
<1>17. CASE PlanLeft(t) BY <1>15, <1>17 DEF PlanLeft
<1>18. CASE ResetUnloading(t) BY <1>1, <1>18 DEF ResetUnloading
<1>19. CASE ResetFinished(t)
  <2>1. FloorsKept BY <1>19 DEF ResetFinished, FloorsKept, Loads, FloorsOfActiveModel
  <2> QED BY <1>19, <2>1, LoadEnds DEF ResetFinished
<1> QED BY <1>2, <1>3, <1>4, <1>5, <1>6, <1>7, <1>8, <1>9, <1>10, <1>12, <1>13, <1>14, <1>16, <1>17,
           <1>18, <1>19 DEF ModelStep

LEMMA StartModelLoads ==
  ASSUME Loads, StartModelFlow
  PROVE  Loads'
<1>1. PICK t \in IdleTasks :
        \/ \E m \in Models : ConfirmAndLoadModel(t, m)
        \/ \E b \in Bands : SelectFloor(t, b) \/ PlanNotOpened(b)
        \/ Select3D(t)
        \/ ResetApp(t)
  BY DEF StartModelFlow
<1>2. t \in Tasks /\ NoTask \notin Tasks /\ token["load"] # t
  BY LoaderElsewhere, AppConstants DEF IdleTasks
<1>3. ASSUME NEW m \in Models, ConfirmAndLoadModel(t, m) PROVE Loads'
  <2>1. /\ task' = [task EXCEPT ![t] = Load("clearing", m)]
        /\ token' = [Retire(token, {"floor", "detail", "group"}) EXCEPT !["load"] = t]
        /\ activeModel' = m /\ floors' = NoFloors
    BY <1>3 DEF ConfirmAndLoadModel, DropModelState
  <2>2. Flows' /\ token'["load"] = t BY <1>2, <2>1 DEF Loads, Flows, Retire, Kinds
  <2>3. task'[t].at = "clearing" /\ task'[t].model = m BY <1>2, <2>1 DEF Loads, Flows, Load
  <2>4. floors'.model = NoModel /\ "model" \in DOMAIN floors' BY <2>1 DEF NoFloors
  <2> QED BY <2>1, <2>2, <2>3, <2>4 DEF Loads, Loader, LoadAwaits, FloorsOfActiveModel
<1>4. CASE (\E b \in Bands : SelectFloor(t, b) \/ PlanNotOpened(b)) \/ Select3D(t)
  <2>1. /\ Moves(t, "floor") \/ UNCHANGED flows
        /\ UNCHANGED activeModel
        /\ \/ UNCHANGED floors
           \/ \E b : Disable(b)
           \/ floors' = [floors EXCEPT !.band = NoBand]
    BY <1>4 DEF SelectFloor, PlanNotOpened, Select3D, Moves, model
  <2>2. Flows' /\ Leaves("load") BY <1>2, <2>1, MovesAlone DEF Loads, flows, Flows, Leaves, Kinds
  <2>3. "model" \in DOMAIN floors' /\ floors'.model = floors.model BY <2>1 DEF Disable, Loads
  <2> QED BY <2>1, <2>2, <2>3 DEF Loads, Loader, Leaves, FloorsOfActiveModel
<1>5. CASE ResetApp(t)
  <2>1. /\ task' = [task EXCEPT ![t] = Load("clearing", NoModel)]
        /\ token' = Retire(token, {"query", "load", "floor", "detail", "group"})
        /\ floors' = NoFloors
    BY <1>5 DEF ResetApp, DropModelState
  <2>2. Flows' /\ token'["load"] = NoTask BY <1>2, <2>1 DEF Loads, Flows, Retire, Kinds
  <2>3. floors'.model = NoModel /\ "model" \in DOMAIN floors' BY <2>1 DEF NoFloors
  <2> QED BY <2>1, <2>2, <2>3 DEF Loads, Loader, FloorsOfActiveModel
<1> QED BY <1>1, <1>3, <1>4, <1>5

LEMMA QueryLoads ==
  ASSUME Loads, NEW t \in Tasks, QueryStep(t)
  PROVE  Loads'
<1>1. /\ task[t].at \notin LoadAwaits /\ UNCHANGED <<activeModel, floors>>
      /\ Moves(t, "group") \/ ChatCleared(t)
  <2> USE DEF LoadAwaits, At, Moves, store, model
  <2>1. CASE StaleResponse(t) \/ QuestionRejected(t) BY <2>1 DEF StaleResponse, QuestionRejected, FailQuestion
  <2>2. CASE \E clears \in BOOLEAN : PlainAnswer(t, clears) BY <2>2 DEF PlainAnswer
  <2>3. CASE \E explained, notice \in BOOLEAN : HighlightAnswer(t, explained, notice)
    BY <2>3 DEF HighlightAnswer
  <2>4. CASE QuestionPainted(t) \/ QuestionUnresolved(t) BY <2>4 DEF QuestionPainted, QuestionUnresolved, FailQuestion
  <2>5. CASE QuestionRendered(t) \/ QuestionFinished(t) BY <2>5 DEF QuestionRendered, QuestionFinished
  <2>6. CASE CardPainted(t) \/ NoGroup(t) \/ GroupFound(t) BY <2>6 DEF CardPainted, NoGroup, GroupFound
  <2>7. CASE GroupPainted(t) \/ GroupRendered(t) \/ ChatCleared(t)
    BY <2>7 DEF GroupPainted, GroupRendered, ChatCleared
  <2> QED BY <2>1, <2>2, <2>3, <2>4, <2>5, <2>6, <2>7 DEF QueryStep
<1>2. token["load"] # t BY <1>1, LoaderElsewhere
<1>3. CASE Moves(t, "group")
  <2>1. Flows' /\ Leaves("load") BY <1>2, <1>3, MovesAlone DEF Loads, Kinds
  <2> QED BY <1>1, <2>1, LoadsElsewhere
<1>4. CASE ChatCleared(t)
  <2>1. Flows' /\ Leaves("load") BY <1>2, <1>4 DEF ChatCleared, Loads, Flows, Retire, Leaves, Kinds
  <2> QED BY <1>1, <2>1, LoadsElsewhere
<1> QED BY <1>1, <1>3, <1>4

LEMMA SelectionLoads ==
  ASSUME Loads, NEW t \in Tasks, SelectionStep(t)
  PROVE  Loads'
<1>1. /\ task[t].at \notin LoadAwaits
      /\ \/ Moves(t, "detail") /\ UNCHANGED <<activeModel, floors>>
         \/ \E guids : OnManualSelectionChange(t, guids)
  BY DEF SelectionStep, PickMissed, PickHit, PickAbandoned, PickIdentified, DetailsArrived, ChipsResolved,
         ChipsUnresolved, LoadAwaits, At, Moves, store, model
<1>2. token["load"] # t BY <1>1, LoaderElsewhere
<1>3. CASE Moves(t, "detail") /\ UNCHANGED <<activeModel, floors>>
  <2>1. Flows' /\ Leaves("load") BY <1>2, <1>3, MovesAlone DEF Loads, Kinds
  <2> QED BY <1>3, <2>1, LoadsElsewhere
<1> QED BY <1>1, <1>2, <1>3, CallbackLoads

LEMMA StartOtherLoads ==
  ASSUME Loads, StartQueryFlow \/ StartSelectionFlow \/ TimerStep
  PROVE  Loads'
<1> USE DEF model, store
<1>1. ASSUME NEW kinds \in SUBSET (Kinds \ {"load"}), token' = Retire(token, kinds) \/ UNCHANGED token,
             UNCHANGED <<task, activeModel, floors>>
      PROVE  Loads'
  BY <1>1, LoadsElsewhere DEF Loads, Flows, Retire, Leaves, Kinds
<1>2. CASE CancelQuery \/ CloseExplanation \/ CloseComponent
  BY <1>1, <1>2 DEF CancelQuery, CloseExplanation, CloseComponent, flows, Kinds
<1>3. ASSUME NEW t \in IdleTasks,
             \/ SubmitQuestion(t) \/ (\E shown \in {"answer", "subgroup"} : ShowOnCard(t, shown))
             \/ ApplyGroupScope(t)
             \/ (\E additive \in BOOLEAN : Pick(t, additive)) \/ TimerFires(t)
      PROVE  Loads'
  <2>1. t \in Tasks /\ token["load"] # t BY LoaderElsewhere DEF IdleTasks
  <2>2. UNCHANGED <<activeModel, floors>>
        /\ (Moves(t, "query") \/ Moves(t, "group") \/ Moves(t, "resolve") \/ UNCHANGED flows)
    BY <1>3 DEF SubmitQuestion, ShowOnCard, ApplyGroupScope, Pick, TimerFires, Moves
  <2>3. Flows' /\ Leaves("load")
    BY <2>1, <2>2, MovesAlone DEF Loads, flows, Flows, Leaves, Kinds
  <2> QED BY <2>2, <2>3, LoadsElsewhere
<1>4. ASSUME NEW t \in IdleTasks, ClearChat(t) PROVE Loads'
  <2>1. t \in Tasks /\ token["load"] # t BY LoaderElsewhere DEF IdleTasks
  <2>2. Flows' /\ Leaves("load") BY <1>4, <2>1 DEF ClearChat, Loads, Flows, Retire, Leaves, Kinds
  <2> QED BY <1>4, <2>2, LoadsElsewhere DEF ClearChat
<1>5. ASSUME NEW t \in IdleTasks, NEW guid, RemoveChip(t, guid) PROVE Loads'
  <2>1. t \in Tasks /\ token["load"] # t BY LoaderElsewhere DEF IdleTasks
  <2> QED BY <1>5, <2>1, CallbackLoads DEF RemoveChip
<1> QED BY <1>2, <1>3, <1>4, <1>5 DEF StartQueryFlow, StartSelectionFlow, TimerStep

LEMMA LoadsKept == Loads /\ [Next]_vars => Loads'
<1> SUFFICES ASSUME Loads, [Next]_vars PROVE Loads' OBVIOUS
<1>1. CASE UNCHANGED vars
  <2>1. Flows' /\ Leaves("load") BY <1>1 DEF vars, flows, Loads, Flows, Leaves
  <2> QED BY <1>1, <2>1, LoadsElsewhere DEF vars, store, model
<1> QED BY <1>1, ModelLoads, QueryLoads, SelectionLoads, StartModelLoads, StartOtherLoads
        DEF Next, UserStep, TaskStep

LEMMA LoadsHold == Spec => []Loads
<1>1. Init => Loads BY DEF Init, Loads, Flows, Loader, FloorsOfActiveModel, NoFloors, Kinds
<1> QED BY <1>1, LoadsKept, PTL DEF Spec

\* loadFloors and selectFloor: with a model active, the floor control never
\* shows the floors of another, whatever loads and resets overlap.
THEOREM FloorsAreOfModel == Spec => []FloorsOfActiveModel
BY LoadsHold, PTL DEF Loads
=============================================================================

--------------------------- MODULE SelectionFlow ---------------------------
(***************************************************************************)
(* Picking objects in the viewer and what follows the selection: the chips *)
(* and their debounced resolution, the component panel and its details.    *)
(*                                                                         *)
(*   pick     raycasting -> [identifying]                                  *)
(*   details  detailing                                                    *)
(*   chips    resolving_chips                                              *)
(***************************************************************************)
EXTENDS AppState

\* What the callback does with the panel: it follows the most recent pick, and
\* closes when nothing is selected.  t is the flow that ends here.
SyncComponentPanel(t, guids) ==
    \/ /\ guids = <<>>
       /\ panel' = NoPanel
       /\ task' = [task EXCEPT ![t] = Idle]
       /\ token' = Retire(Released(t), {"detail", "group"})
    \/ /\ guids # <<>>
       /\ panel.guid = Last(guids) \/ activeModel = NoModel
       /\ End(t)
       /\ UNCHANGED panel
    \/ /\ guids # <<>>
       /\ panel.guid # Last(guids) /\ activeModel # NoModel
       /\ panel' = NewPanel(Last(guids))
       /\ \E d \in IdleTasks \cup {t} :
             /\ task' = [[task EXCEPT ![t] = Idle] EXCEPT
                            ![d] = [at |-> "detailing", model |-> activeModel, guid |-> Last(guids)]]
             /\ token' = [Released(t) EXCEPT !["detail"] = d]

\* Seeded bug: the panel is not told of the change.
OnManualSelectionChangeAlone(t, guids) ==
    /\ viewer' = [viewer EXCEPT !.manual = guids]
    /\ manualGuids' = guids
    /\ resolvedChips' = resolvedChips \cap ToSet(guids)
    /\ resolveTimer' = ToSet(guids) \ resolvedChips
    /\ IF PanelOpen \/ guids = <<>> \/ activeModel = NoModel
       THEN End(t) /\ UNCHANGED panel
       ELSE SyncComponentPanel(t, guids)
    /\ UNCHANGED <<session, chat, card, model, floors, asked>>

\* onManualSelectionChange: chips of deselected objects go, and the resolution
\* of the others is scheduled anew.
OnManualSelectionChange(t, guids) ==
    /\ viewer' = [viewer EXCEPT !.manual = guids]
    /\ manualGuids' = guids
    /\ resolvedChips' = resolvedChips \cap ToSet(guids)
    /\ resolveTimer' = ToSet(guids) \ resolvedChips
    /\ SyncComponentPanel(t, guids)
    /\ UNCHANGED <<session, chat, card, model, floors, asked>>

-----------------------------------------------------------------------------
\* A click in the 3D view.  The overlay of a load in progress lets it through.
Pick(t, additive) ==
    /\ UserDoes("pick")
    /\ viewer.model # NoModel
    /\ Await(t, [at |-> "raycasting", additive |-> additive])
    /\ UNCHANGED <<store, viewer, asked>>

\* The ray hit nothing: the selection is cleared, unless the click was additive.
PickMissed(t) ==
    /\ At(t, "raycasting")
    /\ UNCHANGED opsLeft
    /\ IF task[t].additive \/ viewer.manual = <<>>
       THEN End(t) /\ UNCHANGED <<store, viewer, asked>>
       ELSE OnManualSelectionChange(t, <<>>)

\* The nearest hit; its GlobalId is asked of the model the viewer shows now.
PickHit(t, item) ==
    /\ At(t, "raycasting") /\ viewer.model # NoModel
    /\ Await(t, [at |-> "identifying", additive |-> task[t].additive,
                 guid |-> [model |-> viewer.model, item |-> item]])
    /\ UNCHANGED <<store, viewer, asked, opsLeft>>

\* The viewer's model was unloaded while the click was being processed, and the
\* call on it failed.
PickAbandoned(t) ==
    /\ \/ At(t, "raycasting") /\ viewer.model = NoModel
       \/ At(t, "identifying") /\ viewer.model # task[t].guid.model
    /\ End(t)
    /\ UNCHANGED <<store, viewer, asked, opsLeft>>

\* The selection after a click on guid; an additive click toggles it.
Picked(guid, additive) ==
    IF ~additive THEN <<guid>>
    ELSE IF Contains(viewer.manual, guid) THEN Remove(viewer.manual, guid)
    ELSE Append(viewer.manual, guid)

LimitReached(guid, additive) ==
    additive /\ ~Contains(viewer.manual, guid) /\ Len(viewer.manual) >= MaxSelection

\* The object's GlobalId is known.
PickIdentified(t) ==
    /\ At(t, "identifying")
    /\ UNCHANGED opsLeft
    /\ LET guid == task[t].guid IN
       IF LimitReached(guid, task[t].additive)
       THEN End(t) /\ UNCHANGED <<store, viewer, asked>>
       ELSE OnManualSelectionChange(t, Picked(guid, task[t].additive))

\* removeChip of an object the viewer still has selected; otherwise nothing.
RemoveChip(t, guid) ==
    /\ UserDoes("pick")
    /\ Contains(manualGuids, guid) /\ Contains(viewer.manual, guid)
    /\ OnManualSelectionChange(t, Remove(viewer.manual, guid))

-----------------------------------------------------------------------------
\* Seeded bug: only the model is compared.
DetailOfModel(t) == activeModel = task[t].model

DetailStillCurrent(t) ==
    /\ Current(t, "detail")
    /\ panel.guid = task[t].guid
    /\ activeModel = task[t].model

SetDetails(state, guid) == panel' = [panel EXCEPT !.details = Details(state, guid)]

\* Seeded bug: a failed request leaves the spinner.
DetailsArrivedOrLost(t) ==
    /\ At(t, "detailing")
    /\ \/ UNCHANGED panel
       \/ /\ DetailStillCurrent(t) /\ task[t].guid.model = task[t].model
          /\ SetDetails("loaded", task[t].guid)
    /\ End(t)
    /\ UNCHANGED <<session, chat, card, model, floors, selection, viewer, asked, opsLeft>>

\* entityDetails answers; the backend knows an object in its own model only.
DetailsArrived(t) ==
    /\ At(t, "detailing")
    /\ \/ ~DetailStillCurrent(t) /\ UNCHANGED panel
       \/ DetailStillCurrent(t) /\ SetDetails("failed", NoGuid)
       \/ /\ DetailStillCurrent(t) /\ task[t].guid.model = task[t].model
          /\ SetDetails("loaded", task[t].guid)
    /\ End(t)
    /\ UNCHANGED <<session, chat, card, model, floors, selection, viewer, asked, opsLeft>>

\* The panel's close control.
CloseComponent ==
    /\ UserDoes("panel")
    /\ PanelOpen
    /\ panel' = NoPanel
    /\ token' = Retire(token, {"detail", "group"})
    /\ UNCHANGED <<session, chat, card, model, floors, selection, viewer, task, asked>>

\* The debounce timer fires: resolveSelection up to its request.
TimerFires(t) ==
    /\ resolveTimer # {}
    /\ resolveTimer' = {}
    /\ IF activeModel = NoModel
       THEN UNCHANGED flows
       ELSE Begin(t, [at |-> "resolving_chips", model |-> activeModel, guids |-> resolveTimer],
                  "resolve")
    /\ UNCHANGED <<session, chat, card, model, floors, manualGuids, resolvedChips, panel, viewer,
                   asked, opsLeft>>

\* resolveEntities answers: objects of its model that are still selected.
ChipsResolved(t) ==
    /\ At(t, "resolving_chips")
    /\ resolvedChips' =
          IF Current(t, "resolve") /\ activeModel = task[t].model
          THEN resolvedChips \cup {g \in task[t].guids : g.model = task[t].model /\ Contains(manualGuids, g)}
          ELSE resolvedChips
    /\ End(t)
    /\ UNCHANGED <<session, chat, card, model, floors, manualGuids, resolveTimer, panel, viewer,
                   asked, opsLeft>>

\* The request failed: the chips keep showing raw ids.
ChipsUnresolved(t) ==
    /\ At(t, "resolving_chips")
    /\ End(t)
    /\ UNCHANGED <<store, viewer, asked, opsLeft>>

StartSelectionFlow ==
    \/ CloseComponent
    \/ \E t \in IdleTasks :
        \/ \E additive \in BOOLEAN : Pick(t, additive)
        \/ \E guid \in ToSet(manualGuids) : RemoveChip(t, guid)

SelectionStep(t) ==
    \/ PickMissed(t) \/ (\E item \in Items : PickHit(t, item))
    \/ PickAbandoned(t) \/ PickIdentified(t)
    \/ DetailsArrived(t)
    \/ ChipsResolved(t) \/ ChipsUnresolved(t)
=============================================================================

----------------------------- MODULE ModelFlow -----------------------------
(***************************************************************************)
(* Model loading, the floor-plan control and Reset App: the flows of       *)
(* controller.ts that replace or unload the viewer's model.                *)
(*                                                                         *)
(*   load   clearing -> confirming -> caching -> [fetching ->] unloading   *)
(*          -> disposing -> parsing -> preparing -> contract [-> elevations]*)
(*   reset  clearing -> unloading -> disposing -> finishing                *)
(*   floor  entering | leaving                                             *)
(*                                                                         *)
(* A reset is the load flow of NoModel as far as the viewer's unloadModel  *)
(* is concerned, so the two share those steps.                             *)
(***************************************************************************)
EXTENDS AppState

Busy == {"metadata", "downloading", "initializing"}

Load(label, m) == [at |-> label, model |-> m]
To(t, label) == Await(t, Load(label, task[t].model))

LeavePlan(v) == [v EXCEPT !.plan = NoBand]
ClearRoles(v) == [v EXCEPT !.roles = NoRoles]

\* viewer.clearManualSelection and the callback it fires when something was
\* selected: an empty selection stops the resolve timer.
ClearManualSelection(v) == [v EXCEPT !.manual = <<>>]
TimerAfterClear == IF viewer.manual = <<>> THEN resolveTimer ELSE {}

\* What a model switch and Reset App retire: floors, selection, card, panel and
\* query highlight.
DropModelState ==
    /\ manualGuids' = <<>>
    /\ resolvedChips' = {}
    /\ resolveTimer' = TimerAfterClear
    /\ floors' = NoFloors
    /\ card' = NoCard
    /\ panel' = NoPanel
    /\ viewer' = ClearRoles(ClearManualSelection(LeavePlan(viewer)))

\* confirmAndLoadModel up to the await of clearQueryRoles.  The selector offers
\* another model at any time, candidates and Retry offer any model when no load
\* is shown.
ConfirmAndLoadModel(t, m) ==
    /\ UserDoes("load")
    /\ m # activeModel \/ loadPhase \notin Busy
    /\ activeModel' = m
    /\ loadPhase' = "metadata"
    /\ DropModelState
    /\ task' = [task EXCEPT ![t] = Load("clearing", m)]
    /\ token' = [Retire(token, {"floor", "detail", "group"}) EXCEPT !["load"] = t]
    /\ UNCHANGED <<session, chat, asked>>

\* The highlight is cleared; the backend session is told about the model.  A
\* superseded flow finds its signal aborted.
LoadConfirming(t) ==
    /\ At(t, "clearing") /\ task[t].model # NoModel
    /\ IF Current(t, "load") THEN To(t, "confirming") ELSE End(t)
    /\ UNCHANGED <<store, viewer, asked, opsLeft>>

\* The backend confirmed; the IndexedDB cache is read.
LoadCaching(t) ==
    /\ At(t, "confirming")
    /\ IF Current(t, "load") THEN To(t, "caching") ELSE End(t)
    /\ UNCHANGED <<store, viewer, asked, opsLeft>>

\* viewer.loadModel starts: the previous model's plan is closed.
StartViewerLoad(t) ==
    /\ loadPhase' = "initializing"
    /\ viewer' = LeavePlan(viewer)
    /\ To(t, "unloading")

\* getCachedArtifact answered: a hit goes on with the cached bytes ("cached" is
\* shown for no longer than this step), a miss downloads the artifact.
LoadCached(t) ==
    /\ At(t, "caching")
    /\ \/ ~Current(t, "load") /\ End(t) /\ UNCHANGED <<loadPhase, viewer>>
       \/ Current(t, "load") /\ StartViewerLoad(t)
       \/ Current(t, "load") /\ loadPhase' = "downloading" /\ To(t, "fetching") /\ UNCHANGED viewer
    /\ UNCHANGED <<session, chat, card, activeModel, floors, selection, panel, asked, opsLeft>>

LoadFetched(t) ==
    /\ At(t, "fetching")
    /\ IF Current(t, "load")
       THEN StartViewerLoad(t)
       ELSE End(t) /\ UNCHANGED <<loadPhase, viewer>>
    /\ UNCHANGED <<session, chat, card, activeModel, floors, selection, panel, asked, opsLeft>>

\* unloadModel after exitPlanMode: adapter state is reset without a selection
\* callback, then the previous model's fragments are disposed of.
Unload(t) ==
    /\ At(t, "unloading")
    /\ viewer' = [ClearRoles(viewer) EXCEPT !.manual = <<>>, !.bands = NoModel]
    /\ To(t, "disposing")
    /\ UNCHANGED <<store, asked, opsLeft>>

Dispose(t) ==
    /\ At(t, "disposing")
    /\ viewer' = [viewer EXCEPT !.model = NoModel]
    /\ To(t, IF task[t].model = NoModel THEN "finishing" ELSE "parsing")
    /\ UNCHANGED <<store, asked, opsLeft>>

\* core.load returned: whichever load comes last owns the viewer, current or not.
Parse(t) ==
    /\ At(t, "parsing")
    /\ viewer' = [viewer EXCEPT !.model = task[t].model]
    /\ To(t, "preparing")
    /\ UNCHANGED <<store, asked, opsLeft>>

\* loadModel returned: the model is ready and its floors are requested.
Ready(t) ==
    /\ At(t, "preparing")
    /\ IF Current(t, "load")
       THEN /\ loadPhase' = "ready"
            /\ floors' = [NoFloors EXCEPT !.model = task[t].model, !.loading = TRUE]
            /\ Begin(t, Load("contract", task[t].model), "floor")
       ELSE End(t) /\ UNCHANGED <<loadPhase, floors>>
    /\ UNCHANGED <<session, chat, card, activeModel, selection, panel, viewer, asked, opsLeft>>

\* A rejected request, a failed parse or a failed preparation: the error is
\* shown unless the load has been superseded.
LoadFailed(t) ==
    /\ \E label \in {"confirming", "fetching", "parsing", "preparing"} : At(t, label)
    /\ loadPhase' = IF Current(t, "load") THEN "error" ELSE loadPhase
    /\ End(t)
    /\ UNCHANGED <<session, chat, card, activeModel, floors, selection, panel, viewer, asked, opsLeft>>

-----------------------------------------------------------------------------
\* Seeded bug: any model being active is enough.
FloorsOfAnyModel(t) == task[t].model # NoModel /\ activeModel # NoModel

FloorsStillCurrent(t) == Current(t, "floor") /\ activeModel = task[t].model

\* setFloorOptions: a contract replaces everything the control showed.
FloorOptions(m, enabled, available) ==
    [model |-> m, loading |-> FALSE, available |-> available, enabled |-> enabled, band |-> NoBand]

\* The floor request failed, or the model has no floors: no control.
NoFloorContract(t) ==
    /\ At(t, "contract")
    /\ floors' = IF FloorsStillCurrent(t) THEN FloorOptions(task[t].model, {}, FALSE) ELSE floors
    /\ End(t)
    /\ UNCHANGED <<session, chat, card, model, selection, panel, viewer, asked, opsLeft>>

\* The contract arrived.  Storey elevations are read from the artifact, unless
\* the viewer has none: then every floor is shown disabled.
FloorContract(t) ==
    /\ At(t, "contract")
    /\ \/ ~FloorsStillCurrent(t) /\ End(t) /\ UNCHANGED <<floors, viewer>>
       \/ /\ FloorsStillCurrent(t) /\ viewer.model = NoModel
          /\ viewer' = [viewer EXCEPT !.bands = NoModel]
          /\ floors' = FloorOptions(task[t].model, {}, TRUE)
          /\ End(t)
       \/ /\ FloorsStillCurrent(t) /\ viewer.model # NoModel
          /\ viewer' = [viewer EXCEPT !.bands = NoModel]
          /\ To(t, "elevations")
          /\ UNCHANGED floors
    /\ UNCHANGED <<session, chat, card, model, selection, panel, asked, opsLeft>>

\* setFloorContract returns: the adapter's bands are replaced in any case, the
\* control only for the current request.
FloorElevations(t) ==
    /\ At(t, "elevations")
    /\ viewer' = [viewer EXCEPT !.bands = task[t].model]
    /\ \/ ~FloorsStillCurrent(t) /\ UNCHANGED floors
       \/ /\ FloorsStillCurrent(t)
          /\ \E enabled \in {Bands, {}} : floors' = FloorOptions(task[t].model, enabled, TRUE)
    /\ End(t)
    /\ UNCHANGED <<session, chat, card, model, selection, panel, asked, opsLeft>>

FloorControlShown == loadPhase = "ready" /\ floors.available

Disable(b) == floors' = [floors EXCEPT !.enabled = @ \ {b}]

\* selectFloor(b) up to the first await of enterPlanMode, or its refusal.
SelectFloor(t, b) ==
    /\ UserDoes("floor")
    /\ FloorControlShown /\ b \in floors.enabled
    /\ \/ /\ viewer.model # NoModel /\ viewer.bands # NoModel
          /\ viewer' = [viewer EXCEPT !.plan = b]
          /\ Await(t, [at |-> "entering", band |-> b])
          /\ UNCHANGED floors
       \/ /\ viewer.model = NoModel \/ viewer.bands = NoModel
          /\ Disable(b)
          /\ UNCHANGED <<viewer, flows>>
    /\ UNCHANGED <<session, chat, card, model, selection, panel, asked>>

\* createFromPlane threw: the previous plan has been closed already.
PlanNotOpened(b) ==
    /\ UserDoes("floor")
    /\ FloorControlShown /\ b \in floors.enabled
    /\ viewer.model # NoModel /\ viewer.bands # NoModel
    /\ viewer' = LeavePlan(viewer)
    /\ Disable(b)
    /\ UNCHANGED <<session, chat, card, model, selection, panel, flows, asked>>

PlanEntered(t) ==
    /\ At(t, "entering")
    /\ floors' = [floors EXCEPT !.band = task[t].band]
    /\ End(t)
    /\ UNCHANGED <<session, chat, card, model, selection, panel, viewer, asked, opsLeft>>

\* selectFloor(null): exitPlanMode only waits when a plan was open.
Select3D(t) ==
    /\ UserDoes("floor")
    /\ FloorControlShown
    /\ viewer' = LeavePlan(viewer)
    /\ \/ viewer.plan # NoBand /\ Await(t, [at |-> "leaving"]) /\ UNCHANGED floors
       \/ viewer.plan = NoBand /\ floors' = [floors EXCEPT !.band = NoBand] /\ UNCHANGED flows
    /\ UNCHANGED <<session, chat, card, model, selection, panel, asked>>

PlanLeft(t) ==
    /\ At(t, "leaving")
    /\ floors' = [floors EXCEPT !.band = NoBand]
    /\ End(t)
    /\ UNCHANGED <<session, chat, card, model, selection, panel, viewer, asked, opsLeft>>

-----------------------------------------------------------------------------
\* resetApp up to the await of clearQueryRoles.
ResetApp(t) ==
    /\ UserDoes("reset")
    /\ messages' = {}
    /\ pending' = FALSE
    /\ retryQuestion' = 0
    /\ DropModelState
    /\ task' = [task EXCEPT ![t] = Load("clearing", NoModel)]
    /\ token' = Retire(token, {"query", "load", "floor", "detail", "group"})
    /\ UNCHANGED <<session, model, asked>>

ResetUnloading(t) ==
    /\ At(t, "clearing") /\ task[t].model = NoModel
    /\ viewer' = LeavePlan(viewer)
    /\ To(t, "unloading")
    /\ UNCHANGED <<store, asked, opsLeft>>

\* Seeded bug: the load that was interrupted keeps its phase.
ResetFinishedMidLoad(t) ==
    /\ At(t, "finishing")
    /\ activeModel' = NoModel
    /\ session' = session + 1
    /\ End(t)
    /\ UNCHANGED <<chat, card, loadPhase, floors, selection, panel, viewer, asked, opsLeft>>

\* The visualization mode is back to Standard: the store becomes the initial one.
ResetFinished(t) ==
    /\ At(t, "finishing")
    /\ activeModel' = NoModel
    /\ loadPhase' = "idle"
    /\ session' = session + 1
    /\ End(t)
    /\ UNCHANGED <<chat, card, floors, selection, panel, viewer, asked, opsLeft>>

StartModelFlow ==
    \E t \in IdleTasks :
        \/ \E m \in Models : ConfirmAndLoadModel(t, m)
        \/ \E b \in Bands : SelectFloor(t, b) \/ PlanNotOpened(b)
        \/ Select3D(t)
        \/ ResetApp(t)

ModelStep(t) ==
    \/ LoadConfirming(t) \/ LoadCaching(t) \/ LoadCached(t) \/ LoadFetched(t)
    \/ Unload(t) \/ Dispose(t) \/ Parse(t) \/ Ready(t) \/ LoadFailed(t)
    \/ NoFloorContract(t) \/ FloorContract(t) \/ FloorElevations(t)
    \/ PlanEntered(t) \/ PlanLeft(t)
    \/ ResetUnloading(t) \/ ResetFinished(t)
=============================================================================

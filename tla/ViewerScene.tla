---------------------------- MODULE ViewerScene ----------------------------
(***************************************************************************)
(* ViewerAdapter.ts with a model loaded: the colours of the faces, the     *)
(* edge overlay, the projected-size policy and the floor plan.  Operations *)
(* are asynchronous: what runs between two awaits is one step, and a call  *)
(* on the Fragments model takes effect, in the order of the calls, when it *)
(* is made; a colouring call or a cut may fail instead.  An operation in   *)
(* progress is a task.                                                     *)
(***************************************************************************)
EXTENDS Integers, Sequences, FiniteSetsExt

CONSTANTS Objects,
          Element,      \* object -> [category, predefined, declared, boxed]
          Tasks,        \* bound: operations in progress at once
          Distances,    \* camera distances
          Modes, Angle, \* visualization modes and their feature-edge angle
          Below, Above, \* [mode, distance]: smaller than enterPx, larger than exitPx
          Answers,      \* primary sets an answer may have
          Picks,        \* manual selections
          Buildings,    \* [floors, height, lowest, policy]; policy: prepare() succeeded
          MaxOps        \* bound: operations of a behaviour

ASSUME SceneConstants ==
  /\ Answers \cup Picks \subseteq SUBSET Objects /\ MaxOps \in Nat
  /\ \A b \in Buildings : Len(b.floors) \in Nat /\ DOMAIN b.floors = 1 .. Len(b.floors)

-----------------------------------------------------------------------------
(***************************************************************************)
(* floorPlan.ts: the horizontal range a floor plan shows.  A band is a     *)
(* logical floor of the backend's contract, a set of storeys, placed at    *)
(* the heights the artifact gives them in scene space.                     *)
(***************************************************************************)
CONSTANTS None,        \* null: no range, no section
          CutOffset,   \* PLAN.cutOffsetM
          Tolerance    \* planeTolerance: the least step between two planes
ASSUME RangeConstants == CutOffset \in Nat \ {0} /\ Tolerance \in Nat \ {0}

\* The contract gives the floors in ascending order (model_floors); a storey has
\* the height None if the artifact does not say it.
ASSUME FloorsAscend ==
  \A b \in Buildings :
    /\ b.lowest \in Int
    /\ \A i \in DOMAIN b.floors :
         /\ IsFiniteSet(b.floors[i])
         /\ \A s \in b.floors[i] : b.height[s] = None \/ b.height[s] \in Int
         /\ \A j \in DOMAIN b.floors : i < j =>
              \A s \in b.floors[i], t \in b.floors[j] :
                None \notin {b.height[s], b.height[t]} => b.height[s] < b.height[t]

\* setFloorContract: every storey of a band must have a height.
Placed(floors, height) ==
  [i \in DOMAIN floors |->
     LET ys == {height[s] : s \in floors[i]}
         resolved == ys # {} /\ None \notin ys
     IN [resolved |-> resolved, min |-> IF resolved THEN Min(ys) ELSE 0,
         max |-> IF resolved THEN Max(ys) ELSE 0]]

Resolved(bands, i) == i \in DOMAIN bands /\ bands[i].resolved

\* Seeded bug: the cut is not lowered under the next band.
CutNominal(bands, i) == bands[i].max + CutOffset

\* The cut is a fixed height above the floor, lowered under the next band.
Cut(bands, i) ==
  LET nominal == bands[i].max + CutOffset
      ceiling == bands[i + 1].min - Tolerance
  IN IF Resolved(bands, i + 1) /\ ceiling < nominal THEN ceiling ELSE nominal

\* The lower boundary is midway to the band below, or the model's lowest point.
TwiceLower(bands, i, lowest) ==
  IF Resolved(bands, i - 1) THEN bands[i - 1].max + bands[i].min ELSE 2 * lowest

\* resolvePlanRange: None when no truthful range exists.  The planes are in half
\* units of the heights, in which the midpoint of two heights is an integer.
RangeOf(bands, i, lowest) ==
  IF ~Resolved(bands, i) THEN None
  ELSE LET r == [cut |-> 2 * Cut(bands, i), lower |-> TwiceLower(bands, i, lowest)]
       IN IF r.cut <= 2 * bands[i].max \/ r.lower >= r.cut THEN None ELSE r
Available(bands, i, lowest) == RangeOf(bands, i, lowest) # None

-----------------------------------------------------------------------------
(***************************************************************************)
(* What is read of an object once, when its model is loaded: its base      *)
(* colour (viewerTheme.ts, classifyGeometry) and whether it may be hidden  *)
(* when it looks small (ProjectedSizePolicy.ts).                           *)
(***************************************************************************)
\* category: "wall" | "roof" | "slab" | "conditional" (door, window, column) | "other"
\* declared: what the property sets say, in order, under the one name that matters
\* boxed: the artifact has geometry, of a finite size, for the object

GeometryRole(e) ==
  IF e.category = "roof" \/ (e.category = "slab" /\ e.predefined = "ROOF") THEN "roof"
  ELSE IF e.category = "wall" THEN "wall" ELSE "other"
Of(role) == {o \in Objects : GeometryRole(Element[o]) = role}
Walls == Of("wall")
Roofs == Of("roof")
BaseRole(o) == GeometryRole(Element[o])

\* Only an explicit boolean counts, and only the first property of that name.
ExplicitlyTrue(e) == e.declared # <<>> /\ Head(e.declared) = "true"
Retained(e) ==
  \/ e.category \in {"wall", "roof", "slab"}
  \/ e.category = "conditional" /\ ExplicitlyTrue(e)
Small == {o \in Objects : ~Retained(Element[o]) /\ Element[o].boxed}

-----------------------------------------------------------------------------
VARIABLES
  building,
  primary, manual,      \* queryPrimarySet (rolesActive: not empty), manual
  unpainted,            \* history: a repaint has failed and none has been completed since
  distance, mode,
  face,                 \* colour each object is painted with
  hidden, visible,      \* hiddenState of the policy; what setVisible made visible
  suspended,            \* sizePolicySuspended
  overlay,              \* the edge overlay: [n, angle, built, role, marks]
  mounted,              \* overlays whose lines are in the scene
  plan,                 \* [band, range, view]: planBandIndex, planRange, planView
  planToken,
  section,              \* the mounted cut layers of a plan
  grid,                 \* basePlane.visible
  unopened,             \* history: the last plan asked for could not be opened
  task, opsLeft

roles == <<primary, manual, unpainted>>
size == <<hidden, visible, suspended>>
edges == <<overlay, mounted>>
floor == <<plan, planToken, section, grid, unopened>>
vars == <<building, roles, distance, mode, face, size, edges, floor, task, opsLeft>>

Bands == Placed(building.floors, building.height)
RolesActive == primary # {}
NoPlan == [band |-> 0, range |-> None, view |-> 0]
Idle == [at |-> "idle"]
Colours == {"none", "other", "wall", "roof", "dim", "primary", "unfocused", "manual"}

\* edgeRoleOf
EdgeRole(o) ==
  CASE o \in hidden -> "hidden"
    [] o \notin hidden /\ RolesActive /\ o \in primary ->
         IF manual \cap primary = {} \/ o \in manual THEN "primary" ELSE "unfocused"
    [] o \notin hidden /\ RolesActive /\ o \notin primary -> "dim"
    [] o \notin hidden /\ ~RolesActive -> IF o \in manual THEN "manual" ELSE BaseRole(o)

Edgeless == [o \in Objects |-> "none"]
Init ==
  /\ building \in Buildings
  /\ primary = {} /\ manual = {} /\ unpainted = FALSE
  /\ distance \in Distances /\ mode \in Modes
  /\ face = [o \in Objects |-> BaseRole(o)]
  /\ hidden = {} /\ visible = Objects /\ suspended = FALSE
  /\ overlay = [n |-> 1, angle |-> Angle[mode], built |-> FALSE, role |-> Edgeless, marks |-> {}]
  /\ mounted = {}
  /\ plan = NoPlan /\ planToken = 0 /\ section = None /\ grid = TRUE /\ unopened = FALSE
  /\ task = [t \in Tasks |-> Idle] /\ opsLeft = MaxOps

-----------------------------------------------------------------------------
At(t, label) == task[t].at = label
Goto(t, to) == task' = [task EXCEPT ![t] = to]
Op(t) == task[t] = Idle /\ opsLeft > 0 /\ opsLeft' = opsLeft - 1

Paint(set, colour) == face' = [o \in Objects |-> IF o \in set THEN colour ELSE face[o]]

\* recolorEdges, EdgeOverlay.recolor: only roles that changed are rewritten, and
\* the overlay of highlighted entities gains and loses those that changed.
Marked == {"primary", "unfocused", "manual"}
Recoloured(v) ==
  IF ~v.built THEN v
  ELSE LET changed == {o \in Objects : v.role[o] # EdgeRole(o)}
           lit == {o \in changed : EdgeRole(o) \in Marked}
       IN [v EXCEPT !.role = [o \in Objects |-> EdgeRole(o)], !.marks = (@ \ changed) \cup lit]
Recolour == overlay' = Recoloured(overlay)

-----------------------------------------------------------------------------
\* applyProjectedSizePolicy: evaluate decides and remembers at once; hiding is
\* asked for at once, showing after the hiding has returned.
Exempt == primary \cup manual
\* Seeded bug: highlighted objects are not exempt.
ToHideAnyone == {o \in Small \ hidden : o \in Below[mode'][distance']}
ToHide == {o \in Small \ (hidden \cup Exempt) : o \in Below[mode'][distance']}
ToShow == {o \in hidden : o \in Exempt \/ o \in Above[mode'][distance']}
Perspective == plan'.view = 0
Applies == building.policy /\ ~suspended' /\ Perspective /\ (ToHide # {} \/ ToShow # {})

Evaluate(t, then) ==
  IF Applies
  THEN /\ hidden' = (hidden \cup ToHide) \ ToShow
       /\ visible' = IF ToHide # {} THEN visible \ ToHide ELSE visible \cup ToShow
       /\ Goto(t, [at |-> "sizing", show |-> IF ToHide # {} THEN ToShow ELSE {}, then |-> then])
  ELSE /\ UNCHANGED <<hidden, visible>>
       /\ Goto(t, then)

Sizing(t) ==
  /\ At(t, "sizing")
  /\ IF task[t].show # {}
     THEN /\ visible' = visible \cup task[t].show
          /\ Goto(t, [task[t] EXCEPT !.show = {}])
          /\ UNCHANGED overlay
     ELSE /\ Recolour
          /\ Goto(t, task[t].then)
          /\ UNCHANGED visible
  /\ UNCHANGED <<building, roles, distance, mode, face, hidden, suspended, mounted, floor, opsLeft>>

-----------------------------------------------------------------------------
\* renderHighlights: the colours are reset and painted class by class.
Repaint(t) == Paint(Objects, "none") /\ Goto(t, [at |-> "reset"])

PaintAll(t) ==
  /\ At(t, "reset")
  /\ IF RolesActive THEN Paint(Objects, "dim") /\ Goto(t, [at |-> "dimmed"])
     ELSE Paint(Objects, "other") /\ Goto(t, [at |-> "based"])
  /\ UNCHANGED <<building, roles, distance, mode, size, edges, floor, opsLeft>>

\* applyBaseColors, then the manual picks.
PaintWalls(t) ==
  /\ At(t, "based")
  /\ Paint(Walls, "wall") /\ Goto(t, [at |-> "walled"])
  /\ UNCHANGED <<building, roles, distance, mode, size, edges, floor, opsLeft>>
PaintRoofs(t) ==
  /\ At(t, "walled")
  /\ Paint(Roofs, "roof") /\ Goto(t, [at |-> "roofed"])
  /\ UNCHANGED <<building, roles, distance, mode, size, edges, floor, opsLeft>>
PaintManual(t) ==
  /\ At(t, "roofed")
  /\ Paint(manual, "manual") /\ Goto(t, [at |-> "painted"])
  /\ UNCHANGED <<building, roles, distance, mode, size, edges, floor, opsLeft>>

\* paintPrimaries
PaintPrimaries(t) ==
  /\ At(t, "dimmed")
  /\ LET focused == manual \cap primary
         others == primary \ focused
     IN IF focused = {} THEN Paint(primary, "primary") /\ Goto(t, [at |-> "painted"])
        ELSE IF others = {} THEN Paint(focused, "primary") /\ Goto(t, [at |-> "painted"])
        ELSE Paint(others, "unfocused") /\ Goto(t, [at |-> "focusing", focused |-> focused])
  /\ UNCHANGED <<building, roles, distance, mode, size, edges, floor, opsLeft>>
PaintFocused(t) ==
  /\ At(t, "focusing")
  /\ Paint(task[t].focused, "primary") /\ Goto(t, [at |-> "painted"])
  /\ UNCHANGED <<building, roles, distance, mode, size, edges, floor, opsLeft>>

\* Edges follow, hidden objects that are now exempt appear, and the cut of an
\* open plan is made again.
Painted(t) ==
  /\ At(t, "painted")
  /\ unpainted' = FALSE
  /\ UNCHANGED <<building, primary, manual, distance, mode, face, suspended, mounted, floor, opsLeft>>
  /\ Recolour
  /\ Evaluate(t, [at |-> "refresh"])

\* The call that renderHighlights waits for fails.  The failure is swallowed
\* with everything that was to follow.
Repainting == {"reset", "dimmed", "based", "walled", "roofed", "focusing", "painted"}
RepaintFails(t) ==
  /\ task[t].at \in Repainting
  /\ unpainted' = TRUE
  /\ Goto(t, Idle)
  /\ UNCHANGED <<building, primary, manual, distance, mode, face, size, edges, floor, opsLeft>>

-----------------------------------------------------------------------------
\* buildPlanSection: up to three layers, each awaited; split is read when the
\* first is asked for, and the primaries when they are needed.
Split == [walls |-> Walls \ primary,
          others |-> IF Walls = {} THEN Objects ELSE Objects \ (Walls \cup primary)]
Build(tok) == [at |-> "base", token |-> tok, band |-> plan'.band, split |-> Split, blue |-> {}]
\* Seeded bug: a result of an earlier cut is mounted too.
FreshAlways(t) == task[t].token <= planToken
Fresh(t) == task[t].token = planToken

Mount(t, blue) ==
  /\ section' = [band |-> task[t].band, split |-> task[t].split, blue |-> blue]
  /\ Goto(t, Idle)

\* refreshPlanSection
Refresh(t) ==
  /\ At(t, "refresh")
  /\ IF plan.view = 0 \/ plan.band = 0
     THEN Goto(t, Idle) /\ UNCHANGED <<planToken, section, plan>>
     ELSE /\ planToken' = planToken + 1
          /\ section' = None /\ UNCHANGED plan
          /\ Goto(t, Build(planToken + 1))
  /\ UNCHANGED <<building, roles, distance, mode, face, size, edges, grid, unopened, opsLeft>>

AskPrimaries(t) ==
  IF RolesActive
  THEN Goto(t, [task[t] EXCEPT !.at = "blue", !.blue = primary]) /\ UNCHANGED section
  ELSE Mount(t, {})

\* The layer of other objects has come; the layer of the walls is asked for.
BaseLayer(t) ==
  /\ At(t, "base")
  /\ IF ~Fresh(t) THEN Goto(t, Idle) /\ UNCHANGED section
     ELSE IF task[t].split.walls # {} THEN Goto(t, [task[t] EXCEPT !.at = "cut"]) /\ UNCHANGED section
     ELSE AskPrimaries(t)
  /\ UNCHANGED <<building, roles, distance, mode, face, size, edges, plan, planToken, grid, unopened, opsLeft>>
WallLayer(t) ==
  /\ At(t, "cut")
  /\ IF Fresh(t) THEN AskPrimaries(t) ELSE Goto(t, Idle) /\ UNCHANGED section
  /\ UNCHANGED <<building, roles, distance, mode, face, size, edges, plan, planToken, grid, unopened, opsLeft>>
PrimaryLayer(t) ==
  /\ At(t, "blue")
  /\ IF Fresh(t) THEN Mount(t, task[t].blue) ELSE Goto(t, Idle) /\ UNCHANGED section
  /\ UNCHANGED <<building, roles, distance, mode, face, size, edges, plan, planToken, grid, unopened, opsLeft>>
\* getSection threw.
SectionFails(t) ==
  /\ task[t].at \in {"base", "cut", "blue"}
  /\ Goto(t, Idle)
  /\ UNCHANGED <<building, roles, distance, mode, face, size, edges, floor, opsLeft>>

-----------------------------------------------------------------------------
\* enterPlanMode: the old view is closed before the new one is opened.
Enter(t, b) ==
  /\ Op(t)
  /\ Available(Bands, b, building.lowest)
  /\ planToken' = planToken + 1 /\ section' = None
  /\ plan' = [band |-> b, range |-> RangeOf(Bands, b, building.lowest), view |-> planToken + 1]
  /\ grid' = FALSE /\ unopened' = FALSE
  /\ suspended' = TRUE
  /\ hidden' = IF suspended THEN hidden ELSE {}
  /\ visible' = IF suspended THEN visible ELSE visible \cup hidden
  /\ Goto(t, [at |-> "restored", token |-> planToken + 1, shown |-> ~suspended /\ hidden # {}])
  /\ UNCHANGED <<building, roles, distance, mode, face, edges>>

EnterFails(t, b) ==
  /\ Op(t)
  /\ Available(Bands, b, building.lowest)
  /\ planToken' = planToken + 1 /\ section' = None
  /\ plan' = NoPlan /\ unopened' = TRUE
  /\ UNCHANGED <<building, roles, distance, mode, face, size, edges, grid, task>>

\* suspendSizePolicy has returned: the plan is fitted and then cut.
Restored(t) ==
  /\ At(t, "restored")
  /\ UNCHANGED <<building, roles, distance, mode, face, size, mounted, floor, opsLeft>>
  /\ IF task[t].shown THEN Recolour ELSE UNCHANGED overlay
  /\ Goto(t, [task[t] EXCEPT !.at = "fitted"])
\* this.planView may be gone: then the operation ends with a TypeError.
Fitted(t) ==
  /\ At(t, "fitted")
  /\ UNCHANGED <<building, roles, distance, mode, face, size, edges, floor, opsLeft>>
  /\ IF plan.view = 0 THEN Goto(t, Idle) ELSE Goto(t, Build(task[t].token))

\* Seeded bug: whether a plan was open is asked after it was closed.
ExitAskedLate(t) ==
  /\ Op(t)
  /\ planToken' = planToken + 1 /\ section' = None /\ plan' = NoPlan
  /\ UNCHANGED <<building, roles, distance, mode, face, edges, grid, unopened, size, task>>

\* exitPlanMode
Exit(t) ==
  /\ Op(t)
  /\ planToken' = planToken + 1 /\ section' = None /\ plan' = NoPlan
  /\ UNCHANGED <<building, roles, distance, mode, face, edges, unopened>>
  /\ IF plan.band = 0 /\ plan.view = 0
     THEN UNCHANGED <<grid, size, task>>
     ELSE /\ grid' = TRUE
          /\ suspended' = FALSE
          /\ IF suspended THEN Evaluate(t, Idle) ELSE UNCHANGED <<hidden, visible, task>>

-----------------------------------------------------------------------------
\* applyQueryRoles (the GlobalIds are resolved) and clearQueryRoles.
ApplyRoles(t, set) ==
  /\ Op(t) /\ set # primary
  /\ primary' = set
  /\ Repaint(t)
  /\ UNCHANGED <<building, manual, unpainted, distance, mode, size, edges, floor>>

\* handlePick, removeManualSelection, clearManualSelection
Select(t, set) ==
  /\ Op(t) /\ set # manual
  /\ manual' = set
  /\ Repaint(t)
  /\ UNCHANGED <<building, primary, unpainted, distance, mode, size, edges, floor>>

\* The camera comes to rest, or the canvas is resized.
Rest(t) ==
  /\ Op(t) /\ plan.view = 0
  /\ distance' \in Distances
  /\ UNCHANGED <<building, roles, mode, face, suspended, edges, floor>>
  /\ Evaluate(t, Idle)

\* setVisualizationMode, rebuildEdgeOverlay
SetMode(t, m) ==
  /\ Op(t) /\ m # mode
  /\ mode' = m
  /\ UNCHANGED <<building, roles, distance, face, suspended, edges, floor>>
  /\ Evaluate(t, [at |-> "moded"])
\* Seeded bug: the old overlay is replaced and not disposed of.
ModedUndisposed(t) ==
  /\ At(t, "moded")
  /\ IF overlay.angle # Angle[mode]
     THEN /\ overlay' = [n |-> overlay.n + 1, angle |-> Angle[mode], built |-> FALSE,
                         role |-> Edgeless, marks |-> {}]
          /\ UNCHANGED mounted
     ELSE UNCHANGED edges
  /\ Goto(t, Idle)
  /\ UNCHANGED <<building, roles, distance, mode, face, size, floor, opsLeft>>

Moded(t) ==
  /\ At(t, "moded")
  /\ IF overlay.angle # Angle[mode]
     THEN /\ overlay' = [n |-> overlay.n + 1, angle |-> Angle[mode], built |-> FALSE,
                         role |-> Edgeless, marks |-> {}]
          /\ mounted' = mounted \ {overlay.n}
     ELSE UNCHANGED edges
  /\ Goto(t, Idle)
  /\ UNCHANGED <<building, roles, distance, mode, face, size, floor, opsLeft>>

\* EdgeOverlay.build has finished: an overlay that was replaced mounts nothing.
EdgesBuilt ==
  /\ ~overlay.built
  /\ UNCHANGED <<building, roles, distance, mode, face, size, floor, task, opsLeft>>
  /\ overlay' = Recoloured([overlay EXCEPT !.built = TRUE])
  /\ mounted' = mounted \cup {overlay.n}

Next ==
  \/ EdgesBuilt
  \/ \E t \in Tasks :
       \/ Sizing(t) \/ PaintAll(t) \/ PaintWalls(t) \/ PaintRoofs(t) \/ PaintManual(t)
       \/ PaintPrimaries(t) \/ PaintFocused(t) \/ Painted(t) \/ RepaintFails(t)
       \/ Refresh(t) \/ BaseLayer(t) \/ WallLayer(t) \/ PrimaryLayer(t) \/ SectionFails(t)
       \/ Restored(t) \/ Fitted(t) \/ Moded(t) \/ Exit(t) \/ Rest(t)
       \/ \E b \in DOMAIN Bands : Enter(t, b) \/ EnterFails(t, b)
       \/ \E set \in Answers \cup {{}} : ApplyRoles(t, set)
       \/ \E set \in Picks : Select(t, set)
       \/ \E m \in Modes : SetMode(t, m)

Spec == Init /\ [][Next]_vars

-----------------------------------------------------------------------------
Quiet == \A t \in Tasks : task[t] = Idle

\* ProjectedSizePolicy must never drop what the answer or the user points at,
\* and a plan lacks nothing (ViewerAdapter.ts:1768, 1799): once the operations
\* have ended every such object is visible, however they overlapped, unless the
\* repaint that would have shown it failed and none was completed since.
HighlightedVisible ==
  Quiet => /\ unpainted \/ Exempt \subseteq visible
           /\ plan.view # 0 => visible = Objects
           /\ Objects \ hidden \subseteq visible

\* The cut that is mounted is that of the open floor, an older result never
\* replaces a newer one (:149), and at rest it shows the roles there are now,
\* unless the repaint that would have cut the plan again failed.
SectionShowsRoles ==
  section # None =>
    /\ plan.view # 0 /\ section.band = plan.band
    /\ Quiet /\ ~unpainted =>
         /\ section.blue = primary
         /\ section.split.walls \cap primary = {}
         /\ Walls # {} => section.split.walls \cup section.split.others = Objects \ primary

\* Without a plan, the grid is back and the size policy runs, unless the plan
\* that was asked for last could not be opened: the early return of
\* exitPlanMode then leaves both as they are (ViewerAdapter.ts:1395, 1435).
ThreeDRestored == Quiet /\ plan.view = 0 /\ ~unopened => grid /\ ~suspended

\* Edges always follow the roles, at the angle of the mode, in one overlay; only
\* a repaint that failed leaves them behind until another is completed.
EdgesFollow ==
  /\ mounted = IF overlay.built THEN {overlay.n} ELSE {}
  /\ Quiet => overlay.angle = Angle[mode]
  /\ Quiet /\ overlay.built /\ ~unpainted =>
       /\ \A o \in Objects : overlay.role[o] = EdgeRole(o)
       /\ overlay.marks = {o \in Objects : EdgeRole(o) \in Marked}

\* An open plan cuts above its own floor; it goes down to that floor if the
\* floor under it is resolved or the model reaches as far down, and it shows no
\* other resolved floor unless the next one to it is unresolved (floorPlan.ts).
PlanShowsItsFloor ==
  plan.view # 0 =>
    LET bands == Bands
        b == plan.band
    IN /\ 2 * bands[b].max < plan.range.cut
       /\ Resolved(bands, b - 1) \/ building.lowest <= bands[b].min => plan.range.lower <= 2 * bands[b].min
       /\ \A i \in DOMAIN bands \ {b} :
            bands[i].resolved /\ (i < b => bands[b - 1].resolved) /\ (i > b => bands[b + 1].resolved) =>
              2 * bands[i].max < plan.range.lower \/ 2 * bands[i].min > plan.range.cut

\* "Edges always follow the entity's current face color" (ViewerAdapter.ts:2112):
\* at rest a face has the colour its role asks for.
Expected(o) ==
  IF RolesActive THEN IF o \notin primary THEN "dim"
                      ELSE IF manual \cap primary = {} \/ o \in manual THEN "primary" ELSE "unfocused"
  ELSE IF o \in manual THEN "manual" ELSE BaseRole(o)
FacesFollowRoles == Quiet => \A o \in Objects : face[o] = Expected(o)
=============================================================================

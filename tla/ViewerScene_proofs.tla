------------------------- MODULE ViewerScene_proofs -------------------------
(***************************************************************************)
(* What holds of the viewer at rest, for any objects, floors and number of *)
(* overlapping operations.  At rest everything follows the roles; while    *)
(* something does not, an operation is in progress that will see to it.    *)
(***************************************************************************)
EXTENDS ViewerScene, FiniteSetTheorems, WellFoundedInduction, TLAPS

Cutting == {"base", "cut", "blue"}
Afterwards == {Idle, [at |-> "refresh"], [at |-> "moded"]}

\* What an operation waiting in the state s carries.
Shape(s, tokens) ==
  /\ s.at = "sizing" => /\ {"at", "show", "then"} \subseteq DOMAIN s
                        /\ s.show \subseteq Objects /\ s.then \in Afterwards
  /\ s.at \in {"restored", "fitted"} => {"at", "token"} \subseteq DOMAIN s /\ s.token \in tokens
  /\ s.at \in Cutting => /\ {"at", "token", "band", "split", "blue"} \subseteq DOMAIN s
                         /\ s.token \in tokens

\* A plan that is open has a floor and suspends the size policy.
PlanMode ==
  /\ building \in Buildings
  /\ planToken \in Nat
  /\ plan.view # 0 => suspended /\ plan.band # 0
  /\ plan.view = 0 /\ ~unopened => grid /\ ~suspended

Basics == /\ task = [t \in Tasks |-> task[t]]
          /\ \A t \in Tasks : Shape(task[t], 0 .. planToken)
          /\ PlanMode

LEMMA EvaluateGoes ==
  ASSUME NEW t \in Tasks, NEW then, Evaluate(t, then), hidden \subseteq Objects
  PROVE  \E show \in SUBSET Objects :
           Goto(t, then) \/ Goto(t, [at |-> "sizing", show |-> show, then |-> then])
BY DEF Evaluate, ToShow

LEMMA ShapeMoves ==
  ASSUME Basics, NEW t \in Tasks, NEW s, Goto(t, s), planToken' \in Nat, planToken <= planToken',
         Shape(s, 0 .. planToken')
  PROVE  /\ task' = [u \in Tasks |-> task'[u]]
         /\ task'[t] = s /\ \A u \in Tasks \ {t} : task'[u] = task[u]
         /\ \A u \in Tasks : Shape(task'[u], 0 .. planToken')
<1>1. /\ task' = [u \in Tasks |-> task'[u]]
      /\ task'[t] = s /\ \A u \in Tasks \ {t} : task'[u] = task[u]
  BY DEF Basics, Goto
<1>2. 0 .. planToken \subseteq 0 .. planToken' BY DEF Basics, PlanMode
<1>3. \A u \in Tasks \ {t} : Shape(task'[u], 0 .. planToken') BY <1>1, <1>2 DEF Basics, Shape
<1> QED BY <1>1, <1>3

\* A step that leaves the floor plan alone.
LEMMA BasicsMove ==
  ASSUME Basics, NEW t \in Tasks, NEW s, Goto(t, s), Shape(s, 0 .. planToken),
         UNCHANGED <<building, suspended, floor>>
  PROVE  Basics'
<1>1. planToken' = planToken BY DEF floor
<1>2. \A u \in Tasks : Shape(task'[u], 0 .. planToken') BY <1>1, ShapeMoves DEF Basics, PlanMode
<1>3. task' = [u \in Tasks |-> task'[u]] BY <1>1, ShapeMoves DEF Basics, PlanMode
<1> QED BY <1>2, <1>3 DEF Basics, PlanMode, floor

LEMMA BasicsEvaluate ==
  ASSUME Basics, hidden \subseteq Objects, NEW t \in Tasks, NEW then \in Afterwards, Evaluate(t, then),
         UNCHANGED <<building, suspended, floor>>
  PROVE  Basics'
<1>1. Shape(then, 0 .. planToken) BY DEF Afterwards, Shape, Idle, Cutting
<1>2. \A show \in SUBSET Objects : Shape([at |-> "sizing", show |-> show, then |-> then], 0 .. planToken)
  BY DEF Shape, Cutting
<1> QED BY <1>1, <1>2, EvaluateGoes, BasicsMove

\* What a step of an operation does to its own task and to the floor plan.
LEMMA BasicsTask ==
  ASSUME Basics, hidden \subseteq Objects, NEW t \in Tasks,
         \/ Sizing(t) \/ PaintAll(t) \/ PaintWalls(t) \/ PaintRoofs(t) \/ PaintManual(t)
         \/ PaintPrimaries(t) \/ PaintFocused(t) \/ Painted(t) \/ RepaintFails(t) \/ SectionFails(t)
         \/ Restored(t) \/ Fitted(t) \/ Moded(t)
  PROVE  Basics'
<1>0. /\ Shape(Idle, 0 .. planToken)
      /\ \A l \in Repainting \cup {"moded"} : Shape([at |-> l], 0 .. planToken)
      /\ \A f : Shape([at |-> "focusing", focused |-> f], 0 .. planToken)
  BY DEF Shape, Idle, Repainting, Cutting
<1>1. CASE Sizing(t)
  <2>1. Shape(task[t], 0 .. planToken) /\ task[t].at = "sizing" BY <1>1 DEF Basics, Sizing, At
  <2>2. CASE task[t].show # {}
    <3> DEFINE s == [task[t] EXCEPT !.show = {}]
    <3>1. Shape(s, 0 .. planToken) BY <2>1 DEF Shape, Cutting
    <3> QED BY <1>1, <2>2, <3>1, BasicsMove DEF Sizing
  <2>3. CASE task[t].show = {}
    <3>1. Shape(task[t].then, 0 .. planToken) BY <2>1 DEF Shape, Afterwards, Idle, Cutting
    <3> QED BY <1>1, <2>3, <3>1, BasicsMove DEF Sizing
  <2> QED BY <2>2, <2>3
<1>2. CASE PaintAll(t) \/ PaintWalls(t) \/ PaintRoofs(t) \/ PaintManual(t) \/ PaintPrimaries(t) \/ PaintFocused(t)
  <2>1. /\ UNCHANGED <<building, suspended, floor>>
        /\ \/ \E l \in Repainting : Goto(t, [at |-> l])
           \/ \E f : Goto(t, [at |-> "focusing", focused |-> f])
    BY <1>2 DEF PaintAll, PaintWalls, PaintRoofs, PaintManual, PaintPrimaries, PaintFocused, Repainting, size
  <2> QED BY <1>0, <2>1, BasicsMove
<1>3. CASE Painted(t) BY <1>3, BasicsEvaluate DEF Painted, Afterwards
<1>4. CASE SectionFails(t) \/ RepaintFails(t) BY <1>0, <1>4, BasicsMove DEF SectionFails, RepaintFails, size
<1>5. CASE Restored(t)
  <2> DEFINE s == [task[t] EXCEPT !.at = "fitted"]
  <2>1. Shape(task[t], 0 .. planToken) /\ task[t].at = "restored" BY <1>5 DEF Basics, Restored, At
  <2>2. Shape(s, 0 .. planToken) BY <2>1 DEF Shape, Cutting
  <2> QED BY <1>5, <2>2, BasicsMove DEF Restored, size
<1>6. CASE Fitted(t)
  <2>1. Shape(task[t], 0 .. planToken) /\ task[t].at = "fitted" BY <1>6 DEF Basics, Fitted, At
  <2>2. Shape(Build(task[t].token), 0 .. planToken) BY <2>1 DEF Shape, Cutting, Build
  <2> QED BY <1>0, <1>6, <2>2, BasicsMove DEF Fitted, size
<1>7. CASE Moded(t) BY <1>0, <1>7, BasicsMove DEF Moded, size
<1> QED BY <1>1, <1>2, <1>3, <1>4, <1>5, <1>6, <1>7

LEMMA BasicsSection ==
  ASSUME Basics, NEW t \in Tasks, Refresh(t) \/ BaseLayer(t) \/ WallLayer(t) \/ PrimaryLayer(t)
  PROVE  Basics'
<1>0. Shape(Idle, 0 .. planToken) /\ planToken \in Nat BY DEF Shape, Idle, Cutting, Basics, PlanMode
<1>1. ASSUME NEW s, Goto(t, s), Shape(s, 0 .. planToken'), planToken' \in {planToken, planToken + 1},
             UNCHANGED <<building, suspended, plan, grid, unopened>>
      PROVE  Basics'
  <2>1. planToken' \in Nat /\ planToken <= planToken' BY <1>0, <1>1
  <2> QED BY <1>1, <2>1, ShapeMoves DEF Basics, PlanMode
<1>2. CASE Refresh(t)
  <2>1. Shape(Build(planToken + 1), 0 .. planToken + 1) BY <1>0 DEF Shape, Cutting, Build
  <2> QED BY <1>0, <1>1, <1>2, <2>1 DEF Refresh, size
<1>3. ASSUME task[t].at \in Cutting, NEW l \in Cutting
      PROVE  /\ Shape([task[t] EXCEPT !.at = l], 0 .. planToken)
             /\ Shape([task[t] EXCEPT !.at = l, !.blue = primary], 0 .. planToken)
  BY <1>3 DEF Basics, Shape, Cutting
<1>4. CASE BaseLayer(t) BY <1>0, <1>1, <1>3, <1>4 DEF BaseLayer, At, AskPrimaries, Mount, Cutting, size
<1>5. CASE WallLayer(t) BY <1>0, <1>1, <1>3, <1>5 DEF WallLayer, At, AskPrimaries, Mount, Cutting, size
<1>6. CASE PrimaryLayer(t) BY <1>0, <1>1, <1>6 DEF PrimaryLayer, Mount, size
<1> QED BY <1>2, <1>4, <1>5, <1>6

LEMMA BasicsUser ==
  ASSUME Basics, hidden \subseteq Objects, NEW t \in Tasks,
         \/ Exit(t) \/ Rest(t)
         \/ \E b \in DOMAIN Bands : Enter(t, b) \/ EnterFails(t, b)
         \/ \E set \in Answers \cup {{}} : ApplyRoles(t, set)
         \/ \E set \in Picks : Select(t, set)
         \/ \E m \in Modes : SetMode(t, m)
  PROVE  Basics'
<1>0. /\ Shape(Idle, 0 .. planToken + 1) /\ Shape([at |-> "reset"], 0 .. planToken) /\ planToken \in Nat
      /\ \A show \in SUBSET Objects : Shape([at |-> "sizing", show |-> show, then |-> Idle], 0 .. planToken + 1)
  BY DEF Shape, Idle, Cutting, Basics, PlanMode, Afterwards
<1>1. planToken + 1 \in Nat /\ planToken <= planToken + 1 /\ planToken + 1 # 0 BY <1>0
<1>2. ASSUME UNCHANGED task, planToken' = planToken + 1
      PROVE  task' = [u \in Tasks |-> task'[u]] /\ \A u \in Tasks : Shape(task'[u], 0 .. planToken')
  <2>1. 0 .. planToken \subseteq 0 .. planToken' BY <1>0, <1>2
  <2> QED BY <1>2, <2>1 DEF Basics, Shape
<1>3. CASE Exit(t)
  <2>1. planToken' = planToken + 1 /\ plan' = NoPlan /\ UNCHANGED <<building, unopened>> BY <1>3 DEF Exit
  <2>2. UNCHANGED task \/ \E s : Goto(t, s) /\ Shape(s, 0 .. planToken')
    BY <1>0, <1>3, <2>1, EvaluateGoes DEF Exit
  <2>3. task' = [u \in Tasks |-> task'[u]] /\ \A u \in Tasks : Shape(task'[u], 0 .. planToken')
    BY <1>1, <1>2, <2>1, <2>2, ShapeMoves
  <2>4. \/ plan.band = 0 /\ plan.view = 0 /\ UNCHANGED <<grid, suspended>>
        \/ grid' = TRUE /\ suspended' = FALSE
    BY <1>3 DEF Exit, size
  <2>5. plan'.view = 0 BY <2>1 DEF NoPlan
  <2> QED BY <1>1, <2>1, <2>3, <2>4, <2>5 DEF Basics, PlanMode
<1>4. CASE Rest(t) BY <1>4, BasicsEvaluate DEF Rest, Afterwards
<1>5. CASE \E m \in Modes : SetMode(t, m) BY <1>5, BasicsEvaluate DEF SetMode, Afterwards
<1>6. CASE (\E set \in Answers \cup {{}} : ApplyRoles(t, set)) \/ \E set \in Picks : Select(t, set)
  BY <1>0, <1>6, BasicsMove DEF ApplyRoles, Select, Repaint, size
<1>7. ASSUME NEW b \in DOMAIN Bands, Enter(t, b) PROVE Basics'
  <2> DEFINE s == [at |-> "restored", token |-> planToken + 1, shown |-> ~suspended /\ hidden # {}]
  <2>1. /\ planToken' = planToken + 1 /\ plan'.view = planToken + 1 /\ plan'.band = b /\ suspended'
        /\ building' = building /\ Goto(t, s)
    BY <1>7 DEF Enter
  <2>2. Shape(s, 0 .. planToken') BY <1>0, <2>1 DEF Shape, Cutting
  <2>3. b # 0 BY SceneConstants DEF Bands, Placed, Basics, PlanMode
  <2> HIDE DEF s
  <2> QED BY <1>1, <2>1, <2>2, <2>3, ShapeMoves DEF Basics, PlanMode
<1>8. ASSUME NEW b \in DOMAIN Bands, EnterFails(t, b) PROVE Basics'
  <2>1. /\ planToken' = planToken + 1 /\ plan' = NoPlan /\ unopened' = TRUE /\ UNCHANGED <<task, building>>
    BY <1>8 DEF EnterFails
  <2>2. plan'.view = 0 BY <2>1 DEF NoPlan
  <2> QED BY <1>1, <1>2, <2>1, <2>2 DEF Basics, PlanMode
<1> QED BY <1>3, <1>4, <1>5, <1>6, <1>7, <1>8

LEMMA BasicsKept == Basics /\ hidden \subseteq Objects /\ [Next]_vars => Basics'
<1> SUFFICES ASSUME Basics, hidden \subseteq Objects, [Next]_vars PROVE Basics' OBVIOUS
<1>1. CASE EdgesBuilt \/ UNCHANGED vars
  BY <1>1 DEF EdgesBuilt, vars, size, floor, Basics, PlanMode, Shape
<1> QED BY <1>1, BasicsTask, BasicsSection, BasicsUser DEF Next

LEMMA BasicsInit == Init => Basics
BY DEF Init, Basics, PlanMode, Shape, Idle, NoPlan, Cutting

-----------------------------------------------------------------------------
(***************************************************************************)
(* Visibility.  What the policy does not hide is visible or about to be    *)
(* shown; an exempt object is only hidden while a repaint is under way, or *)
(* after one that failed.                                                  *)
(***************************************************************************)
Showing(o) == \E t \in Tasks : task[t].at = "sizing" /\ o \in task[t].show
Repaints == unpainted \/ \E t \in Tasks : task[t].at \in Repainting

Hides == /\ hidden \subseteq Objects /\ visible \subseteq Objects /\ Exempt \subseteq Objects
         /\ suspended \/ ~building.policy => hidden = {}
         /\ \A o \in Objects \ hidden : o \in visible \/ Showing(o)
         /\ hidden \cap Exempt = {} \/ Repaints

\* A step of a flow that shows nothing and was not the last to repaint.
LEMMA HidesMove ==
  ASSUME Basics, Hides, NEW t \in Tasks, NEW s, Goto(t, s) \/ UNCHANGED task,
         UNCHANGED <<building, suspended, hidden, visible>>,
         task[t].at = "sizing" => task[t].show = {},
         task[t].at \in Repainting /\ Goto(t, s) => s.at \in Repainting,
         UNCHANGED roles \/ (Goto(t, s) /\ s.at \in Repainting /\ Exempt' \subseteq Objects)
  PROVE  Hides'
<1>1. UNCHANGED task \/ (task'[t] = s /\ Goto(t, s)) BY DEF Basics, Goto
<1>2. \A u \in Tasks \ {t} : task'[u] = task[u] BY DEF Basics, Goto
<1>3. \A o : Showing(o) => Showing(o)' BY <1>1, <1>2 DEF Showing
<1>4. UNCHANGED roles => (Repaints => Repaints') BY <1>1, <1>2 DEF Repaints, roles
<1>5. hidden' \cap Exempt' = {} \/ Repaints'
  <2>1. CASE UNCHANGED roles BY <1>4, <2>1 DEF Hides, Exempt, roles
  <2>2. CASE Goto(t, s) /\ s.at \in Repainting BY <2>2 DEF Repaints, Basics, Goto
  <2> QED BY <2>1, <2>2
<1>6. Exempt' \subseteq Objects BY DEF Hides, Exempt, roles
<1> QED BY <1>3, <1>5, <1>6 DEF Hides

LEMMA HidesEvaluate ==
  ASSUME Basics, Hides, NEW t \in Tasks, NEW then, Evaluate(t, then), task[t].at # "sizing",
         UNCHANGED <<building, primary, manual>>, suspended' \in {FALSE, suspended}, plan'.view # 0 => suspended'
  PROVE  Hides'
<1>1. \A u \in Tasks \ {t} : task'[u] = task[u] BY DEF Basics, Goto, Evaluate
<1>2. \A o : Showing(o) => Showing(o)' BY <1>1 DEF Showing
<1>3. ToHide \subseteq Objects \ Exempt /\ ToShow \subseteq hidden /\ hidden \cap Exempt \subseteq ToShow
  BY DEF ToHide, ToShow, Small
<1>4. Exempt' = Exempt BY DEF Exempt
<1>5. CASE Applies
  <2>1. /\ hidden' = (hidden \cup ToHide) \ ToShow
        /\ visible' = IF ToHide # {} THEN visible \ ToHide ELSE visible \cup ToShow
        /\ Goto(t, [at |-> "sizing", show |-> IF ToHide # {} THEN ToShow ELSE {}, then |-> then])
    BY <1>5 DEF Evaluate
  <2>2. /\ task'[t].at = "sizing"
        /\ task'[t].show = IF ToHide # {} THEN ToShow ELSE {}
    BY <2>1 DEF Basics, Goto
  <2> HIDE DEF ToHide, ToShow
  <2>3. /\ hidden' \subseteq Objects /\ visible' \subseteq Objects /\ hidden' \cap Exempt' = {}
        /\ Exempt' \subseteq Objects
    BY <1>3, <1>4, <2>1 DEF Hides
  <2>4. ~suspended' /\ building'.policy BY <1>5 DEF Applies
  <2>5. ASSUME NEW o \in Objects \ hidden' PROVE o \in visible' \/ Showing(o)'
    <3>1. CASE o \in ToShow
      <4>1. CASE ToHide # {} BY <2>2, <3>1, <4>1 DEF Showing
      <4>2. CASE ToHide = {} BY <2>1, <3>1, <4>2
      <4> QED BY <4>1, <4>2
    <3>2. CASE o \notin ToShow
      <4>1. o \notin hidden \cup ToHide BY <2>1, <2>5, <3>2
      <4>2. o \in visible \/ Showing(o) BY <2>5, <4>1 DEF Hides
      <4> QED BY <1>2, <2>1, <4>1, <4>2
    <3> QED BY <3>1, <3>2
  <2> QED BY <2>3, <2>4, <2>5 DEF Hides
<1>6. CASE ~Applies
  <2>1. UNCHANGED <<hidden, visible>> BY <1>6 DEF Evaluate
  <2>2. suspended' => suspended OBVIOUS
  <2>3. CASE building.policy /\ ~suspended'
    <3>1. ToShow = {} BY <1>6, <2>3 DEF Applies, Perspective
    <3> HIDE DEF ToShow
    <3> QED BY <1>2, <1>3, <1>4, <2>1, <2>3, <3>1 DEF Hides
  <2>4. CASE ~building.policy \/ suspended'
    <3>1. hidden = {} BY <2>2, <2>4 DEF Hides
    <3> QED BY <1>2, <1>4, <2>1, <3>1 DEF Hides
  <2> QED BY <2>3, <2>4
<1> QED BY <1>5, <1>6

LEMMA HidesTask ==
  ASSUME Basics, Hides, NEW t \in Tasks,
         \/ PaintAll(t) \/ PaintWalls(t) \/ PaintRoofs(t) \/ PaintManual(t)
         \/ PaintPrimaries(t) \/ PaintFocused(t) \/ SectionFails(t)
         \/ Refresh(t) \/ BaseLayer(t) \/ WallLayer(t) \/ PrimaryLayer(t)
         \/ Restored(t) \/ Fitted(t) \/ Moded(t)
  PROVE  Hides'
<1>1. CASE PaintAll(t) \/ PaintWalls(t) \/ PaintRoofs(t) \/ PaintManual(t) \/ PaintPrimaries(t) \/ PaintFocused(t)
  <2>1. /\ \E s : Goto(t, s) /\ s.at \in Repainting
        /\ task[t].at # "sizing" /\ UNCHANGED <<building, roles, suspended, hidden, visible>>
    BY <1>1 DEF PaintAll, PaintWalls, PaintRoofs, PaintManual, PaintPrimaries, PaintFocused, Repainting, size, At
  <2> QED BY <2>1, HidesMove
<1>2. CASE SectionFails(t) \/ Refresh(t) \/ BaseLayer(t) \/ WallLayer(t) \/ PrimaryLayer(t)
           \/ Restored(t) \/ Fitted(t) \/ Moded(t)
  <2>1. /\ \E s : Goto(t, s)
        /\ task[t].at \notin Repainting \cup {"sizing"} /\ UNCHANGED <<building, roles, suspended, hidden, visible>>
    BY <1>2 DEF SectionFails, Refresh, BaseLayer, WallLayer, PrimaryLayer, AskPrimaries, Mount, Restored, Fitted,
                Moded, Repainting, size, At
  <2> QED BY <2>1, HidesMove
<1> QED BY <1>1, <1>2

LEMMA HidesSizing ==
  ASSUME Basics, Hides, NEW t \in Tasks, Sizing(t)
  PROVE  Hides'
<1>0. task[t].at = "sizing" /\ Shape(task[t], 0 .. planToken) BY DEF Sizing, At, Basics
<1>1. CASE task[t].show = {}
  <2>1. /\ Goto(t, task[t].then) /\ UNCHANGED <<building, roles, suspended, hidden, visible>>
        /\ task[t].at \notin Repainting
    BY <1>0, <1>1 DEF Sizing, Repainting
  <2> QED BY <1>1, <2>1, HidesMove
<1>2. CASE task[t].show # {}
  <2>1. /\ visible' = visible \cup task[t].show /\ Goto(t, [task[t] EXCEPT !.show = {}])
        /\ UNCHANGED <<building, roles, suspended, hidden>>
    BY <1>2 DEF Sizing
  <2>2. \A u \in Tasks \ {t} : task'[u] = task[u] BY <2>1 DEF Basics, Goto
  <2>3. \A o : Showing(o) => Showing(o)' \/ o \in task[t].show BY <2>2 DEF Showing
  <2>4. Repaints => Repaints' BY <1>0, <2>1, <2>2 DEF Repaints, Repainting, roles
  <2>5. visible' \subseteq Objects BY <1>0, <2>1 DEF Shape, Hides
  <2> QED BY <2>1, <2>3, <2>4, <2>5 DEF Hides, Exempt, roles
<1> QED BY <1>1, <1>2

LEMMA HidesPlan ==
  ASSUME Basics, Hides, NEW t \in Tasks, Exit(t) \/ \E b \in DOMAIN Bands : Enter(t, b) \/ EnterFails(t, b)
  PROVE  Hides'
<1>1. CASE Exit(t)
  <2>1. /\ UNCHANGED <<building, roles>> /\ UNCHANGED <<primary, manual>> /\ plan' = NoPlan /\ task[t] = Idle
    BY <1>1 DEF Exit, Op, roles
  <2>2. task[t].at = "idle" /\ plan'.view = 0 BY <2>1 DEF Idle, NoPlan
  <2>3. CASE Evaluate(t, Idle) /\ suspended' = FALSE BY <2>1, <2>2, <2>3, HidesEvaluate
  <2>4. CASE UNCHANGED <<hidden, visible, task>> /\ suspended' \in {FALSE, suspended}
    <3>1. suspended' => suspended BY <2>4
    <3>2. \A o : Showing(o) => Showing(o)' BY <2>4 DEF Showing
    <3>3. Repaints => Repaints' BY <2>1, <2>4 DEF Repaints, roles
    <3> QED BY <2>1, <2>4, <3>1, <3>2, <3>3 DEF Hides, Exempt, roles
  <2> QED BY <1>1, <2>3, <2>4 DEF Exit, size
<1>2. ASSUME NEW b \in DOMAIN Bands, Enter(t, b) PROVE Hides'
  <2>1. /\ hidden' = (IF suspended THEN hidden ELSE {}) /\ visible' = (IF suspended THEN visible ELSE visible \cup hidden)
        /\ UNCHANGED <<building, roles>> /\ task[t] = Idle
        /\ \E s : Goto(t, s)
    BY <1>2 DEF Enter, Op
  <2>2. hidden' = {} /\ visible' = visible \cup hidden BY <2>1 DEF Hides
  <2>3. \A u \in Tasks \ {t} : task'[u] = task[u] BY <2>1 DEF Basics, Goto
  <2>4. \A o : Showing(o) => Showing(o)' BY <2>1, <2>3 DEF Showing, Idle
  <2>5. Exempt' = Exempt BY <2>1 DEF Exempt, roles
  <2> QED BY <2>1, <2>2, <2>4, <2>5 DEF Hides
<1>3. ASSUME NEW b \in DOMAIN Bands, EnterFails(t, b) PROVE Hides'
  BY <1>3 DEF EnterFails, size, roles, Hides, Showing, Repaints, Exempt
<1> QED BY <1>1, <1>2, <1>3

LEMMA HidesUser ==
  ASSUME Basics, Hides, NEW t \in Tasks,
         \/ Painted(t) \/ RepaintFails(t) \/ Rest(t)
         \/ \E set \in Answers \cup {{}} : ApplyRoles(t, set)
         \/ \E set \in Picks : Select(t, set)
         \/ \E m \in Modes : SetMode(t, m)
  PROVE  Hides'
<1>1. CASE Painted(t) \/ Rest(t) \/ \E m \in Modes : SetMode(t, m)
  <2>1. /\ \E then : Evaluate(t, then)
        /\ UNCHANGED <<building, primary, manual, suspended, plan>> /\ task[t].at # "sizing"
    BY <1>1 DEF Painted, Rest, SetMode, floor, roles, At, Op, Idle
  <2> QED BY <2>1, HidesEvaluate DEF Basics, PlanMode
<1>2. CASE (\E set \in Answers \cup {{}} : ApplyRoles(t, set)) \/ \E set \in Picks : Select(t, set)
  <2>1. /\ Goto(t, [at |-> "reset"]) /\ task[t].at # "sizing"
        /\ UNCHANGED <<building, suspended, hidden, visible>>
    BY <1>2 DEF ApplyRoles, Select, Repaint, Op, Idle, size
  <2>2. [at |-> "reset"].at \in Repainting /\ Exempt' \subseteq Objects
    BY <1>2, SceneConstants DEF Repainting, ApplyRoles, Select, Hides, Exempt
  <2> QED BY <2>1, <2>2, HidesMove
<1>3. CASE RepaintFails(t)
  <2>1. /\ unpainted' /\ Goto(t, Idle) /\ task[t].at # "sizing"
        /\ UNCHANGED <<building, primary, manual, suspended, hidden, visible>>
    BY <1>3 DEF RepaintFails, Repainting, size
  <2>2. \A u \in Tasks \ {t} : task'[u] = task[u] BY <2>1 DEF Basics, Goto
  <2>3. \A o : Showing(o) => Showing(o)' BY <2>1, <2>2 DEF Showing
  <2> QED BY <2>1, <2>3 DEF Hides, Exempt, Repaints
<1> QED BY <1>1, <1>2, <1>3

LEMMA HidesKept == Basics /\ Hides /\ [Next]_vars => Hides'
<1> SUFFICES ASSUME Basics, Hides, [Next]_vars PROVE Hides' OBVIOUS
<1>1. CASE EdgesBuilt \/ UNCHANGED vars
  BY <1>1 DEF EdgesBuilt, vars, size, roles, Hides, Showing, Repaints, Exempt
<1> QED BY <1>1, HidesTask, HidesSizing, HidesPlan, HidesUser DEF Next

LEMMA HidesHold == Spec => [](Basics /\ Hides)
<1>1. Init => Basics /\ Hides BY BasicsInit DEF Init, Hides, Exempt
<1>2. Basics /\ Hides /\ [Next]_vars => (Basics /\ Hides)' BY BasicsKept, HidesKept DEF Hides
<1> QED BY <1>1, <1>2, PTL DEF Spec

\* applyProjectedSizePolicy: at rest every object of the answer and of the
\* selection is visible unless a repaint failed, and a plan lacks nothing.
THEOREM HighlightsAreVisible == Spec => []HighlightedVisible
<1>1. Basics /\ Hides => HighlightedVisible
  <2> SUFFICES ASSUME Basics, Hides, Quiet PROVE HighlightedVisible BY DEF HighlightedVisible
  <2>1. (unpainted \/ ~Repaints) /\ \A o : ~Showing(o) BY DEF Quiet, Repaints, Repainting, Showing, Idle
  <2>2. Objects \ hidden \subseteq visible /\ (unpainted \/ hidden \cap Exempt = {}) BY <2>1 DEF Hides
  <2>3. plan.view # 0 => visible = Objects BY <2>2 DEF Hides, Basics, PlanMode
  <2>4. unpainted \/ Exempt \subseteq visible BY <2>2 DEF Hides
  <2> QED BY <2>2, <2>3, <2>4 DEF HighlightedVisible
<1> QED BY <1>1, HidesHold, PTL

\* exitPlanMode: at rest without a plan the grid and the size policy are back.
THEOREM ThreeDIsRestored == Spec => []ThreeDRestored
<1>1. Basics => ThreeDRestored BY DEF Basics, PlanMode, ThreeDRestored
<1> QED BY <1>1, HidesHold, PTL

-----------------------------------------------------------------------------
(***************************************************************************)
(* Edges.  An overlay that is built shows the roles, or an operation that  *)
(* recolours it is under way; its angle is that of the mode, or the mode   *)
(* is just being changed.                                                  *)
(***************************************************************************)
Recolours(s) == s.at \in Repainting \cup {"sizing"} \/ (s.at = "restored" /\ s.shown)
Remodes(s) == s.at = "moded" \/ (s.at = "sizing" /\ s.then.at = "moded")
RolesOfEdges(v) == \A o \in Objects : v.role[o] = EdgeRole(o)

Edges ==
  /\ {"n", "angle", "built", "role", "marks"} \subseteq DOMAIN overlay
  /\ overlay.role = [o \in Objects |-> overlay.role[o]]
  /\ overlay.marks = {o \in Objects : overlay.role[o] \in Marked}
  /\ mounted = IF overlay.built THEN {overlay.n} ELSE {}
  /\ overlay.angle = Angle[mode] \/ \E t \in Tasks : Remodes(task[t])
  /\ overlay.built => RolesOfEdges(overlay) \/ unpainted \/ \E t \in Tasks : Recolours(task[t])

\* What recolorEdges makes of an overlay.
LEMMA RecolouredEdges ==
  ASSUME NEW v, {"n", "angle", "built", "role", "marks"} \subseteq DOMAIN v,
         v.role = [o \in Objects |-> v.role[o]], v.marks = {o \in Objects : v.role[o] \in Marked}
  PROVE  LET w == Recoloured(v) IN
         /\ {"n", "angle", "built", "role", "marks"} \subseteq DOMAIN w
         /\ w.n = v.n /\ w.angle = v.angle /\ w.built = v.built
         /\ w.role = [o \in Objects |-> w.role[o]]
         /\ w.marks = {o \in Objects : w.role[o] \in Marked}
         /\ v.built => RolesOfEdges(w)
<1>1. CASE ~v.built BY <1>1 DEF Recoloured
<1>2. CASE v.built
  <2> DEFINE changed == {o \in Objects : v.role[o] # EdgeRole(o)}
             lit == {o \in changed : EdgeRole(o) \in Marked}
             w == [v EXCEPT !.role = [o \in Objects |-> EdgeRole(o)], !.marks = (@ \ changed) \cup lit]
  <2>1. Recoloured(v) = w BY <1>2 DEF Recoloured
  <2>2. /\ {"n", "angle", "built", "role", "marks"} \subseteq DOMAIN w
        /\ w.n = v.n /\ w.angle = v.angle /\ w.built = v.built
        /\ w.role = [o \in Objects |-> EdgeRole(o)] /\ w.marks = (v.marks \ changed) \cup lit
    OBVIOUS
  <2>3. w.marks = {o \in Objects : EdgeRole(o) \in Marked} BY <2>2
  <2> HIDE DEF w
  <2>4. RolesOfEdges(w) BY <2>2 DEF RolesOfEdges
  <2> QED BY <2>1, <2>2, <2>3, <2>4
<1> QED BY <1>1, <1>2

LEMMA SameRoles == UNCHANGED <<hidden, primary, manual>> => \A o : EdgeRole(o)' = EdgeRole(o)
BY DEF EdgeRole, RolesActive

\* A step that leaves the overlay alone.
LEMMA EdgesMove ==
  ASSUME Basics, Edges, NEW t \in Tasks, NEW s, Goto(t, s), UNCHANGED edges,
         \/ Recolours(s)
         \/ UNCHANGED <<hidden, primary, manual>> /\ (unpainted' \/ (UNCHANGED unpainted /\ ~Recolours(task[t]))),
         Remodes(s) \/ (UNCHANGED mode /\ ~Remodes(task[t]))
  PROVE  Edges'
<1>1. task'[t] = s /\ \A u \in Tasks \ {t} : task'[u] = task[u] BY DEF Basics, Goto
<1>2. overlay'.angle = Angle[mode'] \/ \E u \in Tasks : Remodes(task'[u])
  BY <1>1 DEF Edges, edges
<1>3. overlay'.built => RolesOfEdges(overlay)' \/ unpainted' \/ \E u \in Tasks : Recolours(task'[u])
  BY <1>1, SameRoles DEF Edges, edges, RolesOfEdges
<1> QED BY <1>2, <1>3 DEF Edges, edges, Marked

\* A step that recolours, and perhaps asks the size policy afterwards.
LEMMA EdgesRecolour ==
  ASSUME Basics, Edges, NEW t \in Tasks, NEW s, Goto(t, s), Recolour, UNCHANGED <<mounted, mode, primary, manual>>,
         Recolours(s) \/ UNCHANGED hidden,
         Remodes(s) \/ ~Remodes(task[t])
  PROVE  Edges'
<1>1. task'[t] = s /\ \A u \in Tasks \ {t} : task'[u] = task[u] BY DEF Basics, Goto
<1>2. /\ {"n", "angle", "built", "role", "marks"} \subseteq DOMAIN overlay'
      /\ overlay'.n = overlay.n /\ overlay'.angle = overlay.angle /\ overlay'.built = overlay.built
      /\ overlay'.role = [o \in Objects |-> overlay'.role[o]]
      /\ overlay'.marks = {o \in Objects : overlay'.role[o] \in Marked}
      /\ overlay.built => RolesOfEdges(overlay')
  BY RecolouredEdges DEF Recolour, Edges
<1>3. overlay'.angle = Angle[mode'] \/ \E u \in Tasks : Remodes(task'[u])
  BY <1>1, <1>2 DEF Edges
<1>4. UNCHANGED hidden => (overlay'.built => RolesOfEdges(overlay)')
  BY <1>2, SameRoles DEF RolesOfEdges
<1>5. overlay'.built => RolesOfEdges(overlay)' \/ unpainted' \/ \E u \in Tasks : Recolours(task'[u])
  BY <1>1, <1>4
<1>6. mounted' = IF overlay'.built THEN {overlay'.n} ELSE {} BY <1>2 DEF Edges
<1> QED BY <1>2, <1>3, <1>5, <1>6 DEF Edges, Marked

LEMMA EvaluateEdges ==
  ASSUME NEW t \in Tasks, NEW then, Evaluate(t, then)
  PROVE  \E s : /\ Goto(t, s)
                /\ Recolours(s) \/ (UNCHANGED hidden /\ s = then)
                /\ then.at = "moded" => Remodes(s)
<1>1. CASE Applies
  <2> DEFINE s == [at |-> "sizing", show |-> IF ToHide # {} THEN ToShow ELSE {}, then |-> then]
  <2>1. Goto(t, s) BY <1>1 DEF Evaluate
  <2>2. s.at = "sizing" /\ s.then = then OBVIOUS
  <2> HIDE DEF s
  <2>3. Recolours(s) BY <2>2 DEF Recolours
  <2> QED BY <2>1, <2>2, <2>3 DEF Remodes
<1>2. CASE ~Applies BY <1>2 DEF Evaluate, Remodes
<1> QED BY <1>1, <1>2

LEMMA EdgesTask ==
  ASSUME Basics, Edges, NEW t \in Tasks,
         \/ PaintAll(t) \/ PaintWalls(t) \/ PaintRoofs(t) \/ PaintManual(t)
         \/ PaintPrimaries(t) \/ PaintFocused(t) \/ RepaintFails(t) \/ SectionFails(t)
         \/ Refresh(t) \/ BaseLayer(t) \/ WallLayer(t) \/ PrimaryLayer(t) \/ Fitted(t)
  PROVE  Edges'
<1>1. CASE PaintAll(t) \/ PaintWalls(t) \/ PaintRoofs(t) \/ PaintManual(t) \/ PaintPrimaries(t) \/ PaintFocused(t)
  <2>1. /\ \E s : Goto(t, s) /\ s.at \in Repainting
        /\ task[t].at \in Repainting /\ UNCHANGED <<edges, mode>>
    BY <1>1 DEF PaintAll, PaintWalls, PaintRoofs, PaintManual, PaintPrimaries, PaintFocused, Repainting, At
  <2> QED BY <2>1, EdgesMove DEF Recolours, Remodes, Repainting
<1>2. CASE SectionFails(t) \/ Refresh(t) \/ BaseLayer(t) \/ WallLayer(t) \/ PrimaryLayer(t) \/ Fitted(t)
  <2>1. /\ \E s : Goto(t, s)
        /\ task[t].at \in Cutting \cup {"refresh", "fitted"} /\ UNCHANGED <<edges, mode, hidden, roles>>
    BY <1>2 DEF SectionFails, Refresh, BaseLayer, WallLayer, PrimaryLayer, AskPrimaries, Mount, Fitted, Cutting, size, At
  <2>2. ~Recolours(task[t]) /\ ~Remodes(task[t]) BY <2>1 DEF Recolours, Remodes, Cutting, Repainting
  <2> QED BY <2>1, <2>2, EdgesMove DEF roles
<1>3. CASE RepaintFails(t)
  <2>1. /\ Goto(t, Idle) /\ unpainted' /\ task[t].at \in Repainting
        /\ UNCHANGED <<edges, mode, hidden, primary, manual>>
    BY <1>3 DEF RepaintFails, size
  <2>2. ~Remodes(task[t]) BY <2>1 DEF Remodes, Repainting
  <2> QED BY <2>1, <2>2, EdgesMove
<1> QED BY <1>1, <1>2, <1>3

LEMMA EdgesFollowing ==
  ASSUME Basics, Edges, NEW t \in Tasks, Sizing(t) \/ Painted(t) \/ Restored(t)
  PROVE  Edges'
<1>1. CASE Sizing(t)
  <2>1. task[t].at = "sizing" /\ Shape(task[t], 0 .. planToken) BY <1>1 DEF Sizing, At, Basics
  <2>2. CASE task[t].show # {}
    <3> DEFINE s == [task[t] EXCEPT !.show = {}]
    <3>1. Goto(t, s) /\ UNCHANGED <<edges, hidden, roles, mode>> BY <1>1, <2>2 DEF Sizing, edges
    <3>2. s.at = "sizing" /\ s.then = task[t].then BY <2>1 DEF Shape
    <3> HIDE DEF s
    <3> QED BY <2>1, <3>1, <3>2, EdgesMove DEF Recolours, Remodes
  <2>3. CASE task[t].show = {}
    <3>1. Goto(t, task[t].then) /\ Recolour /\ UNCHANGED <<mounted, mode, roles, hidden>>
      BY <1>1, <2>3 DEF Sizing
    <3>2. Remodes(task[t]) => Remodes(task[t].then) BY <2>1 DEF Remodes
    <3> QED BY <3>1, <3>2, EdgesRecolour DEF roles
  <2> QED BY <2>2, <2>3
<1>2. CASE Painted(t)
  <2>1. /\ Recolour /\ Evaluate(t, [at |-> "refresh"]) /\ UNCHANGED <<mounted, mode, primary, manual>>
        /\ task[t].at = "painted"
    BY <1>2 DEF Painted, At
  <2>2. ~Remodes(task[t]) BY <2>1 DEF Remodes
  <2>3. \E s : Goto(t, s) /\ (Recolours(s) \/ UNCHANGED hidden) BY <2>1, EvaluateEdges
  <2> QED BY <2>1, <2>2, <2>3, EdgesRecolour
<1>3. CASE Restored(t)
  <2> DEFINE s == [task[t] EXCEPT !.at = "fitted"]
  <2>1. /\ Goto(t, s) /\ UNCHANGED <<mounted, mode, roles, hidden>> /\ task[t].at = "restored"
        /\ IF task[t].shown THEN Recolour ELSE UNCHANGED overlay
    BY <1>3 DEF Restored, At, size
  <2> HIDE DEF s
  <2>2. ~Remodes(task[t]) BY <2>1 DEF Remodes
  <2>3. CASE task[t].shown BY <2>1, <2>2, <2>3, EdgesRecolour DEF roles
  <2>4. CASE ~task[t].shown
    <3>1. ~Recolours(task[t]) BY <2>1, <2>4 DEF Recolours, Repainting
    <3> QED BY <2>1, <2>2, <2>4, <3>1, EdgesMove DEF edges, roles
  <2> QED BY <2>3, <2>4
<1> QED BY <1>1, <1>2, <1>3

LEMMA EdgesModed ==
  ASSUME Basics, Edges, NEW t \in Tasks, Moded(t)
  PROVE  Edges'
<1>1. task[t].at = "moded" /\ Goto(t, Idle) /\ UNCHANGED <<mode, hidden, roles>> BY DEF Moded, At, size
<1>2. task'[t] = Idle /\ \A u \in Tasks \ {t} : task'[u] = task[u] BY <1>1 DEF Basics, Goto
<1>3. CASE overlay.angle # Angle[mode]
  <2>1. /\ overlay' = [n |-> overlay.n + 1, angle |-> Angle[mode], built |-> FALSE,
                       role |-> Edgeless, marks |-> {}]
        /\ mounted' = mounted \ {overlay.n}
    BY <1>3 DEF Moded
  <2>2. /\ {"n", "angle", "built", "role", "marks"} \subseteq DOMAIN overlay'
        /\ overlay'.angle = Angle[mode'] /\ ~overlay'.built /\ overlay'.role = Edgeless /\ overlay'.marks = {}
    BY <1>1, <2>1
  <2>3. mounted' = {} BY <2>1 DEF Edges
  <2> QED BY <2>2, <2>3 DEF Edges, Edgeless, Marked
<1>4. CASE overlay.angle = Angle[mode]
  <2>1. UNCHANGED edges BY <1>4 DEF Moded
  <2>2. \A u \in Tasks : Recolours(task[u]) => Recolours(task'[u])
    BY <1>1, <1>2 DEF Recolours, Repainting
  <2> QED BY <1>1, <1>4, <2>1, <2>2, SameRoles DEF Edges, edges, roles, RolesOfEdges, Marked
<1> QED BY <1>3, <1>4

LEMMA EdgesUser ==
  ASSUME Basics, Edges, NEW t \in Tasks,
         \/ Exit(t) \/ Rest(t)
         \/ \E b \in DOMAIN Bands : Enter(t, b) \/ EnterFails(t, b)
         \/ \E set \in Answers \cup {{}} : ApplyRoles(t, set)
         \/ \E set \in Picks : Select(t, set)
         \/ \E m \in Modes : SetMode(t, m)
  PROVE  Edges'
<1>1. task[t].at = "idle" /\ ~Recolours(task[t]) /\ ~Remodes(task[t])
  <2>1. task[t] = Idle BY DEF Exit, Rest, Enter, EnterFails, ApplyRoles, Select, SetMode, Op
  <2> QED BY <2>1 DEF Idle, Recolours, Remodes, Repainting
<1>2. ASSUME UNCHANGED <<task, edges, mode, hidden, roles>> PROVE Edges'
  BY <1>2, SameRoles DEF Edges, edges, roles, RolesOfEdges, Marked
<1>3. ASSUME NEW then, Evaluate(t, then), UNCHANGED <<edges, roles>>, UNCHANGED mode \/ then.at = "moded"
      PROVE  Edges'
  <2>1. PICK s : /\ Goto(t, s)
                 /\ Recolours(s) \/ UNCHANGED hidden
                 /\ then.at = "moded" => Remodes(s)
    BY <1>3, EvaluateEdges
  <2>2. Recolours(s) \/ UNCHANGED <<hidden, roles>> BY <1>3, <2>1
  <2>3. Remodes(s) \/ UNCHANGED mode BY <1>3, <2>1
  <2> QED BY <1>1, <1>3, <2>1, <2>2, <2>3, EdgesMove DEF roles
<1>4. CASE Exit(t) BY <1>2, <1>3, <1>4 DEF Exit, size
<1>5. CASE Rest(t) BY <1>3, <1>5 DEF Rest
<1>6. CASE \E m \in Modes : SetMode(t, m) BY <1>3, <1>6 DEF SetMode
<1>7. CASE (\E set \in Answers \cup {{}} : ApplyRoles(t, set)) \/ \E set \in Picks : Select(t, set)
  <2>1. Goto(t, [at |-> "reset"]) /\ UNCHANGED <<edges, mode>> BY <1>7 DEF ApplyRoles, Select, Repaint
  <2>2. Recolours([at |-> "reset"]) BY DEF Recolours, Repainting
  <2> QED BY <1>1, <2>1, <2>2, EdgesMove
<1>8. ASSUME NEW b \in DOMAIN Bands, Enter(t, b) PROVE Edges'
  <2> DEFINE s == [at |-> "restored", token |-> planToken + 1, shown |-> ~suspended /\ hidden # {}]
  <2>1. Goto(t, s) /\ UNCHANGED <<edges, mode, roles>> /\ hidden' = (IF suspended THEN hidden ELSE {})
    BY <1>8 DEF Enter
  <2>2. s.at = "restored" /\ (s.shown <=> ~suspended /\ hidden # {}) OBVIOUS
  <2> HIDE DEF s
  <2>3. Recolours(s) \/ UNCHANGED hidden BY <2>1, <2>2 DEF Recolours
  <2> QED BY <1>1, <2>1, <2>3, EdgesMove DEF roles
<1>9. CASE \E b \in DOMAIN Bands : EnterFails(t, b) BY <1>2, <1>9 DEF EnterFails, size
<1> QED BY <1>4, <1>5, <1>6, <1>7, <1>8, <1>9

LEMMA EdgesKept == Basics /\ Edges /\ [Next]_vars => Edges'
<1> SUFFICES ASSUME Basics, Edges, [Next]_vars PROVE Edges' OBVIOUS
<1>1. CASE UNCHANGED vars BY <1>1, SameRoles DEF vars, size, roles, edges, Edges, RolesOfEdges, Marked
<1>2. CASE EdgesBuilt
  <2> DEFINE v == [overlay EXCEPT !.built = TRUE]
  <2>1. /\ overlay' = Recoloured(v) /\ mounted' = mounted \cup {overlay.n} /\ ~overlay.built
        /\ UNCHANGED <<task, mode, hidden, primary, manual>>
    BY <1>2 DEF EdgesBuilt, size, roles
  <2>2. /\ {"n", "angle", "built", "role", "marks"} \subseteq DOMAIN v /\ v.built
        /\ v.n = overlay.n /\ v.angle = overlay.angle /\ v.role = overlay.role /\ v.marks = overlay.marks
    BY DEF Edges
  <2> HIDE DEF v
  <2>3. v.role = [o \in Objects |-> v.role[o]] /\ v.marks = {o \in Objects : v.role[o] \in Marked}
    BY <2>2 DEF Edges
  <2>4. /\ {"n", "angle", "built", "role", "marks"} \subseteq DOMAIN overlay'
        /\ overlay'.n = overlay.n /\ overlay'.angle = overlay.angle /\ overlay'.built
        /\ overlay'.role = [o \in Objects |-> overlay'.role[o]]
        /\ overlay'.marks = {o \in Objects : overlay'.role[o] \in Marked}
        /\ RolesOfEdges(overlay')
    BY <2>1, <2>2, <2>3, RecolouredEdges
  <2>5. RolesOfEdges(overlay)' BY <2>1, <2>4, SameRoles DEF RolesOfEdges
  <2>6. mounted' = {overlay.n} BY <2>1 DEF Edges
  <2> QED BY <2>1, <2>4, <2>5, <2>6 DEF Edges, Marked
<1> QED BY <1>1, <1>2, EdgesTask, EdgesFollowing, EdgesModed, EdgesUser DEF Next

\* recolorEdges, rebuildEdgeOverlay: one overlay is mounted, and at rest it has
\* the angle of the mode and, unless a repaint failed, the roles of the moment.
THEOREM EdgesAreCurrent == Spec => []EdgesFollow
<1>1. Init => Edges BY DEF Init, Edges, Edgeless, Marked
<1>2. Basics /\ Hides /\ Edges /\ [Next]_vars => Edges' BY EdgesKept
<1>3. Edges => EdgesFollow
  <2> SUFFICES ASSUME Edges PROVE EdgesFollow OBVIOUS
  <2>1. Quiet => \A t \in Tasks : ~Remodes(task[t]) /\ ~Recolours(task[t])
    BY DEF Quiet, Idle, Remodes, Recolours, Repainting
  <2>2. Quiet => overlay.angle = Angle[mode] BY <2>1 DEF Edges
  <2>3. Quiet /\ overlay.built /\ ~unpainted => \A o \in Objects : overlay.role[o] = EdgeRole(o)
    BY <2>1 DEF Edges, RolesOfEdges
  <2>4. Quiet /\ overlay.built /\ ~unpainted => overlay.marks = {o \in Objects : EdgeRole(o) \in Marked}
    BY <2>3 DEF Edges
  <2> QED BY <2>2, <2>3, <2>4 DEF Edges, EdgesFollow
<1> QED BY <1>1, <1>2, <1>3, HidesHold, PTL DEF Spec

-----------------------------------------------------------------------------
(***************************************************************************)
(* The cut of a plan.  Only the operation that holds the plan's token may  *)
(* mount a cut; what is mounted or being cut shows the roles, or a repaint *)
(* that will cut the plan again is under way.                              *)
(***************************************************************************)
Recuts(s) == s.at \in Repainting \cup {"refresh"} \/ (s.at = "sizing" /\ s.then.at = "refresh")
FreshCut(s) == s.at \in Cutting /\ s.token = planToken

OfPlan(s) == FreshCut(s) => plan.view # 0 /\ s.band = plan.band
OfRoles(s) == FreshCut(s) => /\ s.split.walls = Walls \ primary
                             /\ s.split.others = IF Walls = {} THEN Objects ELSE Objects \ (Walls \cup primary)
                             /\ s.at = "blue" => s.blue = primary
SectionOfRoles ==
  section # None => /\ section.split.walls = Walls \ primary
                    /\ section.split.others = IF Walls = {} THEN Objects ELSE Objects \ (Walls \cup primary)
                    /\ section.blue = primary

Cuts == /\ \A t \in Tasks : OfPlan(task[t])
        /\ section # None => plan.view # 0 /\ section.band = plan.band
        /\ \/ unpainted \/ \E t \in Tasks : Recuts(task[t])
           \/ SectionOfRoles /\ \A t \in Tasks : OfRoles(task[t])

\* A step that leaves the plan and its cut alone.
LEMMA CutsMove ==
  ASSUME Basics, Cuts, NEW t \in Tasks, NEW s, Goto(t, s), UNCHANGED <<plan, planToken, section>>,
         OfPlan(s), OfRoles(task[t]) => OfRoles(s),
         Recuts(s) \/ unpainted' \/ (UNCHANGED <<primary, unpainted>> /\ ~Recuts(task[t]))
  PROVE  Cuts'
<1>1. task'[t] = s /\ \A u \in Tasks \ {t} : task'[u] = task[u] BY DEF Basics, Goto
<1>2. \A u \in Tasks : OfPlan(task[u])' BY <1>1 DEF Cuts, OfPlan, FreshCut
<1>3. \/ unpainted' \/ \E u \in Tasks : Recuts(task'[u])
      \/ SectionOfRoles' /\ \A u \in Tasks : OfRoles(task[u])'
  <2>1. CASE Recuts(s) \/ unpainted' BY <1>1, <2>1
  <2>2. CASE UNCHANGED <<primary, unpainted>> /\ ~Recuts(task[t])
    <3>1. CASE unpainted \/ \E u \in Tasks : Recuts(task[u]) BY <1>1, <2>2, <3>1
    <3>2. CASE SectionOfRoles /\ \A u \in Tasks : OfRoles(task[u])
      <4>1. SectionOfRoles' BY <2>2, <3>2 DEF SectionOfRoles
      <4>2. \A u \in Tasks : OfRoles(task[u])' BY <1>1, <2>2, <3>2 DEF OfRoles, FreshCut
      <4> QED BY <4>1, <4>2
    <3> QED BY <3>1, <3>2 DEF Cuts
  <2> QED BY <2>1, <2>2
<1> QED BY <1>2, <1>3 DEF Cuts

\* The plan is closed or opened, or its cut is begun again: every token is stale.
LEMMA CutsAnew ==
  ASSUME Basics, Cuts, NEW t \in Tasks, NEW s, Goto(t, s) \/ UNCHANGED task,
         planToken' = planToken + 1, section' = None, UNCHANGED primary,
         Goto(t, s) => OfPlan(s)' /\ OfRoles(s)'
  PROVE  Cuts'
<1>1. UNCHANGED task \/ (Goto(t, s) /\ task'[t] = s) BY DEF Basics, Goto
<1>2. \A u \in Tasks \ {t} : task'[u] = task[u] BY DEF Basics, Goto
<1>3. \A u \in Tasks : task[u].at \in Cutting => task[u].token # planToken + 1
  BY DEF Basics, PlanMode, Shape
<1>4. \A u \in Tasks : OfPlan(task[u])' /\ OfRoles(task[u])'
  BY <1>1, <1>2, <1>3 DEF OfPlan, OfRoles, FreshCut
<1> QED BY <1>4 DEF Cuts, SectionOfRoles

LEMMA NotCutting ==
  ASSUME NEW s, s.at \notin Cutting
  PROVE  OfPlan(s) /\ OfRoles(s) /\ OfPlan(s)' /\ OfRoles(s)'
BY DEF OfPlan, OfRoles, FreshCut

LEMMA EvaluateCuts ==
  ASSUME NEW t \in Tasks, NEW then \in Afterwards, Evaluate(t, then)
  PROVE  \E s : Goto(t, s) /\ s.at \notin Cutting /\ (then.at = "refresh" => Recuts(s))
<1>1. CASE Applies
  <2> DEFINE s == [at |-> "sizing", show |-> IF ToHide # {} THEN ToShow ELSE {}, then |-> then]
  <2>1. Goto(t, s) BY <1>1 DEF Evaluate
  <2>2. s.at = "sizing" /\ s.then = then OBVIOUS
  <2> HIDE DEF s
  <2> QED BY <2>1, <2>2 DEF Recuts, Cutting
<1>2. CASE ~Applies
  <2>1. then.at \notin Cutting BY DEF Afterwards, Idle, Cutting
  <2> QED BY <1>2, <2>1 DEF Evaluate, Recuts
<1> QED BY <1>1, <1>2

\* The steps of a repaint end in a cut of the plan.
LEMMA CutsPaint ==
  ASSUME Basics, Cuts, NEW t \in Tasks,
         \/ Sizing(t) \/ PaintAll(t) \/ PaintWalls(t) \/ PaintRoofs(t) \/ PaintManual(t)
         \/ PaintPrimaries(t) \/ PaintFocused(t) \/ Painted(t) \/ RepaintFails(t)
  PROVE  Cuts'
<1>1. CASE PaintAll(t) \/ PaintWalls(t) \/ PaintRoofs(t) \/ PaintManual(t) \/ PaintPrimaries(t) \/ PaintFocused(t)
  <2>1. /\ UNCHANGED <<plan, planToken, section>>
        /\ \E s : Goto(t, s) /\ s.at \in Repainting
    BY <1>1 DEF PaintAll, PaintWalls, PaintRoofs, PaintManual, PaintPrimaries, PaintFocused, Repainting, floor
  <2>2. PICK s : Goto(t, s) /\ s.at \in Repainting BY <2>1
  <2>3. Recuts(s) /\ s.at \notin Cutting BY <2>2 DEF Recuts, Repainting, Cutting
  <2> QED BY <2>1, <2>2, <2>3, NotCutting, CutsMove
<1>2. CASE Painted(t)
  <2>1. UNCHANGED <<plan, planToken, section>> /\ Evaluate(t, [at |-> "refresh"]) BY <1>2 DEF Painted, floor
  <2>2. PICK s : Goto(t, s) /\ s.at \notin Cutting /\ Recuts(s) BY <2>1, EvaluateCuts DEF Afterwards
  <2> QED BY <2>1, <2>2, NotCutting, CutsMove
<1>3. CASE Sizing(t)
  <2>1. /\ task[t].at = "sizing" /\ Shape(task[t], 0 .. planToken)
        /\ UNCHANGED <<plan, planToken, section, primary, unpainted>>
    BY <1>3 DEF Sizing, At, Basics, floor, roles
  <2>2. \E s : Goto(t, s) /\ s.at \notin Cutting /\ (Recuts(task[t]) => Recuts(s))
    <3>1. CASE task[t].show # {}
      <4> DEFINE s == [task[t] EXCEPT !.show = {}]
      <4>1. Goto(t, s) BY <1>3, <3>1 DEF Sizing
      <4>2. s.at = "sizing" /\ s.then = task[t].then BY <2>1 DEF Shape
      <4> HIDE DEF s
      <4> QED BY <2>1, <4>1, <4>2 DEF Recuts, Cutting
    <3>2. CASE task[t].show = {}
      <4>1. Goto(t, task[t].then) BY <1>3, <3>2 DEF Sizing
      <4>2. task[t].then.at \notin Cutting BY <2>1 DEF Shape, Afterwards, Idle, Cutting
      <4>3. Recuts(task[t]) => Recuts(task[t].then) BY <2>1 DEF Recuts, Repainting
      <4> QED BY <4>1, <4>2, <4>3
    <3> QED BY <3>1, <3>2
  <2> QED BY <2>1, <2>2, NotCutting, CutsMove
<1>4. CASE RepaintFails(t)
  <2>1. UNCHANGED <<plan, planToken, section>> /\ Goto(t, Idle) /\ unpainted' BY <1>4 DEF RepaintFails, floor
  <2>2. Idle.at \notin Cutting BY DEF Idle, Cutting
  <2> QED BY <2>1, <2>2, NotCutting, CutsMove
<1> QED BY <1>1, <1>2, <1>3, <1>4

\* Steps that end an operation or wait for something else than a cut.
LEMMA CutsOther ==
  ASSUME Basics, Cuts, NEW t \in Tasks, SectionFails(t) \/ Restored(t) \/ Fitted(t) \/ Moded(t)
  PROVE  Cuts'
<1>1. UNCHANGED <<plan, planToken, section, primary, unpainted>> BY DEF SectionFails, Restored, Fitted, Moded, floor, roles
<1>2. ~Recuts(task[t]) BY DEF SectionFails, Restored, Fitted, Moded, At, Recuts, Repainting
<1>3. CASE SectionFails(t) \/ Moded(t) \/ (Fitted(t) /\ plan.view = 0)
  <2>1. Goto(t, Idle) /\ Idle.at \notin Cutting BY <1>3 DEF SectionFails, Moded, Fitted, Idle, Cutting
  <2> QED BY <1>1, <1>2, <2>1, NotCutting, CutsMove
<1>4. CASE Restored(t)
  <2> DEFINE s == [task[t] EXCEPT !.at = "fitted"]
  <2>1. Goto(t, s) /\ Shape(task[t], 0 .. planToken) /\ task[t].at = "restored" BY <1>4 DEF Restored, Basics, At
  <2>2. s.at \notin Cutting BY <2>1 DEF Shape, Cutting
  <2> HIDE DEF s
  <2> QED BY <1>1, <1>2, <2>1, <2>2, NotCutting, CutsMove
<1>5. CASE Fitted(t) /\ plan.view # 0
  <2>1. PICK s : s = Build(task[t].token) OBVIOUS
  <2>2. Goto(t, s) BY <1>5, <2>1 DEF Fitted
  <2>3. s.band = plan.band /\ s.split = Split /\ s.at = "base" BY <1>1, <2>1 DEF Build
  <2>4. OfPlan(s) /\ OfRoles(s) BY <1>5, <2>3 DEF OfPlan, OfRoles, Split
  <2> QED BY <1>1, <1>2, <2>2, <2>4, CutsMove
<1> QED BY <1>3, <1>4, <1>5

LEMMA CutsRefresh ==
  ASSUME Basics, Cuts, NEW t \in Tasks, Refresh(t)
  PROVE  Cuts'
<1>0. UNCHANGED <<plan, primary>> BY DEF Refresh, roles
<1>1. CASE plan.view = 0 \/ plan.band = 0
  <2>1. plan.view = 0 BY <1>1 DEF Basics, PlanMode
  <2>2. UNCHANGED <<planToken, section>> /\ Goto(t, Idle) BY <1>1 DEF Refresh
  <2>3. task'[t] = Idle /\ \A u \in Tasks \ {t} : task'[u] = task[u] BY <2>2 DEF Basics, Goto
  <2>4. \A u \in Tasks : ~FreshCut(task[u]) BY <2>1 DEF Cuts, OfPlan
  <2>5. \A u \in Tasks : ~FreshCut(task[u])' BY <2>2, <2>3, <2>4 DEF FreshCut, Idle, Cutting
  <2>6. section' = None BY <2>1, <2>2 DEF Cuts
  <2> QED BY <2>5, <2>6 DEF Cuts, OfPlan, OfRoles, SectionOfRoles
<1>2. CASE ~(plan.view = 0 \/ plan.band = 0)
  <2>1. PICK s : s = Build(planToken + 1) OBVIOUS
  <2>2. planToken' = planToken + 1 /\ section' = None /\ Goto(t, s) BY <1>2, <2>1 DEF Refresh
  <2>3. s.band = plan.band /\ s.split = Split /\ s.at = "base" BY <1>0, <2>1 DEF Build
  <2>4. OfPlan(s)' /\ OfRoles(s)' BY <1>0, <1>2, <2>3 DEF OfPlan, OfRoles, Split
  <2> QED BY <1>0, <2>2, <2>4, CutsAnew
<1> QED BY <1>1, <1>2

\* A cut that is mounted is that of the operation that holds the token.
LEMMA CutsMounted ==
  ASSUME Basics, Cuts, NEW t \in Tasks, FreshCut(task[t]), UNCHANGED <<plan, planToken, primary, unpainted>>,
         NEW blue, Mount(t, blue), OfRoles(task[t]) => blue = primary
  PROVE  Cuts'
<1>1. task'[t] = Idle /\ \A u \in Tasks \ {t} : task'[u] = task[u] BY DEF Basics, Goto, Mount
<1>2. OfPlan(Idle)' /\ OfRoles(Idle)' BY NotCutting DEF Idle, Cutting
<1>3. section' = [band |-> task[t].band, split |-> task[t].split, blue |-> blue] BY DEF Mount
<1>4. plan'.view # 0 /\ section'.band = plan'.band BY <1>3 DEF Cuts, OfPlan
<1>5. \A u \in Tasks : OfPlan(task[u])' BY <1>1, <1>2 DEF Cuts, OfPlan, FreshCut
<1>6. ~Recuts(task[t]) BY DEF FreshCut, Cutting, Recuts, Repainting
<1>7. OfRoles(task[t]) => SectionOfRoles' BY <1>3 DEF OfRoles, SectionOfRoles
<1>8. \/ unpainted' \/ \E u \in Tasks : Recuts(task'[u])
      \/ SectionOfRoles' /\ \A u \in Tasks : OfRoles(task[u])'
  <2>1. CASE unpainted \/ \E u \in Tasks : Recuts(task[u]) BY <1>1, <1>6, <2>1
  <2>2. CASE \A u \in Tasks : OfRoles(task[u])
    <3>1. \A u \in Tasks \ {t} : OfRoles(task[u])' BY <1>1, <2>2 DEF OfRoles, FreshCut
    <3>2. OfRoles(task[t])' BY <1>1, <1>2
    <3> QED BY <1>7, <2>2, <3>1, <3>2
  <2> QED BY <2>1, <2>2 DEF Cuts
<1> QED BY <1>4, <1>5, <1>8 DEF Cuts

LEMMA CutsLayers ==
  ASSUME Basics, Cuts, NEW t \in Tasks, BaseLayer(t) \/ WallLayer(t) \/ PrimaryLayer(t)
  PROVE  Cuts'
<1>1. /\ UNCHANGED <<plan, planToken, primary, unpainted>> /\ task[t].at \in Cutting /\ ~Recuts(task[t])
      /\ Shape(task[t], 0 .. planToken)
  BY DEF BaseLayer, WallLayer, PrimaryLayer, roles, At, Cutting, Recuts, Repainting, Basics
<1>2. CASE ~Fresh(t)
  <2>1. Goto(t, Idle) /\ UNCHANGED section /\ Idle.at \notin Cutting
    BY <1>2 DEF BaseLayer, WallLayer, PrimaryLayer, Idle, Cutting
  <2> QED BY <1>1, <2>1, NotCutting, CutsMove
<1>3. CASE Fresh(t)
  <2>1. FreshCut(task[t]) BY <1>1, <1>3 DEF Fresh, FreshCut
  <2>2. CASE BaseLayer(t) /\ task[t].split.walls # {}
    <3>1. PICK s : s = [task[t] EXCEPT !.at = "cut"] OBVIOUS
    <3>2. Goto(t, s) /\ UNCHANGED section BY <1>3, <2>2, <3>1 DEF BaseLayer
    <3>3. s.at = "cut" /\ s.band = task[t].band /\ s.split = task[t].split BY <1>1, <3>1 DEF Shape
    <3>4. OfPlan(s) /\ (OfRoles(task[t]) => OfRoles(s)) BY <2>1, <3>3 DEF Cuts, OfPlan, OfRoles
    <3> QED BY <1>1, <3>2, <3>4, CutsMove
  <2>3. CASE AskPrimaries(t)
    <3>1. CASE RolesActive
      <4>1. PICK s : s = [task[t] EXCEPT !.at = "blue", !.blue = primary] OBVIOUS
      <4>2. Goto(t, s) /\ UNCHANGED section BY <2>3, <3>1, <4>1 DEF AskPrimaries
      <4>3. s.blue = primary /\ s.band = task[t].band /\ s.split = task[t].split BY <1>1, <4>1 DEF Shape
      <4>4. OfPlan(s) /\ (OfRoles(task[t]) => OfRoles(s)) BY <2>1, <4>3 DEF Cuts, OfPlan, OfRoles
      <4> QED BY <1>1, <4>2, <4>4, CutsMove
    <3>2. CASE ~RolesActive BY <1>1, <2>1, <2>3, <3>2, CutsMounted DEF AskPrimaries, RolesActive
    <3> QED BY <3>1, <3>2
  <2>4. CASE PrimaryLayer(t)
    <3>1. Mount(t, task[t].blue) /\ task[t].at = "blue" BY <1>3, <2>4 DEF PrimaryLayer, At
    <3>2. OfRoles(task[t]) => task[t].blue = primary BY <2>1, <3>1 DEF OfRoles
    <3> QED BY <1>1, <2>1, <3>1, <3>2, CutsMounted
  <2> QED BY <1>3, <2>2, <2>3, <2>4 DEF BaseLayer, WallLayer
<1> QED BY <1>2, <1>3

LEMMA CutsUser ==
  ASSUME Basics, Cuts, NEW t \in Tasks,
         \/ Exit(t) \/ Rest(t)
         \/ \E b \in DOMAIN Bands : Enter(t, b) \/ EnterFails(t, b)
         \/ \E set \in Answers \cup {{}} : ApplyRoles(t, set)
         \/ \E set \in Picks : Select(t, set)
         \/ \E m \in Modes : SetMode(t, m)
  PROVE  Cuts'
<1>1. task[t] = Idle BY DEF Exit, Rest, Enter, EnterFails, ApplyRoles, Select, SetMode, Op
<1>2. ~Recuts(task[t]) /\ Idle.at \notin Cutting BY <1>1 DEF Idle, Recuts, Repainting, Cutting
<1>3. CASE Exit(t)
  <2>1. planToken' = planToken + 1 /\ section' = None /\ UNCHANGED primary BY <1>3 DEF Exit, roles
  <2>2. CASE UNCHANGED task BY <1>2, <2>1, <2>2, NotCutting, CutsAnew
  <2>3. CASE Evaluate(t, Idle)
    <3>1. PICK s : Goto(t, s) /\ s.at \notin Cutting BY <2>3, EvaluateCuts DEF Afterwards
    <3> QED BY <2>1, <3>1, NotCutting, CutsAnew
  <2> QED BY <1>3, <2>2, <2>3 DEF Exit
<1>4. CASE Rest(t) \/ \E m \in Modes : SetMode(t, m)
  <2>1. /\ UNCHANGED <<plan, planToken, section, primary, unpainted>>
        /\ \E then \in Afterwards : Evaluate(t, then)
    BY <1>4 DEF Rest, SetMode, floor, roles, Afterwards
  <2>2. PICK s : Goto(t, s) /\ s.at \notin Cutting BY <2>1, EvaluateCuts
  <2> QED BY <1>2, <2>1, <2>2, NotCutting, CutsMove
<1>5. CASE (\E set \in Answers \cup {{}} : ApplyRoles(t, set)) \/ \E set \in Picks : Select(t, set)
  <2>1. PICK s : s = [at |-> "reset"] OBVIOUS
  <2>2. Goto(t, s) /\ UNCHANGED <<plan, planToken, section>> BY <1>5, <2>1 DEF ApplyRoles, Select, Repaint, floor
  <2>3. Recuts(s) /\ s.at \notin Cutting BY <2>1 DEF Recuts, Repainting, Cutting
  <2> QED BY <2>2, <2>3, NotCutting, CutsMove
<1>6. ASSUME NEW b \in DOMAIN Bands, Enter(t, b) \/ EnterFails(t, b) PROVE Cuts'
  <2>1. planToken' = planToken + 1 /\ section' = None /\ UNCHANGED primary BY <1>6 DEF Enter, EnterFails, roles
  <2>2. CASE Enter(t, b)
    <3>1. PICK s : s = [at |-> "restored", token |-> planToken + 1, shown |-> ~suspended /\ hidden # {}] OBVIOUS
    <3>2. Goto(t, s) /\ s.at \notin Cutting BY <2>2, <3>1 DEF Enter, Cutting
    <3> QED BY <2>1, <3>2, NotCutting, CutsAnew
  <2>3. CASE EnterFails(t, b)
    <3>1. UNCHANGED task BY <2>3 DEF EnterFails
    <3> QED BY <1>2, <2>1, <3>1, NotCutting, CutsAnew
  <2> QED BY <1>6, <2>2, <2>3
<1> QED BY <1>3, <1>4, <1>5, <1>6

LEMMA CutsKept == Basics /\ Cuts /\ [Next]_vars => Cuts'
<1> SUFFICES ASSUME Basics, Cuts, [Next]_vars PROVE Cuts' OBVIOUS
<1>1. CASE EdgesBuilt \/ UNCHANGED vars
  BY <1>1 DEF EdgesBuilt, vars, floor, roles, Cuts, OfPlan, OfRoles, FreshCut, SectionOfRoles
<1> QED BY <1>1, CutsPaint, CutsOther, CutsRefresh, CutsLayers, CutsUser DEF Next

\* buildPlanSection, refreshPlanSection: the cut that is mounted is that of the
\* open floor, and at rest it shows the roles there are now unless a repaint failed.
THEOREM SectionIsCurrent == Spec => []SectionShowsRoles
<1>1. Init => Cuts
  <2>1. Init => section = None /\ \A t \in Tasks : task[t] = Idle BY DEF Init
  <2>2. Idle.at \notin Cutting BY DEF Idle, Cutting
  <2> QED BY <2>1, <2>2, NotCutting DEF Cuts, SectionOfRoles
<1>2. Basics /\ Hides /\ Cuts /\ [Next]_vars => Cuts' BY CutsKept
<1>3. Cuts => SectionShowsRoles
  <2>1. Walls \subseteq Objects BY DEF Walls, Of
  <2>2. Quiet => \A t \in Tasks : ~Recuts(task[t]) BY DEF Quiet, Idle, Recuts, Repainting
  <2> QED BY <2>1, <2>2 DEF Cuts, SectionOfRoles, SectionShowsRoles
<1> QED BY <1>1, <1>2, <1>3, HidesHold, PTL DEF Spec

-----------------------------------------------------------------------------
(***************************************************************************)
(* The range of an open plan.  A finite set of heights has a least and a   *)
(* greatest one: a set of heights below a height that is minimal among     *)
(* such sets is below the least height.                                    *)
(***************************************************************************)
LEMMA HasLeast ==
  ASSUME NEW S, IsFiniteSet(S), S \subseteq Int, S # {}
  PROVE  \E x \in S : \A y \in S : x <= y
<1> DEFINE Upto(x) == {y \in S : y <= x}
           Families == {Upto(x) : x \in S}
<1>1. Families \subseteq SUBSET S /\ Families # {}
  <2>1. PICK x \in S : TRUE OBVIOUS
  <2>2. Upto(x) \in Families OBVIOUS
  <2>3. \A x1 \in S : Upto(x1) \subseteq S OBVIOUS
  <2> QED BY <2>2, <2>3
<1>2. IsWellFoundedOn(StrictSubsetOrdering(S), SUBSET S)
  BY FS_StrictSubsetOrderingWellFounded, FS_FiniteSubsetsOfFinite
<1>3. PICK X \in Families : \A Y \in Families : <<Y, X>> \notin StrictSubsetOrdering(S)
  <2> HIDE DEF Families
  <2> QED BY <1>1, <1>2, WFMin
<1>4. PICK x \in S : X = Upto(x) OBVIOUS
<1>5. ASSUME NEW y \in S, y < x PROVE FALSE
  <2>0. x \in Int /\ y \in Int /\ x <= x /\ ~(x <= y) BY <1>5
  <2>1. Upto(y) \subseteq Upto(x) /\ x \in Upto(x) /\ x \notin Upto(y)
    <3>1. ASSUME NEW z \in S, z <= y PROVE z <= x BY <1>5, <2>0, <3>1
    <3> QED BY <2>0, <3>1
  <2>2. <<Upto(y), Upto(x)>> \in StrictSubsetOrdering(S) BY <2>1 DEF StrictSubsetOrdering
  <2> QED BY <1>3, <1>4, <2>2
<1> QED BY <1>5

LEMMA HasGreatest ==
  ASSUME NEW S, IsFiniteSet(S), S \subseteq Int, S # {}
  PROVE  \E x \in S : \A y \in S : x >= y
<1> DEFINE From(x) == {y \in S : y >= x}
           Families == {From(x) : x \in S}
<1>1. Families \subseteq SUBSET S /\ Families # {}
  <2>1. PICK x \in S : TRUE OBVIOUS
  <2>2. From(x) \in Families OBVIOUS
  <2>3. \A x1 \in S : From(x1) \subseteq S OBVIOUS
  <2> QED BY <2>2, <2>3
<1>2. IsWellFoundedOn(StrictSubsetOrdering(S), SUBSET S)
  BY FS_StrictSubsetOrderingWellFounded, FS_FiniteSubsetsOfFinite
<1>3. PICK X \in Families : \A Y \in Families : <<Y, X>> \notin StrictSubsetOrdering(S)
  <2> HIDE DEF Families
  <2> QED BY <1>1, <1>2, WFMin
<1>4. PICK x \in S : X = From(x) OBVIOUS
<1>5. ASSUME NEW y \in S, y > x PROVE FALSE
  <2>0. x \in Int /\ y \in Int /\ x >= x /\ ~(x >= y) BY <1>5
  <2>1. From(y) \subseteq From(x) /\ x \in From(x) /\ x \notin From(y)
    <3>1. ASSUME NEW z \in S, z >= y PROVE z >= x BY <1>5, <2>0, <3>1
    <3> QED BY <2>0, <3>1
  <2>2. <<From(y), From(x)>> \in StrictSubsetOrdering(S) BY <2>1 DEF StrictSubsetOrdering
  <2> QED BY <1>3, <1>4, <2>2
<1> QED BY <1>5

\* A resolved band of a building reaches from one of its storeys to another one.
LEMMA BandOfStoreys ==
  ASSUME NEW b \in Buildings, NEW i \in DOMAIN b.floors, Placed(b.floors, b.height)[i].resolved
  PROVE  LET band == Placed(b.floors, b.height)[i]
         IN /\ \E s \in b.floors[i] : band.min = b.height[s] /\ b.height[s] \in Int
            /\ \E s \in b.floors[i] : band.max = b.height[s] /\ b.height[s] \in Int
            /\ band.min <= band.max
            /\ \A s \in b.floors[i] : b.height[s] # None
<1> DEFINE F == b.floors[i]
           ys == {b.height[s] : s \in F}
           h == [s \in F |-> b.height[s]]
<1>1. ys # {} /\ None \notin ys BY DEF Placed
<1>2. IsFiniteSet(F) /\ ys \subseteq Int BY <1>1, FloorsAscend
<1>3. IsFiniteSet(ys)
  <2>1. h \in Surjection(F, ys) BY DEF Surjection
  <2> QED BY <1>2, <2>1, FS_Surjection
<1>4. Placed(b.floors, b.height)[i].min = Min(ys) /\ Placed(b.floors, b.height)[i].max = Max(ys)
  BY <1>1 DEF Placed
<1> HIDE DEF ys
<1>5. Min(ys) \in ys /\ \A y \in ys : Min(ys) <= y
  <2>1. \E x \in ys : \A y \in ys : x <= y BY <1>1, <1>2, <1>3, HasLeast
  <2> QED BY <2>1 DEF Min
<1>6. Max(ys) \in ys /\ \A y \in ys : Max(ys) >= y
  <2>1. \E x \in ys : \A y \in ys : x >= y BY <1>1, <1>2, <1>3, HasGreatest
  <2> QED BY <2>1 DEF Max
<1>7. Min(ys) <= Max(ys) BY <1>5, <1>6
<1>8. /\ \E s \in F : Min(ys) = b.height[s] /\ b.height[s] \in Int
      /\ \E s \in F : Max(ys) = b.height[s] /\ b.height[s] \in Int
      /\ \A s \in F : b.height[s] # None
  BY <1>1, <1>2, <1>5, <1>6 DEF ys
<1> QED BY <1>4, <1>7, <1>8

\* The resolved bands ascend.
LEMMA BandsAscend ==
  ASSUME NEW b \in Buildings, NEW i \in DOMAIN b.floors, NEW j \in DOMAIN b.floors, i < j,
         Placed(b.floors, b.height)[i].resolved, Placed(b.floors, b.height)[j].resolved
  PROVE  Placed(b.floors, b.height)[i].max < Placed(b.floors, b.height)[j].min
<1> DEFINE lower == Placed(b.floors, b.height)[i]
           upper == Placed(b.floors, b.height)[j]
<1>1. PICK s \in b.floors[i] : lower.max = b.height[s] /\ b.height[s] \in Int BY BandOfStoreys
<1>2. PICK t \in b.floors[j] : upper.min = b.height[t] /\ b.height[t] \in Int BY BandOfStoreys
<1>3. b.height[s] # None /\ b.height[t] # None BY BandOfStoreys
<1>4. b.height[s] < b.height[t] BY <1>3, FloorsAscend
<1> QED BY <1>1, <1>2, <1>4

\* An open plan has the range that the bands of the building give its floor.
Ranged == plan.view # 0 => /\ plan.band \in DOMAIN Bands
                           /\ plan.range = RangeOf(Bands, plan.band, building.lowest)
                           /\ plan.range # None

LEMMA RangedMove ==
  ASSUME Ranged, building' = building, plan' \in {plan, NoPlan}
  PROVE  Ranged'
<1>1. Bands' = Bands BY DEF Bands
<1>2. plan' = plan \/ plan'.view = 0 BY DEF NoPlan
<1> QED BY <1>1, <1>2 DEF Ranged

LEMMA RangedKept == Basics /\ Ranged /\ [Next]_vars => Ranged'
<1> SUFFICES ASSUME Basics, Ranged, [Next]_vars PROVE Ranged' OBVIOUS
<1>1. CASE EdgesBuilt \/ UNCHANGED vars BY <1>1, RangedMove DEF EdgesBuilt, vars, floor
<1>2. ASSUME NEW t \in Tasks,
             \/ Sizing(t) \/ PaintAll(t) \/ PaintWalls(t) \/ PaintRoofs(t) \/ PaintManual(t)
             \/ PaintPrimaries(t) \/ PaintFocused(t) \/ Painted(t) \/ RepaintFails(t) \/ SectionFails(t)
             \/ Restored(t) \/ Fitted(t) \/ Moded(t) \/ Rest(t)
      PROVE  Ranged'
  BY <1>2, RangedMove DEF Sizing, PaintAll, PaintWalls, PaintRoofs, PaintManual, PaintPrimaries, PaintFocused,
       Painted, RepaintFails, SectionFails, Restored, Fitted, Moded, Rest, floor
<1>3. ASSUME NEW t \in Tasks, Refresh(t) \/ BaseLayer(t) \/ WallLayer(t) \/ PrimaryLayer(t) PROVE Ranged'
  BY <1>3, RangedMove DEF Refresh, BaseLayer, WallLayer, PrimaryLayer, AskPrimaries, Mount
<1>4. ASSUME NEW t \in Tasks,
             \/ \E set \in Answers \cup {{}} : ApplyRoles(t, set)
             \/ \E set \in Picks : Select(t, set)
             \/ \E m \in Modes : SetMode(t, m)
      PROVE  Ranged'
  BY <1>4, RangedMove DEF ApplyRoles, Select, SetMode, floor
<1>5. ASSUME NEW t \in Tasks, Exit(t) \/ \E b \in DOMAIN Bands : EnterFails(t, b) PROVE Ranged'
  BY <1>5, RangedMove DEF Exit, EnterFails
<1>6. ASSUME NEW t \in Tasks, NEW b \in DOMAIN Bands, Enter(t, b) PROVE Ranged'
  <2>1. Bands' = Bands /\ building' = building BY <1>6 DEF Enter, Bands
  <2>2. /\ plan'.band = b /\ plan'.range = RangeOf(Bands, b, building.lowest)
        /\ RangeOf(Bands, b, building.lowest) # None
    BY <1>6 DEF Enter, Available
  <2> QED BY <2>1, <2>2 DEF Ranged
<1> QED BY <1>1, <1>2, <1>3, <1>4, <1>5, <1>6 DEF Next

\* What resolvePlanRange returns shows the floor and no other resolved one.
LEMMA RangeShowsFloor ==
  ASSUME Basics, Ranged
  PROVE  PlanShowsItsFloor
<1> SUFFICES ASSUME plan.view # 0
             PROVE  LET bands == Bands
                        b == plan.band
                    IN /\ 2 * bands[b].max < plan.range.cut
                       /\ Resolved(bands, b - 1) \/ building.lowest <= bands[b].min => plan.range.lower <= 2 * bands[b].min
                       /\ \A i \in DOMAIN bands \ {b} :
                            bands[i].resolved /\ (i < b => bands[b - 1].resolved) /\ (i > b => bands[b + 1].resolved) =>
                              2 * bands[i].max < plan.range.lower \/ 2 * bands[i].min > plan.range.cut
  BY DEF PlanShowsItsFloor
<1> DEFINE bands == Bands
           b == plan.band
           n == Len(building.floors)
<1>1. building \in Buildings /\ n \in Nat /\ DOMAIN bands = 1 .. n /\ DOMAIN building.floors = 1 .. n
      /\ bands = Placed(building.floors, building.height) /\ building.lowest \in Int
  BY SceneConstants, FloorsAscend DEF Basics, PlanMode, Bands, Placed
<1>2. /\ b \in 1 .. n /\ bands[b].resolved
      /\ plan.range = [cut |-> 2 * Cut(bands, b), lower |-> TwiceLower(bands, b, building.lowest)]
      /\ ~(2 * Cut(bands, b) <= 2 * bands[b].max)
  BY <1>1 DEF Ranged, RangeOf, Resolved
<1> HIDE DEF bands, n
<1>3. \A i \in 1 .. n : bands[i].resolved =>
        bands[i].min \in Int /\ bands[i].max \in Int /\ bands[i].min <= bands[i].max
  BY <1>1, BandOfStoreys
<1>4. \A i, j \in 1 .. n : i < j /\ bands[i].resolved /\ bands[j].resolved => bands[i].max < bands[j].min
  BY <1>1, BandsAscend
<1>5. Cut(bands, b) \in Int /\ plan.range.cut = 2 * Cut(bands, b)
      /\ (Resolved(bands, b + 1) => Cut(bands, b) < bands[b + 1].min)
  <2>1. CutOffset \in Int /\ Tolerance \in Int /\ Tolerance > 0 BY RangeConstants
  <2>2. CASE Resolved(bands, b + 1)
    <3>1. bands[b + 1].min \in Int BY <1>1, <1>3, <2>2 DEF Resolved
    <3> QED BY <1>2, <1>3, <2>1, <3>1 DEF Cut
  <2>3. CASE ~Resolved(bands, b + 1) BY <1>2, <1>3, <2>1, <2>3 DEF Cut
  <2> QED BY <2>2, <2>3
<1>6. 2 * bands[b].max < plan.range.cut BY <1>2, <1>3, <1>5
<1>7. Resolved(bands, b - 1) => /\ plan.range.lower = bands[b - 1].max + bands[b].min
                                /\ b - 1 \in 1 .. n /\ bands[b - 1].resolved
  BY <1>1, <1>2 DEF TwiceLower, Resolved
<1>8. ~Resolved(bands, b - 1) => plan.range.lower = 2 * building.lowest BY <1>2 DEF TwiceLower
<1>9. Resolved(bands, b - 1) \/ building.lowest <= bands[b].min => plan.range.lower <= 2 * bands[b].min
  <2>1. CASE Resolved(bands, b - 1)
    <3>1. bands[b - 1].max < bands[b].min BY <1>2, <1>4, <1>7, <2>1
    <3> QED BY <1>2, <1>3, <1>7, <2>1, <3>1
  <2>2. CASE ~Resolved(bands, b - 1) BY <1>1, <1>2, <1>3, <1>8, <2>2
  <2> QED BY <2>1, <2>2
<1>10. ASSUME NEW i \in 1 .. n, i < b, bands[i].resolved, bands[b - 1].resolved
       PROVE  2 * bands[i].max < plan.range.lower
  <2>1. b - 1 \in 1 .. n /\ Resolved(bands, b - 1) BY <1>1, <1>2, <1>10 DEF Resolved
  <2>2. bands[b - 1].max < bands[b].min BY <1>2, <1>4, <2>1, <1>10
  <2>3. bands[i].max <= bands[b - 1].max
    <3>1. CASE i = b - 1 BY <1>3, <1>10, <3>1
    <3>2. CASE i < b - 1 BY <1>3, <1>4, <1>10, <2>1, <3>2
    <3> QED BY <1>2, <1>10, <3>1, <3>2
  <2> QED BY <1>2, <1>3, <1>7, <1>10, <2>1, <2>2, <2>3
<1>11. ASSUME NEW i \in 1 .. n, i > b, bands[i].resolved, bands[b + 1].resolved
       PROVE  2 * bands[i].min > plan.range.cut
  <2>1. b + 1 \in 1 .. n /\ Resolved(bands, b + 1) BY <1>1, <1>2, <1>11 DEF Resolved
  <2>2. bands[b + 1].min <= bands[i].min
    <3>1. CASE i = b + 1 BY <1>3, <1>11, <3>1
    <3>2. CASE i > b + 1
      <4>1. bands[b + 1].max < bands[i].min BY <1>4, <1>11, <2>1, <3>2
      <4> QED BY <1>3, <1>11, <2>1, <4>1
    <3> QED BY <1>2, <1>11, <3>1, <3>2
  <2> QED BY <1>3, <1>5, <1>11, <2>1, <2>2
<1>12. ASSUME NEW i \in DOMAIN bands \ {b}, bands[i].resolved,
              i < b => bands[b - 1].resolved, i > b => bands[b + 1].resolved
       PROVE  2 * bands[i].max < plan.range.lower \/ 2 * bands[i].min > plan.range.cut
  BY <1>1, <1>2, <1>10, <1>11, <1>12
<1> QED BY <1>6, <1>9, <1>12 DEF bands

\* An open plan shows its own floor and no other resolved one (floorPlan.ts),
\* in any building whose floors ascend: also when plans are opened and closed
\* while earlier operations are still under way.
THEOREM PlanIsItsFloor == Spec => []PlanShowsItsFloor
<1>1. Init => Ranged BY DEF Init, Ranged, NoPlan
<1>2. Basics /\ Ranged => PlanShowsItsFloor BY RangeShowsFloor
<1> QED BY <1>1, <1>2, HidesHold, RangedKept, PTL DEF Spec
=============================================================================

------------------------------- MODULE MCApp -------------------------------
(***************************************************************************)
(* Instances of the browser application.  Tasks are interchangeable.       *)
(* Starting from a loaded model (a state every successful load ends in)    *)
(* leaves the whole budget of user operations to what happens next.        *)
(***************************************************************************)
EXTENDS AppController, TLC

CONSTANT Loaded     \* the model that is loaded at the start

TaskSymmetry == Permutations(Tasks)

InitLoaded ==
    /\ session = 0
    /\ messages = {} /\ pending = FALSE /\ retryQuestion = 0
    /\ card = NoCard
    /\ activeModel = Loaded /\ loadPhase = "ready"
    /\ floors = FloorOptions(Loaded, Bands, TRUE)
    /\ manualGuids = <<>> /\ resolvedChips = {} /\ resolveTimer = {}
    /\ panel = NoPanel
    /\ viewer = [model |-> Loaded, roles |-> NoRoles, manual |-> <<>>,
                 plan |-> NoBand, bands |-> Loaded]
    /\ task = [t \in Tasks |-> Idle]
    /\ token = [k \in Kinds |-> NoTask]
    /\ asked = 0
    /\ opsLeft = MaxOps

LoadedSpec == InitLoaded /\ [][Next]_vars

\* From an empty application or a loaded one.
StartedFairSpec == (Init \/ InitLoaded) /\ [][Next]_vars /\ Fairness
=============================================================================

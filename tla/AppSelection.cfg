SPECIFICATION LoadedSpec
CONSTANTS
    Tasks = {t1, t2}
    NoTask = NoTask
    Models = {a, b}
    Loaded = a
    NoModel = NoModel
    Items = {x, y}
    NoItem = NoItem
    Bands = {f}
    NoBand = NoBand
    MaxSelection = 2
    UserOps = {"pick", "panel", "group", "load", "reset"}
    MaxOps = 5
SYMMETRY TaskSymmetry
INVARIANTS
    DetailsMatchPanel
    PanelFollowsSelection

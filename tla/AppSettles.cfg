SPECIFICATION StartedFairSpec
CONSTANTS
    Tasks = {t1, t2}
    NoTask = NoTask
    Models = {a, b}
    Loaded = a
    NoModel = NoModel
    Items = {x}
    NoItem = NoItem
    Bands = {f}
    NoBand = NoBand
    MaxSelection = 2
    UserOps = {"ask", "cancel", "clear", "load", "reset", "pick", "floor"}
    MaxOps = 3
INVARIANTS
    FloorsOfActiveModel
PROPERTIES
    QuestionsSettle
    LoadsSettle
    DetailsSettle

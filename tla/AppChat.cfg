SPECIFICATION LoadedSpec
CONSTANTS
    Tasks = {t1, t2, t3}
    NoTask = NoTask
    Models = {a, b}
    Loaded = a
    NoModel = NoModel
    Items = {x}
    NoItem = NoItem
    Bands = {f}
    NoBand = NoBand
    MaxSelection = 2
    UserOps = {"ask", "cancel", "clear", "answer", "subgroup", "close_card", "load"}
    MaxOps = 4
SYMMETRY TaskSymmetry
INVARIANTS
    PendingOwned
    AnswersFollowQuestions
    RetryOfShownFailure

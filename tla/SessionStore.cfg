SPECIFICATION Spec
CONSTANTS
    Requests = {r1, r2, r3}
    Sessions = {s1, s2}
    Models = {m1, m2}
    NoModel = NoModel
    NoScope = NoScope
    NoObject = NoObject
INVARIANTS
    FollowUpOwnModel
    FollowUpOwnSession
    QuietResetIsFinal

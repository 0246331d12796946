SPECIFICATION Spec
CONSTANTS
    Objects <- MCObjects
    ClassOf <- MCClassOf
    Measured <- MCMeasured
    Linked <- MCLinked
    Ledgers <- MCLedgers
    Selections <- MCSelections
    Plans <- MCPlans
    MaxDepth = 1
    MaxSeeds = 2
    MaxIdentities = 2
    MaxQuestions = 3
    NoScope = NoScope
    NoGroup = NoGroup
    None = None
INVARIANT NoConditionDropped

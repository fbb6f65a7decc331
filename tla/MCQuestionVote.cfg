SPECIFICATION Spec
CONSTANTS
    ana = ana
    bo = bo
    none = none
    c1 = c1
    c2 = c2
    People = {ana, bo}
    NoOne = none
    Collections = {c1, c2}
    Options = {1, 2}
    SelectionCount = 1
    MaxScore = 2
    MaxVersions = 2
    MaxResults = 3
    Choices <- AllAtOnce
SYMMETRY Symmetry
INVARIANTS
    BoundWorkIsCurrent
    DecisionIsComplete
PROPERTIES
    CastVotesStand
    ImplementsDecision
CHECK_DEADLOCK FALSE

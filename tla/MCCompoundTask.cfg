SPECIFICATION Spec
CONSTANTS
    ana = ana
    bo = bo
    cy = cy
    People = {ana, bo, cy}
    SelectionCount = 1
    MaxOptions = 3
    MaxScore = 2
SYMMETRY Symmetry
INVARIANTS
    EveryoneIsAccountedFor
    OutcomeStands
    OwnerIsNeverStuck
PROPERTIES
    RoundsStayClosed
CHECK_DEADLOCK FALSE

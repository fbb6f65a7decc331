SPECIFICATION Spec
CONSTANTS
    Participants = {ana, bo, cy}
    Coordinator = lead
    NoActor = nobody
    MaxDefinitions = 2
    MaxRevisions = 2
SYMMETRY Alike
INVARIANTS
    OwnerPartIsTheOwners
    AnswersFitTheStatus
    EarlierRoundsAreClosed
    OneLiveCommitment
    OffersAreHeld
PROPERTIES
    PartsOnlyMoveByHandover
    ImplementsAgreement
CHECK_DEADLOCK FALSE

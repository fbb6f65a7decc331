SPECIFICATION FairSpec
CONSTANTS
    People = {ana, bo}
    Analysing = TRUE
    Structured = TRUE
    MaxVersions = 2
    MaxAttempts = 2
INVARIANTS
    OneCandidate
    NothingIsForgotten
PROPERTIES
    HandledIsOver
    CandidateIsSettled
    AcceptedIsFrozen
    ImplementsGate
    ImplementsLifecycle
CHECK_DEADLOCK FALSE

SPECIFICATION Spec
CONSTANTS
    Tasks = {report}
    People = {ana}
    NoOwner = nobody
    Validities = {2}
    MaxTime = 3
    MaxRevisions = 2
    Promises = {1}
    Day = 1
    ConfirmTimeout = 1
    CheckInLead = 1
    Silence = 1
    Cooldown = 1
    L2Wait = 1
    SignalTtl = 1
    TouchBudget = 1
    MaxVersions = 1
INVARIANTS
    SilenceIsSilence
CHECK_DEADLOCK FALSE

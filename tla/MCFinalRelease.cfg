SPECIFICATION Spec
CONSTANTS
    alpha = alpha
    draft = draft
    review = review
    Meetings = {alpha}
    Tasks = {draft, review}
    MeetingOf <- Both
    Console = console
    Feishu = feishu
    WorkerMode = "model"
    MaxVersions <- DraftTwice
    MaxFinals = 2
    MaxAttempts = 2
    MaxFaults = 1
INVARIANTS
    PendingApprovalIsCurrent
    ApprovedFinalIsInForce
    ReleaseIsAgreed
PROPERTIES
    ImplementsRelease
    TasksFollowLifecycle
CHECK_DEADLOCK FALSE

SPECIFICATION TermsSpec
CONSTANTS
    Participants = {ana, bo}
    Coordinator = lead
    NoActor = nobody
    MaxDefinitions = 2
    MaxRevisions = 1
    It = it
    Hints = {hinted}
    Additions = {added}
    Wordings = {broad, narrow}
    NoWording = none
SYMMETRY Alike
INVARIANTS
    TermsAreTold
    MergesLeadSomewhere
CHECK_DEADLOCK FALSE

SPECIFICATION AppFairSpec
CONSTANTS
    lead = lead
    ana = ana
    one = one
    two = two
    Names = {lead, ana}
    Accounts = {one, two}
    Speakers = {lead}
    InChat = {lead, ana}
    Lead = lead
    NoName = nobody
    NoAccount = none
    LeadAccount = one
    Claims = {ana}
    Voters = {two}
    Served = 1
    MaxRounds = 2
    MaxMessages = 2
    MaxClicks = 2
    MaxMishaps = 1
INVARIANTS
    AClickDecidesOnce
    MeetingsComeBack
PROPERTIES
    ClicksAreWorkedOff
CHECK_DEADLOCK FALSE

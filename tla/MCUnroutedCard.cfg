SPECIFICATION AppSpec
CONSTANTS
    lead = lead
    ana = ana
    one = one
    two = two
    Names = {lead, ana}
    Accounts = {one, two}
    Speakers = {lead}
    InChat = {lead, ana}
    Lead = lead
    NoName = nobody
    NoAccount = none
    LeadAccount = one
    Claims = {ana}
    Voters = {two}
    Served = 2
    MaxRounds = 2
    MaxMessages = 1
    MaxClicks = 2
    MaxMishaps = 0
PROPERTIES
    AwaitedAnswersAreTaken
CHECK_DEADLOCK FALSE

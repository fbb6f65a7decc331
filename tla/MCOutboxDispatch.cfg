SPECIFICATION FairSpec
CONSTANTS
    both = both
    single = single
    card = card
    ana = ana
    bo = bo
    Rows = {both, single}
    Cards = {card}
    People = {ana, bo}
    To <- Addressees
    MaxFaults = 2
INVARIANTS
    OneMessageEach
PROPERTIES
    ImplementsNotice
    NoRowIsForgotten
CHECK_DEADLOCK FALSE

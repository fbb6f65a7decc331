SPECIFICATION Spec
CONSTANTS
    help = help
    pace = pace
    asks = asks
    waits = waits
    Observed = {help, pace}
    Declared = {rhythm}
    Codes = {asks, waits}
    Counted <- OneRule
    Tasks = {t1, t2}
    MaxEntries = 4
SYMMETRY Alike
INVARIANTS
    ShownIsSaid
PROPERTIES
    AnswersAreFinal

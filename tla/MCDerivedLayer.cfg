SPECIFICATION Spec
CONSTANTS
    Msg = {1, 2, 3}
    Archived = {1, 2}
    Worker = {w1, w2}
    Beside = {beside}
    AutoAccept = TRUE
    MinTagged = 2
    None = none
    MaxJobs = 2
    MaxClicks = 2
    MaxFaults = 1
INVARIANTS
    SucceededMeansWhole
    NothingLeftOver
    NothingInvented
    DeltaIsDerived
PROPERTIES
    PersonDecidesFirst
CHECK_DEADLOCK FALSE

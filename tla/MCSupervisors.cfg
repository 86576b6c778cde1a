SPECIFICATION Spec
CONSTANTS
    App = {a1, a2, a3}
    Nobody = nobody
    MaxFaults = 2
SYMMETRY Interchangeable
INVARIANTS
    OneKeeper
    LeakIsRecognised
    BothAskedBeforeAnyWait
    NothingIsLeftBehind
PROPERTIES
    StoppedByItsOwn
CHECK_DEADLOCK FALSE

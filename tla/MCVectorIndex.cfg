SPECIFICATION Spec
CONSTANTS
    Msg = {1, 2}
    Setting <- MCSetting
    FileSetting <- Small
    Runner = {worker, shell}
    Builder = {page, task}
    None = none
    PageSize = 1
    BatchSize = 1
    MaxStores = 1
    MaxRuns = 2
    MaxRebuilds = 3
INVARIANTS
    StoredIsSearchable
PROPERTIES
    RunLeavesNothingBehind
SYMMETRY Alike
CHECK_DEADLOCK FALSE

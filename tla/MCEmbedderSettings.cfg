SPECIFICATION Spec
CONSTANTS
    Form = {f1, f2}
    Task = {t1, t2}
    None = none
    MaxWrites = 2
SYMMETRY Symmetry
INVARIANTS
    NoSilentOverwrite
CHECK_DEADLOCK FALSE

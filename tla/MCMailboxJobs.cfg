SPECIFICATION Spec
CONSTANTS
    one = one
    two = two
    Account = {one, two}
    Mail <- MailOf
    Shared = {1}
    Delta = {one}
    Sweeper = {"button"}
    Panel = {one}
    Nobody = nobody
    PageSize = 1
    MaxJobs = 2
    MaxFaults = 1
INVARIANTS
    ArmedMeansImported
    LedgerIsHeld
    DeltaHasAStart
    PurgedBeforeForgotten
    OneOpenJobPerSweep
CHECK_DEADLOCK FALSE

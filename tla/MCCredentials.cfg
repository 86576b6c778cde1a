SPECIFICATION CredentialSpec
CONSTANTS
    Page = {p1, p2}
    Worker = {w1}
    Mailbox = {m1, m2}
    Nothing = nothing
    MaxDeposits = 4
    MaxRuns = 2
    MaxTurns = 1
SYMMETRY Interchangeable
INVARIANTS
    LatestDepositStays
    IdleOpensTheComparedMailbox
CHECK_DEADLOCK FALSE

SPECIFICATION FairSpec
CONSTANTS
    w1 = w1
    w2 = w2
    import = import
    derive = derive
    orphan = orphan
    unheard = unheard
    NoWorker = NoWorker
    Worker <- MCWorker
    Kind <- MCKinds
    KnownKinds <- MCKnown
    HandledKinds <- MCHandled
    MailboxKinds <- MCMailbox
    ThreadKinds <- MCThread
    Error <- MCError
    MaxJobs = 1
    MaxDone = 1
    Lease = 2
    MaxAttempts = 2
    MaxFaults = 2
    Punctual = TRUE
INVARIANTS
    WorkerTypeOK
    NoStrandedRow
    OneRunner
    FailureIsAccounted
PROPERTIES
    ImplementsLifecycle
    CancelIsSticky
    EveryJobEnds

\* Readable messages that all arrive: the cancel alone fills the queue for good.
SPECIFICATION Spec
CONSTANTS
    MaxPage = 4
    Concurrency = 2
    BatchSize = 2
    MaxAttempts = 2
    Broken <- MCNone
    Gone <- MCNone
INVARIANTS SentinelHasSomewhereToGo
CHECK_DEADLOCK FALSE

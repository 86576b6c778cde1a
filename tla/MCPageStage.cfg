\* Pages smaller and larger than the queue, every failure, and a cancel.
\* Deadlock is not checked: a page that ends rests in Done, but one cancelled
\* with a full queue does stop for good (see MCPageStageWedge.cfg).
SPECIFICATION Spec
CONSTANTS
    MaxPage = 5
    Concurrency = 2
    BatchSize = 2
    MaxAttempts = 2
    Broken <- MCBroken
    Gone <- MCGone
INVARIANTS PageTypeOK GoodPageIsAccounted DeliveredOnce LedgerAfterGraph
PROPERTIES PageEnds
CHECK_DEADLOCK FALSE

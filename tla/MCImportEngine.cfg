\* Both orders a full walk may list in, every cut of a page.
SPECIFICATION FairSpec
CONSTANTS
    MaxMsg = 3
    MaxFaults = 2
    Broken <- MCBroken
    PageSize = 2
    BatchSize = 1
    CheckpointEvery = 2
INVARIANTS EngineTypeOK MarkIsHonest ResumeIsHonest GraphBeforeLedger
PROPERTIES ArmedMailIsDealtWith

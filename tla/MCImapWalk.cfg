CONSTANTS
    Mail = {m1, m2}
    Folder = {1, 2, 3}
    Inbox = 2
    Absent = Absent
    ListingSize = 1
    MaxChanges = 3
    MaxFaults = 1
SPECIFICATION FairWalkSpec
INVARIANTS
    BehindIsArchived
    FiledUnderItsOwn
PROPERTY MailComesIn
CHECK_DEADLOCK FALSE

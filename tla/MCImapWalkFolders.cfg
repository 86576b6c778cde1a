CONSTANTS
    Mail = {m1}
    Folder = {1, 2, 3}
    Inbox = 2
    Absent = Absent
    ListingSize = 1
    MaxChanges = 3
    MaxFaults = 0
SPECIFICATION WalkSpec
INVARIANT NewFoldersAreHarmless
CHECK_DEADLOCK FALSE

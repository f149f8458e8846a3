CONSTANTS
    PageId = {1, 2, 3, 4}
    Title = {1, 2, 3, 4}
    IdTail <- MCIdTail
    TypedTitles = {2, 3}
    MaxSegs = 4
    MaxHops = 4
    InitialDisks <- MCInitialDisks
    MaxOps = 2
    MaxEdits = 1
    MaxCrashes = 2
SPECIFICATION FairSpec
INVARIANTS
    TypeOK
    TextKept
    LinksFollow
    SidebarFollowsTree
PROPERTIES
    RecoveredAllOrNothing
    NoStaleOverwrite
    EveryRunEnds
CHECK_DEADLOCK FALSE

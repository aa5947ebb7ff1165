\* Two cards, two requests, one of them slow.
SPECIFICATION FairSpec
CONSTANTS
    r1 = r1
    r2 = r2
    Cards = 2
    Limit <- OnePerCard
    Requests <- Two
    Slow <- OneSlow
    MaxInbox = 2
    MaxDials = 1
    All = All
    None = None
INVARIANTS SlotsMatchTasks DrainIsClean
PROPERTIES ImplementsDial EverythingEnds
CHECK_DEADLOCK FALSE

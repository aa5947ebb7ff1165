\* One arena, two epochs, one failed call, one death of the process.
SPECIFICATION FairSpec
CONSTANTS
    a = a
    ArenaOrder <- OneArena
    MaxIndex = 2
    StartBlock = 2
    MaxBlock = 3
    Gap = 1
    Refresh = 2
    MaxFaults = 1
    MaxCrashes = 1
    Burn = Burn
    NoWeights = NoWeights
    NoThread = NoThread
INVARIANTS KeptIsOnChain
PROPERTIES OldResultNeverReturns LiveRoundIsBurned SettledIsPaid

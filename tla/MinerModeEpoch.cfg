\* Two miners, two rounds within one ban, two rows, a read that fails, a death.
SPECIFICATION FairSpec
CONSTANTS
    m1 = m1
    m2 = m2
    d1 = d1
    d2 = d2
    Miners <- TwoMiners
    Position <- Order
    Weights <- Distinct
    Changes <- Distinct
    Routers <- Equal
    Outputs <- Equal
    Worth <- EveryPool
    MaxEpoch = 1
    BanEpochs = 2
    MaxRows = 2
    MaxFaults = 1
    MaxCrashes = 1
    Nothing = Nothing
    None = None
    MIRROR_ATTEMPTS = 2
    Blob = 3
    Transfers <- ThreeOrFour
    Files <- FilesOf
    Entries <- EntriesOf
    Stops <- StopsAt
    Pasts <- OneOrTwo
    Hotkeys = {1, 2}
    Lots <- TwoLots
    BanLists <- BannedSince
    Rounds = {1}
    PEER_CAP_PER_COLDKEY = 3
    DRAFTS_PER_SOURCE = 4
    MIN_COMMON_ITEMS = 2
    SAME_OUTPUTS = 95
    MIN_COVERAGE = 90
    Missing = Missing
    NO_TOKENS = NO_TOKENS
INVARIANTS FlaggedIsNotPaid RoundIsSettledRight  MeasuredIsMirrored RecordsAreWhole OutcomeIsOfItsRows EvidenceIsSound
PROPERTY RoundsAreReported
\* The last round ends the model.
CHECK_DEADLOCK FALSE

SPECIFICATION Spec
CONSTANTS
    Arenas = {"sql", "arena"}
    Users = {"user", "other"}
    Shas = {"r1", "r2"}
    Salts = {"s1", "s2", "s3", "s4"}
    Profiles = {"P1", "K"}
    Tracks = {"track"}
    Sources = {"source"}
    Keys = {"key"}
    Shorts = {"short", "long"}
    Hashes = {"hash"}
    Value <- Numbers
    Bytes <- Length
    SealDigest <- Digest
    MaxBytes = 128
    HotkeyOrder <- Three
    Posted <- Slots
    CommitBlocks <- ThreeBlocks
    CommitPlaces <- ThreePlaces
    EpochSettings <- SomeEpochs
    RoundSettings <- SomeRounds
    BlocksRead <- SomeBlocks
    Arena = "sql"
    User = "user"
    Miners = {"h1"}
    Charged = FALSE
    Attempts = 2
    Draws <- Salted
    Epochs <- FiveBlocks
    MaxCommands = 3
    MaxHeight = 3
INVARIANTS SealedCanBeRevealed
CHECK_DEADLOCK FALSE

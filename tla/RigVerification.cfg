SPECIFICATION Spec
CONSTANTS
    r1 = r1
    r2 = r2
    Rigs <- MCRigs
    Owner <- MCOwner
    MaxInflight = 2
    PerMiner = 1
    UNREACHABLE_TICKS = 1
    MaxErrors = 1
    MaxCrashes = 1
    U16_MAX = 7
    MAX_GAP_SECONDS = 2
    UPTIME_RAMP = 2
    None = None
INVARIANTS PassesAreSound RigsAreOwed
PROPERTY EarlyIsVerified

\* Two runs of the command; two failures anywhere; the inputs may change in between.
SPECIFICATION FairSpec
CONSTANTS
    Plan <- SmallPlan
    ENGINE_ATTEMPTS = 2
    ROW_ATTEMPTS = 2
    MaxCalls = 1
    MaxFaults = 2
    MaxLives = 2
    MaxVersion = 1
    NoTranscript = NoTranscript
 
PROPERTIES ImplementsLog RunEnds
CHECK_DEADLOCK FALSE

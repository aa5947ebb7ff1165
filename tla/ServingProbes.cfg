SPECIFICATION ProbesSpec
CONSTANTS
    CardList <- TwoCards
    Declared <- Declares
    Catalogue <- Entries
    Calibrated <- Stored
    Pool <- Items
    PerOperator = 1
    Files <- Written
    Arena = "sql"
    ServerSets <- Offers
    Floor = 70
    Quality <- Graded
    Answers <- Heard
    Chats <- Chatted
    Listings <- Seen
    EnvelopeOf <- Envelopes
    MaxMoves = 1
    Vocabulary = {0, 1, 2}
    Logits <- SomeLogits
    Texts <- SomeTexts
    Contexts = {0, 3, 5, 6}
    Honest <- HonestRuns
    Substituted <- OtherRuns
    Alphas = {1, 60}
    Words = {"p", "q", "f", "g", "x", "y", "broken"}
    CallLists <- SomeCalls
INVARIANTS ReportsAreFair 
PROPERTY EveryCardHasItsTurn
CHECK_DEADLOCK FALSE

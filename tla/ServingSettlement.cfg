\* Three operators with four cards, two system pools, every read may fail.
SPECIFICATION Spec
CONSTANTS
    Hotkeys = {1, 2, 3, 4}
    NoColdkey = none
    none = none
    k = k
    other = other
    d = d
    e = e
    Cards <- MCCards
    Documents <- MCDocuments
    Catalogues = {{}, {2, 3}}
    Serving <- MCServing
    Pools = {"slm", "harness"}
    Standings <- MCStandings
    Metagraphs = {{0, 1, 2, 3, 4}, {1, 3, 4}}
    Owners = {{}, {0}}
    Payout <- MCPayout
    Scale = 100
    ScoreScale = 1
    Total = 50
INVARIANTS PoolIsPaidOrBurned  VectorIsWhole
\* A vector that is sent ends the model.
CHECK_DEADLOCK FALSE

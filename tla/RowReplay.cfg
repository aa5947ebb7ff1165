CONSTANTS
    Plan <- ThreeRows
    Step <- Harness
    Texts = {"good", "odd"}
    FaultOf <- BothFaulty
    ModelFaults = TRUE
    MaxModelCalls = 2
    Tokens <- Prompts
    MaxInput = 4
    Allowance = 1
    Edits <- OneEdit
    Patience = 6
    Receipted <- SmallReceipts
    MaxFailures = 2
SPECIFICATION RowSpec
INVARIANTS VerdictIsRight  RootBindsReceipts

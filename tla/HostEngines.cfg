\* Two cards, a model and a certified image; one fault, one death.
SPECIFICATION FairEngines
CONSTANTS
    d1 = d1
    d2 = d2
    k1 = k1
    k2 = k2
    k3 = k3
    k4 = k4
    NCards = 2
    Models = {1, 2}
    Digests = {d1, d2}
    None = None
    CardGb <- TwoCards
    LetIn <- All
    Images <- LlamaOnly
    AcceptLicences = TRUE
    Imaged = {2}
    Wrong <- WrongManifest
    Catalogues <- SomeCatalogues
    Wishes <- SomeWishes
    Keys = {k1, k2, k3, k4}
    MaxChanges = 2
    MaxFaults = 1
    MaxEnds = 1
    Old = Old
    New = New
INVARIANTS PlanSettles 
PROPERTY PlanIsReached

\* Two cards, two models, two changes of plan.
SPECIFICATION FairSpec
CONSTANTS
    g1 = g1
    g2 = g2
    m1 = m1
    m2 = m2
    Gpus <- TwoCards
    Offered <- TwoModels
    Slow <- SlowCard
    MaxReviews = 2
    NoModel = NoModel
INVARIANTS OneSystemPerCard AgentIsConsistent
PROPERTY CardsStayAndStopsCome
CHECK_DEADLOCK FALSE

SPECIFICATION FairSpec
CHECK_DEADLOCK FALSE
CONSTANTS
    t1 = t1
    t2 = t2
    c1 = c1
    c2 = c2
    None = None
    MaxRounds = 2
    MaxDepth = 1
    Topic = {t1, t2}
    RootTopic = t1
    Coordinator = {c1, c2}
    NodeOf <- MCNodeOf
    Elsewhere <- MCElsewhere
    MaxFaults = 1
INVARIANTS
    TypeOK
    AnswerMatchesRun
    OneTaskPerRound
    NoCycle
PROPERTIES
    ImplementsInquiry
    EveryRequestSettled

SPECIFICATION FairSpec
CONSTANTS
    n1 = n1
    n2 = n2
    Endpoints = {n1, n2}
    PcNodes = {n2}
    SenderChoices <- OneSender
    TesterPresent = TRUE
    Budgets <- SplitBudgets
PROPERTY EveryRoundEnds
CHECK_DEADLOCK FALSE

SPECIFICATION FairSpec
CONSTANTS
    n1 = n1
    n2 = n2
    Endpoints = {n1, n2}
    PcNodes = {}
    SenderChoices <- OneSender
    TesterPresent = TRUE
    Budgets <- SplitBudgets
PROPERTIES StartsAsPlanned CompletionIsEarned NoEndlessWait EveryRoundEnds
CHECK_DEADLOCK FALSE

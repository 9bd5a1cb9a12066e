SPECIFICATION FairAppSpec
CONSTANTS
    Threads = {main, t1, t2}
    Main = main
    N = 3
INVARIANTS IterationExclusive ContractKept DependenciesOutlive
PROPERTIES WaitReturns FailedStartReturns
CHECK_DEADLOCK FALSE

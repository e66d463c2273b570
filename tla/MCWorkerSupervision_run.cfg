SPECIFICATION FairSpec
CONSTANTS
    f1 = f1
    f2 = f2
    cli1 = cli1
    cli2 = cli2
    lib = lib
    None = None
    Invalid = Invalid
    Run = run1
    OtherRun = run2
    NumWorkers = 2
    Paths <- OwnPaths
    DependsOn <- StepDependencies
    Files = {f1, f2}
    Claims <- OwnClaims
    Cli = {cli1}
    Library = {}
    MaxLaunches = 3
    MaxFaults = 1
INVARIANTS
    TypeOK
    TrailInOrder
    DependenciesAccepted
    PrintedOutcomes
    RestartFindsUnfinished
PROPERTIES
    RunEnds
CHECK_DEADLOCK FALSE

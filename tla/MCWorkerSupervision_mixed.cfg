SPECIFICATION Spec
CONSTANTS
    f1 = f1
    f2 = f2
    cli1 = cli1
    cli2 = cli2
    lib = lib
    None = None
    Invalid = Invalid
    Run = run1
    OtherRun = run2
    NumWorkers = 2
    Paths <- OwnPaths
    DependsOn <- StepDependencies
    Files = {f1, f2}
    Claims <- OthersClaims
    Cli = {cli1}
    Library = {lib}
    MaxLaunches = 1
    MaxFaults = 1
INVARIANTS
    SuccessesAreClean
PROPERTIES
    ImplementsContract
CHECK_DEADLOCK FALSE

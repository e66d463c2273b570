SPECIFICATION FairSpec
CONSTANTS
    m1 = m1
    None = None
    Managers = {m1}
    MaxLaunches = 2
    MaxFaults = 1
INVARIANTS
    NoStraySignal
    TimedOutGroupAsked
    OutputOfThisRun
PROPERTIES
    WaitEnds
    ImplementsContract
CHECK_DEADLOCK FALSE

SPECIFICATION FairSpec
CONSTANTS
    p1 = p1
    p2 = p2
    p3 = p3
    Absent = Absent
    Broken = Broken
    Processes = {p1, p2}
    NumTables = 3
    Latest = 2
    Found <- AnyDatabase
    MaxFaults = 2
INVARIANTS
    OperationsFindSchema
    BackedUpBeforeChange
PROPERTIES
    OpensInTheEnd

SPECIFICATION FairSpec
CONSTANTS
    r1 = r1
    r2 = r2
    a = a
    b = b
    cli1 = cli1
    cli2 = cli2
    api = api
    None = None
    Runs = {r1}
    Bases = {a}
    Sessions = {cli1, api}
    Api = api
    Workers = {1, 2}
    RetryWorkers = {2}
    RetrySequences = {3}
    PlanSize <- TwoTickets
    ContiguousPlans = {r1}
    MaxFaults = 1
INVARIANTS
    DelegatingHasTasks
    DelegatedCovers
PROPERTIES
    TicketsSettle
    AssignmentStable

SPECIFICATION Spec
CONSTANTS
    r1 = r1
    r2 = r2
    a = a
    b = b
    cli1 = cli1
    cli2 = cli2
    api = api
    None = None
    Runs = {r1, r2}
    Bases = {a}
    Sessions = {cli1}
    Api = None
    Workers = {1, 2}
    RetryWorkers = {}
    RetrySequences = {1}
    PlanSize <- TwoThenOne
    ContiguousPlans = {r1, r2}
    MaxFaults = 0
INVARIANTS
    DelegatedToOwnRun

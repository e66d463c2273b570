SPECIFICATION Spec
CONSTANTS
    r1 = r1
    r2 = r2
    a = a
    b = b
    cli1 = cli1
    cli2 = cli2
    api = api
    None = None
    Runs = {r1, r2}
    Bases = {a, b}
    Sessions = {cli1, api}
    Api = api
    Workers = {1}
    RetryWorkers = {1}
    RetrySequences = {1}
    PlanSize <- OneTicket
    ContiguousPlans = {r1}
    MaxFaults = 1
INVARIANTS
    TypeOK
    SharedBaseCommit
    OneBuilderPerWorktree
    RecordedWorkerPrepared
    QueuesAgree
    NoDuplicateQueueEntry
PROPERTIES
    ImplementsLedger

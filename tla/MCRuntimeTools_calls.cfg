SPECIFICATION FairSpec
CONSTANTS
    t1 = t1
    t2 = t2
    code = code
    cache = cache
    None = None
    Callers = {t1, t2}
    Files = {code, cache}
    Assigned = {code}
    CheckFiles = {code, cache}
    MaxVersions = 2
INVARIANTS
    TypeOK
    ReportedCommitHasChanges
PROPERTIES
    ImplementsAtomicEdits
    ScopeJudged
    CallsReturn

SPECIFICATION FairSpec
CONSTANTS
    d1 = d1
    d2 = d2
    d3 = d3
    None = None
    Start = start
    Decisions = {d1, d2, d3}
    MaxFailures = 1
    Stops = TRUE
INVARIANTS
    TypeOK
    DecisionMeant
    RevisionUsesItsFeedback
    IdleRunIsAnswerable
PROPERTIES
    ImplementsReview
    EveryRequestAnswered
CHECK_DEADLOCK FALSE

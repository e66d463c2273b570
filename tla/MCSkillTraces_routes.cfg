SPECIFICATION Spec
CONSTANTS
    RequiredSkills = {"implement", "tdd", "code-review"}
    OtherStages <- SideStages
    Statuses = {"completed", "failed"}
    OwnNumbers = {6}
    MaxTrace = 5
INVARIANTS
    GateDecidesRoute
    RouteCanBeRepeated
CHECK_DEADLOCK FALSE

SPECIFICATION FairSpec
CONSTANTS
    c1 = c1
    c2 = c2
    DomainNames = {d1, d2}
    PlanNames = {p1}
    Callers = {c1}
    PlanOf <- OnePlan
    Uses <- SeveralCommands
PROPERTIES
    Answered

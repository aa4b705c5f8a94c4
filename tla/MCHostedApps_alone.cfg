SPECIFICATION Spec
CONSTANTS
    c1 = c1
    c2 = c2
    DomainNames = {d1}
    PlanNames = {p1}
    Callers = {c1, c2}
    PlanOf <- OnePlan
    Uses <- BesideButtons
INVARIANTS
    TypeOK
    ReloadPending
PROPERTIES
    AnswerTrue
    MonitorStartTakesOver
SYMMETRY NameSymmetry

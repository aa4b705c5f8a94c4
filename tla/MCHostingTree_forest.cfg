SPECIFICATION Spec
CONSTANTS
    Unlimited = Unlimited
    SuperUser = SuperUser
    PlanNames = {Unlimited, p1, p2, p3}
    UserNames = {u1, u2, u3}
    DomainNames = {d1}
    Fields = {"plan_disk_space", "plan_max_plans"}
    Counts = {0, 1, 2}
    Maxima <- MCMaxima
    Submissions <- Roomy
    TopCount = 4
INVARIANTS
    TypeOK
    OwnershipForest
SYMMETRY NameSymmetry

SPECIFICATION SpecNoMoves
CONSTANTS
    Unlimited = Unlimited
    SuperUser = SuperUser
    PlanNames = {Unlimited, p1, p2}
    UserNames = {u1, u2, u3, u4}
    DomainNames = {d1}
    Fields = {"plan_disk_space", "plan_max_plans"}
    Counts = {0, 1, 2}
    Maxima <- MCMaxima
    Submissions <- Limits
    TopCount = 3
INVARIANTS
    HomeIsPlan
    WalkReachesTop
    MaximumInForce
PROPERTIES
    AddedWithinLimits
SYMMETRY NameSymmetry

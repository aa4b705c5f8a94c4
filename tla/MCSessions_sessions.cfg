SPECIFICATION BrowserSpec
CONSTANTS
    s1 = s1
    s2 = s2
    Session = {s1, s2}
    root = root
    alice = alice
    bob = bob
    gold = gold
    silver = silver
    User = {root, alice}
    Admin = root
    Plan = {gold}
    PlanOwner <- FlatOwner
    PlanOf <- FlatPlan
    SshUser = {alice}
    Shell = {c1}
    Waiting = 2
    None = None
INVARIANTS
    TypeOK
    RecordIsWatched
    SignedInHasAccount
    AskedSessionIsThere
    TerminalIsLive
PROPERTIES
    NoShellLeftBehind
    IdleEnds

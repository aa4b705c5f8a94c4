SPECIFICATION Spec
CONSTANTS
    s1 = s1
    s2 = s2
    Session = {s1, s2}
    root = root
    alice = alice
    bob = bob
    gold = gold
    silver = silver
    User = {root, alice, bob}
    Admin = root
    Plan = {gold, silver}
    PlanOwner <- ChainOwner
    PlanOf <- ChainPlan
    SshUser = {}
    Shell = {}
    Waiting = 1
    None = None
INVARIANTS
    RemovedIsSignedOut

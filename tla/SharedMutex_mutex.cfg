SPECIFICATION Spec
CONSTANTS
    Workers = {w1, w2, w3}
    Master = master
    NoPid = nobody
    MaxCount = 4
INVARIANTS TypeOK Owned Counted NoLostWakeup
PROPERTIES SomebodyEnters

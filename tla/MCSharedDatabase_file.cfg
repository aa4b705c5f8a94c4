SPECIFICATION DaySpec
CONSTANTS
    PanelChanges = {f1}
    ShellChanges = {k1, k2}
    Suspension = Suspension
    Undefined = {undefined}
    Slots = {1}
INVARIANTS
    TypeOK
    PanelKnowsFile
PROPERTIES
    QuotaKept

SPECIFICATION SpecForms
CONSTANTS
    PanelChanges = {f1, f2}
    ShellChanges = {k1}
    Suspension = Suspension
    Undefined = {undefined}
    Slots = {1, 2}
PROPERTIES
    PanelKeepsItsChanges

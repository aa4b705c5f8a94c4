SPECIFICATION Spec
CONSTANTS
    UserNames = {u1, u2, u3}
PROPERTIES
    FirstChangePutsRight
SYMMETRY UserSymmetry

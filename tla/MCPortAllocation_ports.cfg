SPECIFICATION Spec
CONSTANTS
    DomainNames = {d1, d2, d3, d4}
    LowPort = 1
    HighPort = 34
    PortsPerDomain = {1, 2, 3}
    Ranges <- MCRanges
INVARIANTS
    TypeOK
    OnePortApart
    OnePortInRange
    AdmittedFindsPorts
PROPERTIES
    RenumberedApart
SYMMETRY NameSymmetry

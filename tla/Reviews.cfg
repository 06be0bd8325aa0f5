SPECIFICATION Spec
CONSTANTS
    positive = positive
    critical = critical
    reproduction = reproduction
    other = other
    None = None
    Roles <- MCRoles
    Selections <- MCSelections
    Verdicts <- MCVerdicts
SYMMETRY Symmetry
INVARIANTS
    PrNeedsEveryRole
    ObjectionsPrevail

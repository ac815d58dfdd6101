SPECIFICATION Spec
CONSTANTS
    r1 = r1
    r2 = r2
    nothing = nothing
    Repositories = {r1, r2}
    Branches = {}
    Nothing = nothing
    MaxOpens = 2
    MaxActions = 1
SYMMETRY RepositorySymmetry
INVARIANTS
    RowsAreOfGraph
\* The bounds end behaviours.
CHECK_DEADLOCK FALSE

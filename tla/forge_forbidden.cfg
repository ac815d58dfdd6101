\* A GitHub remote, and a token that grants too little.
SPECIFICATION ForgesSpec
CONSTANTS
    Hosts = {"github.com"}
    PerPage = 1
    MaxPulls = 2
    MaxDeeds = 1
INVARIANTS
    ForbiddenIsDenied
CHECK_DEADLOCK FALSE

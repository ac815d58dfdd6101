\* A linked worktree, in which another program may leave an operation in progress.
SPECIFICATION ProviderSpec
CONSTANTS
    Size = 1
    Linked = TRUE
    MaxCommits = 2
    MaxActs = 1
PROPERTIES
    ResetsNothingPending

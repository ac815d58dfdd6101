\* The operations with an input of their own; and every kind but patches, with keys
\* pressed before the repository is open; the provider's calls on the main worktree, and
\* one act of another program at any moment.  Under fairness of threads and messages.
SPECIFICATION AllSpec
CONSTANTS
    b1 = b1
    b2 = b2
    nothing = nothing
    Branches = {b1, b2}
    Nothing = nothing
    Names <- ComposerKinds
    EagerKeys = FALSE
    MaxMutations = 2
    MaxOpenings = 3
    Size = 2
    Linked = FALSE
    MaxCommits = 2
    MaxActs = 1
INVARIANTS
    ConfirmingHasItsInput
    NothingResurrected
    LoopConverges
PROPERTIES
    EagerKeepsPromise
    ConcludesOnceOpen
    ActsOnConfirmedHead
    MessagesLandOnTheirCommits
    CompletedAppliesPlan
\* A commit confirmed without a repository leaves no key but Ctrl+C.
CHECK_DEADLOCK FALSE

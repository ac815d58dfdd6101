\* Two sessions on the worktrees of one repository and on another; one session that
\* refreshes, mutates and switches between them; one whose cache is queried meanwhile.
\* A value told to the frontend, changed three times and sent back; a run of gitsail;
\* a call of git by the core or the editor.
SPECIFICATION AllSpec
CONSTANTS
    s1 = s1
    s2 = s2
    Sessions = {s1, s2}
    Repositories <- AllRepositories
    Keys = {"main.git", "other.git"}
    LockKey <- SharedGitDir
    Nobody = Nobody
    Kinds = {"branch"}
    Operations = {o1}
    MaxRefs = 1
    MaxGeneration = 3
    MaxTickets = 2
    MaxQueries = 1
    MaxSwitches = 2
    Null = Null
    MaxEdits = 3
    PipeSize = 1
    Cap = 1
    MaxBytes = 2
INVARIANTS
    OutputIsWhole
    NothingLeftRunning
    NothingOfAnotherRepository
    CacheNotOlderThanStatus
    CacheSeesOwnMutations
    WireIsUnderstood
    CliTells
PROPERTIES
    Returns
    SerializesMutations
    StatusNeverGoesBack
\* The bounds end behaviours.
CHECK_DEADLOCK FALSE

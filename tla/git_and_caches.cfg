\* Calls on stashes, the index, refs and a remote, others acting twice; every read
\* of at most two things; two queriers and an invalidator on a cache of two entries.
SPECIFICATION AllSpec
CONSTANTS
    p1 = p1
    p2 = p2
    b1 = b1
    b2 = b2
    none = none
    Paths = {p1, p2}
    Branches = {b1, b2}
    None = none
    Families = {"stash", "index", "refs", "remote"}
    MaxStashes = 3
    MaxCommits = 3
    MaxActs = 2
    Nothing = Nothing
    MaxFileDiff = 3
    ReadKinds = {"status", "refs", "tags", "worktrees", "diff", "blame", "log", "pages",
                 "head", "remotes", "reflog", "sides", "lines",
                 "commit diff", "compared", "amended", "content"}
    MaxThings = 2
    MaxOutput = 20
    MaxMoves = 2
    q1 = q1
    q2 = q2
    i1 = i1
    k1 = k1
    k2 = k2
    k3 = k3
    Queriers = {q1, q2}
    Invalidators = {i1}
    Keys = {k1, k2, k3}
    Capacity = 2
    MaxQueries = 3
    MaxChanges = 2
INVARIANTS
    ActsOnConfirmedStash
    ReadsAgree
    PartsWereTrue
    SizeBound
    StaleOnlyAcrossInvalidation
PROPERTIES
    LossIsDestructive
    PushesLoseOnlyWhatWasSeen
    AnswersTellWhatHappened
\* The bounds end behaviours.
CHECK_DEADLOCK FALSE

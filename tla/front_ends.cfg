\* The window with two repositories, the stores of settings with two threads, the
\* editor with a file in each of two repositories.
SPECIFICATION AllSpec
CONSTANTS
    r1 = r1
    r2 = r2
    nothing = nothing
    Repositories = {r1, r2}
    Branches = {}
    Nothing = nothing
    MaxOpens = 2
    MaxActions = 2
    c1 = c1
    c2 = c2
    light = light
    unset = unset
    p1 = p1
    p2 = p2
    p3 = p3
    openGraph = openGraph
    openStatus = openStatus
    Commands = {c1, c2}
    Themes = {light}
    Unset = unset
    Places = {p1, p2, p3}
    Shortcuts = {openGraph, openStatus}
    MaxRecent = 2
    Day = 1
    MaxClock = 3
    MaxCalls = 3
    MaxCrashes = 1
    f1 = f1
    f2 = f2
    rootA = rootA
    rootB = rootB
    repoA = repoA
    repoB = repoB
    noFile = noFile
    Files = {f1, f2}
    RootOf <- Directories
    RepositoryOf <- DirectoriesOf
    NoFile = noFile
    NoRepository = nothing
    MaxEvents = 3
    t1 = t1
    t2 = t2
    main = main
    other = other
    Null = nothing
    Topics = {t1, t2}
    Main = main
    Other = other
    Views <- AllViews
    MaxAsked = 3
INVARIANTS
    StatusIsOfShownRepository
    GraphIsOfOpenRepository
    FilesHoldWhatWasAsked
    BindingFollowsEditor
    DecorationsAreCurrent
    ShownIsOfLastRequest
PROPERTIES
    NoUnaskedRequest
\* The bounds end behaviours, and the programs may be left alone.
CHECK_DEADLOCK FALSE

\* Each panel in turn, its detail views, and a rename; and the graph of every history
\* of four commits or fewer, in pages of two; and pull requests on three hosts, with two
\* changes of remotes, tokens or forges;
\* and every key of the terminal, in every context, with two files of shortcuts.
SPECIFICATION AllSpec
CONSTANTS
    n1 = n1
    n2 = n2
    n3 = n3
    c1 = c1
    c2 = c2
    nothing = nothing
    everything = everything
    odd = odd
    Nothing = nothing
    PanelSets <- OneAtATime
    Files = {1, 2}
    Names = {n1, n2}
    MaxChanges = 2
    MaxGeneration = 2
    MaxRequests = 2
    MaxHistory = 4
    Histories <- SmallHistories
    Filters = {everything, odd}
    NoFilter = everything
    Selects <- OddOnly
    PageSize = 2
    MaxPages = 4
    MaxSearches = 1
    MaxCommits = 1
    Configs <- TwoFiles
    Rebased <- TwoCommits
    Absent = nothing
    MaxAwaited = 1
    Hosts = {"github.com", "gitlab.com", "gitlab.own"}
    PerPage = 1
    MaxPulls = 3
    MaxDeeds = 2
SYMMETRY NameSymmetry
INVARIANTS
    CurrentIsFresh
    DiffIsOfSelectedFile
    LayoutIsTrue
    LoadingHasItsRequest
    ListingsAreTrue
PROPERTIES
    KeysActOnTheirContext
\* The bounds end behaviours.
CHECK_DEADLOCK FALSE

\* A search that selects one commit of two: the next page is of the whole log.
SPECIFICATION AllSpec
CONSTANTS
    n1 = n1
    n2 = n2
    n3 = n3
    c1 = c1
    c2 = c2
    nothing = nothing
    everything = everything
    odd = odd
    Nothing = nothing
    PanelSets <- OneAtATime
    Files = {1}
    Names = {n1}
    MaxChanges = 0
    MaxGeneration = 1
    MaxRequests = 0
    MaxHistory = 4
    Histories <- SmallHistories
    Filters = {everything, odd}
    NoFilter = everything
    Selects <- OddOnly
    PageSize = 1
    MaxPages = 3
    MaxSearches = 1
    MaxCommits = 0
    Configs <- TwoFiles
    Rebased <- TwoCommits
    Absent = nothing
    MaxAwaited = 0
    Hosts = {"github.com"}
    PerPage = 1
    MaxPulls = 2
    MaxDeeds = 0
INVARIANTS
    ResultsAreOfSearch
CHECK_DEADLOCK FALSE

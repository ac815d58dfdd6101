\* A rebase plan that git refuses to begin.
SPECIFICATION ProviderSpec
CONSTANTS
    Size = 2
    Linked = FALSE
    MaxCommits = 2
    MaxActs = 0
PROPERTIES
    CompletedIsFinished

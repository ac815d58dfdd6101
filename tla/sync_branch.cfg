SPECIFICATION StoresSpec
CONSTANTS
    t1 = t1
    t2 = t2
    main = main
    other = other
    nothing = nothing
    Null = nothing
    Topics = {t1, t2}
    Main = main
    Other = other
    Views <- AllViews
    MaxAsked = 3
SYMMETRY TopicSymmetry
INVARIANTS
    SyncsCurrentBranch
CHECK_DEADLOCK FALSE

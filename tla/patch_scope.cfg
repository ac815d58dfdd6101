\* A diff of two files, of which one may be cut.
SPECIFICATION ReadsSpec
CONSTANTS
    Nothing = Nothing
    MaxFileDiff = 3
    ReadKinds = {"diff"}
    MaxThings = 2
    MaxOutput = 20
    MaxMoves = 0
INVARIANT PatchIsItsScope
CHECK_DEADLOCK FALSE

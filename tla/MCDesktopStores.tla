---------------------------- MODULE MCDesktopStores ----------------------------
\* Small instances of DesktopStores.
EXTENDS DesktopStores, TLC

CONSTANTS t1, t2, main, other, nothing

AllViews == {"diff", "blame", "search", "lists", "pulls", "writing", "merge", "refs"}
TopicSymmetry == Permutations(Topics)
=============================================================================

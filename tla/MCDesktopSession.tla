--------------------------- MODULE MCDesktopSession ---------------------------
\* Small instances of DesktopSession.
EXTENDS DesktopSession, TLC

CONSTANTS r1, r2, nothing

RepositorySymmetry == Permutations(Repositories)
=============================================================================

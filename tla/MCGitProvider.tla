---------------------------- MODULE MCGitProvider ----------------------------
\* Small instances of GitProvider.
EXTENDS GitProvider
=============================================================================

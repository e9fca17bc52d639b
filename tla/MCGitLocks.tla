---------------------------- MODULE MCGitLocks ----------------------------
EXTENDS GitLocks
CONSTANTS g1, g2, u
=============================================================================

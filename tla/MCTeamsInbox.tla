----------------------------- MODULE MCTeamsInbox -----------------------------
EXTENDS TeamsInbox

CONSTANTS s1, s2, s3, agent

MCSender == [m \in Procs |-> agent]
=============================================================================

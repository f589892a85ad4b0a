-------------------------- MODULE MCWorkspaceRetention --------------------------
EXTENDS WorkspaceRetention, TLC

\* Invocations of the cron are interchangeable (for the run without liveness).
Symmetry == Permutations(Workers)
===============================================================================

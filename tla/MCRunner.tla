------------------------------ MODULE MCRunner ------------------------------
EXTENDS RunnerProps
=============================================================================

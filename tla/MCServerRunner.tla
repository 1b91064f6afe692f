--------------------------- MODULE MCServerRunner ---------------------------
\* Instances of ServerRunner for TLC.
EXTENDS ServerRunnerClaims

OneLoop == <<1, 1, 1>>

\* The first hook runs on the thread that starts the server at load.
ThreadStarts == <<2, 1>>
=============================================================================

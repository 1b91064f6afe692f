------------------------- MODULE ServerRunnerClaims -------------------------
(***************************************************************************)
(* What lifecycle.py says of drain(), and a second event loop refutes.     *)
(***************************************************************************)
EXTENDS ServerRunner

\* drain() awaits the background task: the runner forgets a server only once
\* its task is over.  A drain on another loop than the server's cannot wait for
\* it and forgets it all the same; the task then finds no _server to shut down,
\* and its socket stays open.
DrainAwaitsServer ==
  [][\A i \in Hooks :
       ref = i /\ ref' = None => task'[i] \in {"done", "cancelled"}]_vars
=============================================================================

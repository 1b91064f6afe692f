------------------------- MODULE ToolRequestClaims -------------------------
(***************************************************************************)
(* What schemas.py tells the agent of a tool's reply, and tools.py does    *)
(* not keep.                                                               *)
(***************************************************************************)
EXTENDS ToolRequest

\* node_exec returns the exit code: a command that failed, or that the node
\* could not run, is not reported with return code 0.
ReportsExitCode ==
  \A t \in Tools : kind[t] = "exec" /\ report[t] = "success" =>
    LET r == result[Current(t)] IN r.status = "ok" /\ r.exit_code = 0
===========================================================================

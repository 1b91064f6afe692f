------------------------- MODULE NodeServerClaims -------------------------
(***************************************************************************)
(* What a document of the repository says of the server and its steps do   *)
(* not do.  One run refutes it; the findings of PROJECT.json quote the     *)
(* line.                                                                   *)
(***************************************************************************)
EXTENDS NodeServer

\* docs/REQUIREMENTS.md FR-6.1: every exception is surfaced as a structured
\* error.  A node lost mid-call ends an HTTP request with a bare exception.
NoCrashedCall == \A c \in Calls : outcome[c] # "crashed"
===========================================================================

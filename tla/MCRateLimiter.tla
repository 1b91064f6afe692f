--------------------------- MODULE MCRateLimiter ---------------------------
\* Instances of RateLimiter for TLC.
EXTENDS RateLimiter, TLC

CONSTANTS n1, n2

OneNode == {n1}
TwoNodes == {n1, n2}

NodeSymmetry == Permutations(Nodes)
===========================================================================

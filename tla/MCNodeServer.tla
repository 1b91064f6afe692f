--------------------------- MODULE MCNodeServer ---------------------------
\* Instances of NodeServer for TLC.
EXTENDS NodeServerClaims, TLC

CONSTANTS n1, n2, s1, s2, s3, c1, c2

OneNode == {n1}
TwoNodes == {n1, n2}
TwoSessions == {s1, s2}
ThreeSessions == {s1, s2, s3}
OneCall == {c1}
TwoCalls == {c1, c2}
NoCalls == {}
NoNodes == {}

SessionSymmetry == Permutations(Sessions)
ServerSymmetry == Permutations(Sessions) \cup Permutations(Nodes)
===========================================================================

--------------------------- MODULE MCToolRequest ---------------------------
\* Instances of ToolRequest for TLC.
EXTENDS ToolRequestClaims

CONSTANTS n1, s1, s2, t1

OneNode == {n1}
TwoSessions == {s1, s2}
OneTool == {t1}
ShortTimeout == {1}
Zero == {0}
ZeroAndOne == {0, 1}
===========================================================================

--------------------------- MODULE MCPairCommand ---------------------------
\* Instances of PairCommand for TLC.
EXTENDS PairCommand

CONSTANTS n1, n2, p1, p2, i1, i2, i3, i4

TwoNames == {n1, n2}
NoNames == {}
TwoCommands == {p1, p2}
FourInodes == {i1, i2, i3, i4}

SingleOps == {<<"create">>, <<"delete">>}
SomeFiles == {<<Other>>, <<Other, OldKey>>, <<Other, Blank>>}
===========================================================================

--------------------------- MODULE MCTokenStore ---------------------------
\* Instances of TokenStore for TLC.
EXTENDS TokenStore, TLC

CONSTANTS n1, p1, p2, p3, i1, i2, i3, i4, i5

OneName == {n1}
ThreeCommands == {p1, p2, p3}
FiveInodes == {i1, i2, i3, i4, i5}

Create == <<"create">>
SingleOps == {Create, <<"delete">>, <<"revoke">>}
AllScripts == SingleOps \cup {<<"delete", "create">>}

StoreSymmetry == Permutations(Commands) \cup Permutations(Inodes)
===========================================================================

------------------------------- MODULE MCStrings -------------------------------
EXTENDS Strings, TLC
CONSTANTS x, y, z, p1, p2
Symmetric == Permutations(Cells) \cup Permutations(Programs)
=============================================================================

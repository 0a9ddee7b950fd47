------------------------------ MODULE MCNodes ------------------------------
(* Small instances of Nodes for TLC. *)
EXTENDS Nodes, TLC

MCWinLists == <<"Wghstack", "Wrstack">>
MCWinList == <<"Wrstack">>
MCRmtLists == <<"Rrstack">>
Symmetric == Permutations(Addr) \cup Permutations(Frames)
=============================================================================

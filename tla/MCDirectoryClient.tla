-------------------------- MODULE MCDirectoryClient --------------------------
(* A client with two addresses and one more that a list may bring.         *)
EXTENDS DirectoryClient, TLC

CONSTANTS e1, e2, e3

MCConfigured == <<e1, e2>>
MCLists == {<<e3>>, <<e2, e3>>}
MCOneAddress == <<e1>>
MCOneList == {<<e2>>}

Symmetry == Permutations(Callers)
=============================================================================

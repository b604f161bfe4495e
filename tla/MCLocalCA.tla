------------------------------ MODULE MCLocalCA ------------------------------
(* LocalCA for TLC: the members are alike.                                  *)
EXTENDS LocalCA, TLC
Symmetry == Permutations(Clusters)
=============================================================================

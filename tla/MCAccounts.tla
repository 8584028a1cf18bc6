----------------------------- MODULE MCAccounts -----------------------------
(* Two requests at a time for one account, in both deployments: of identity,  *)
(* of the seller's desk and the catalogue beside a profile update, or of the  *)
(* address book.                                                              *)
EXTENDS Shop, TLC

CONSTANTS s1, s2

Symmetry == Permutations(Procs)

Workloads == {{"identity"}, {"records"}, {"desk", "catalog"}, {"addresses"}}
=============================================================================

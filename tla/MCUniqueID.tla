----------------------------- MODULE MCUniqueID -----------------------------
(* A small instance of UniqueID for TLC.                                   *)
EXTENDS UniqueID, TLC

Symmetry == Permutations(Client) \union Permutations(Addr)
=============================================================================

---------------------------- MODULE MCResourceMap ----------------------------
(* A small instance of ResourceMap for TLC.                                *)
EXTENDS ResourceMap, TLC

Symmetry == Permutations(Client) \union Permutations(Name) \union Permutations(Addr)
=============================================================================

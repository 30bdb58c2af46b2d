--------------------------- MODULE MCQueueClients ---------------------------
(* Small instances of QueueClients for TLC.                                *)
EXTENDS QueueClients, TLC

Symmetry == Permutations(Thread) \union Permutations(Item)
=============================================================================

--------------------------- MODULE MCOutboxWorker ---------------------------
(* Instances of OutboxWorker for TLC.                                        *)
EXTENDS OutboxWorker, TLC

Symmetry == Permutations(Item) \union Permutations(Worker) \union Permutations(Callback)
=============================================================================

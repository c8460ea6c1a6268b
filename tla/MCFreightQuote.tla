--------------------------- MODULE MCFreightQuote ---------------------------
(* Instances of FreightQuote for TLC.                                        *)
EXTENDS FreightQuote, TLC

Symmetry == Permutations(Package)
=============================================================================

--------------------------- MODULE MCLinkCreation ---------------------------
(* Instances of LinkCreation for TLC.                                        *)
EXTENDS LinkCreation, TLC

Symmetry == Permutations(Request) \union Permutations(Key) \union Permutations(Payload)
=============================================================================

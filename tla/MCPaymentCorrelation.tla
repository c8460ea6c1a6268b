------------------------ MODULE MCPaymentCorrelation ------------------------
(* Instances of PaymentCorrelation for TLC.                                  *)
EXTENDS PaymentCorrelation, TLC

Symmetry == Permutations(Link) \union Permutations(Reference) \union Permutations(Event)
=============================================================================

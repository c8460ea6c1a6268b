--------------------------- MODULE MCPushDelivery ---------------------------
(* Instances of PushDelivery for TLC.                                        *)
EXTENDS PushDelivery, TLC

Symmetry ==
    Permutations(Device) \union Permutations(Seller) \union Permutations(Item)
      \union Permutations(Worker)
=============================================================================

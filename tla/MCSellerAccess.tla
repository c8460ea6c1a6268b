--------------------------- MODULE MCSellerAccess ---------------------------
(* Instances of SellerAccess for TLC.                                        *)
EXTENDS SellerAccess, TLC

Symmetry == Permutations(Thread) \union Permutations(Invitation)

\* Which URL the message has: no step depends on it, and of the properties only
\* InvitationIsSent.
WithoutMessage == <<seller, invitations, access, pending, locks, pc, local>>
=============================================================================

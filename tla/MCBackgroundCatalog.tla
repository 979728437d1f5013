------------------------ MODULE MCBackgroundCatalog ------------------------
(* BackgroundCatalog on small instances, checked by TLC. *)
EXTENDS BackgroundCatalog, TLC

SymImages == Permutations(Images)

=============================================================================

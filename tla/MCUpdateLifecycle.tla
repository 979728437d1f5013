------------------------- MODULE MCUpdateLifecycle -------------------------
(* UpdateLifecycle on small instances, checked by TLC.  Download calls are  *)
(* interchangeable; checks are not (one of them is the start-up check).     *)
EXTENDS UpdateLifecycle, TLC

SymDownloads == Permutations(Downloads)

=============================================================================

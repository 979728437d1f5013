------------------------- MODULE MCProviderRefresh -------------------------
(***************************************************************************)
(* Model checking of ProviderRefresh.  Providers, batches and updates are  *)
(* interchangeable.  Two batches are one and its successor; an update      *)
(* that would begin a third one waits until one of them has ended.         *)
(***************************************************************************)
EXTENDS ProviderRefresh, TLC

RefreshSymmetry ==
    Permutations(Providers) \cup Permutations(Batches) \cup Permutations(Updates)
=============================================================================

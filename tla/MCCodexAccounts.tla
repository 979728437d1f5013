-------------------------- MODULE MCCodexAccounts --------------------------
(* CodexAccounts on a small instance, checked by TLC. *)
EXTENDS CodexAccounts, TLC

SymUsers == Permutations(Users)

(* Once the last login is out, the lanes only save it and the windows only *)
(* end the commands under way: what follows is not explored any further.   *)
LastLogin ==
    \/ issued < MaxLogins
    \/ \E l \in Lanes : task[l].at = "renewed"
    \/ (\A l \in Lanes : Free(l)) /\ (\E w \in Windows : ~Free(w))

=============================================================================

---------------------------- MODULE RefreshRound ----------------------------
(***************************************************************************)
(* What the provider refresh promises about the cache the windows show,    *)
(* with no settings file, generation counter, lock flag or fetch in it:    *)
(* rounds, one at a time.  A round decides once which providers it is for  *)
(* and drops the others from the board; it shows nothing but what it is    *)
(* for, and it completes only when the board is exactly that.  A change of *)
(* settings may revoke it at any time and narrow the board; a round that   *)
(* was revoked never touches the board again.                              *)
(*                                                                         *)
(* The detailed specification, ProviderRefresh, is shown to implement this *)
(* one.                                                                    *)
(***************************************************************************)
CONSTANTS Providers,  \* what can be on the board
          Batches,    \* who can hold a round
          Nobody      \* no round

VARIABLES holder,  \* whose round it is
          scope,   \* {S} once the round is known to be for S, else {}
          board    \* the providers shown

vars == <<holder, scope, board>>

Init == holder = Nobody /\ scope = {} /\ board = {}

Open(b) ==
    /\ holder = Nobody
    /\ holder' = b
    /\ UNCHANGED <<scope, board>>

Decide(S) ==
    /\ holder # Nobody /\ scope = {}
    /\ scope' = {S}
    /\ board' = board \cap S
    /\ UNCHANGED holder

Show(p) ==
    /\ holder # Nobody
    /\ \E S \in scope : p \in S
    /\ board' = board \cup {p}
    /\ UNCHANGED <<holder, scope>>

\* The round is over, and the board is what the round was for.
Complete ==
    /\ holder # Nobody /\ scope = {board}
    /\ holder' = Nobody /\ scope' = {}
    /\ UNCHANGED board

\* A change of settings that leaves S enabled.
Revoke(S) ==
    /\ holder' = Nobody /\ scope' = {}
    /\ board' = board \cap S

Next ==
    \/ \E b \in Batches : Open(b)
    \/ \E S \in SUBSET Providers : Decide(S) \/ Revoke(S)
    \/ \E p \in Providers : Show(p)
    \/ Complete

Spec == Init /\ [][Next]_vars
=============================================================================

--------------------------- MODULE MCQuotaAlerts ---------------------------
(* QuotaAlerts on a small instance, checked by TLC: every alert switched   *)
(* on, or the alerts of a depletion switched off.                          *)
EXTENDS QuotaAlerts

AllEvents == (Families \cup {"restored"}) \X (1..Full)
SomeChoices == {AllEvents, AllEvents \ {<<"depleted", Full>>}}

(* Once a mark has been lost, only what follows from states in which the   *)
(* file holds the memory is explored any further.                          *)
LossSettled == ~forgetful \/ stored = durable

=============================================================================

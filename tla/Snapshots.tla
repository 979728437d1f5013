----------------------------- MODULE Snapshots -----------------------------
(* A usage snapshot of one quota window (ProviderUsageSnapshot and         *)
(* RateWindowSnapshot in commands/bridge.rs of the desktop shell).         *)
EXTENDS Integers

CONSTANTS
    Accounts,    \* accounts a snapshot can name
    Unnamed      \* the account of a snapshot that names none

ASSUME UnnamedIsNoAccount == Unnamed \notin Accounts

\* No reset time is reported.
None == 0

\* A fetch that succeeded at time t: usage u, reset time r, account a.
Good(u, r, a, t) == [used |-> u, resets |-> r, account |-> a, at |-> t]

=============================================================================

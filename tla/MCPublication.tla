--------------------------- MODULE MCPublication ---------------------------
(* Publication on a small instance, checked by TLC.                        *)
EXTENDS Publication

(* Once the last event is written, the cache of the shell, which the       *)
(* history does not depend on, is no longer followed.                      *)
LastEvent == written < MaxWritten \/ InitPolicy

=============================================================================

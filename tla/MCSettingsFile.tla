--------------------------- MODULE MCSettingsFile ---------------------------
(* SettingsFile on small instances, checked by TLC. *)
EXTENDS SettingsFile, TLC

SymWriters == Permutations(Patches) \cup Permutations(Unlocked) \cup Permutations(Editors)

=============================================================================

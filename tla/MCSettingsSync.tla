---------------------------- MODULE MCSettingsSync ----------------------------
(* SettingsSync on small instances; the .cfg files choose the instance.      *)
EXTENDS SettingsSync, TLC

Symmetry == Permutations(Tabs) \cup Permutations(Efforts)

===============================================================================

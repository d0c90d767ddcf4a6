--------------------------- MODULE MC_DbusService ---------------------------
(***************************************************************************)
(* The dbus service with few calls and interfaces, all alike.              *)
(***************************************************************************)
EXTENDS DbusService, TLC

Symmetry == Permutations(Keys)
=============================================================================

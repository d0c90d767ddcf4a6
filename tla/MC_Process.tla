---------------------------- MODULE MC_Process -----------------------------
(***************************************************************************)
(* The process plugin with few children and listeners; the listeners of    *)
(* the script are interchangeable.                                         *)
(***************************************************************************)
EXTENDS Process

Symmetry == Permutations(Callbacks)
=============================================================================

---------------------------- MODULE MC_PamWorker ----------------------------
(***************************************************************************)
(* The pam plugin with few request ids: MaxId above Limit, so that calls   *)
(* are refused and then accepted again.                                    *)
(***************************************************************************)
EXTENDS PamWorker
=============================================================================

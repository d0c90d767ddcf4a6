-------------------------- MODULE MC_HttpRequests ---------------------------
(***************************************************************************)
(* The http plugin with a few requests.                                    *)
(***************************************************************************)
EXTENDS HttpRequests
=============================================================================

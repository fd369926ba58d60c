--------------------------- MODULE MCChargeMode ---------------------------
(***************************************************************************)
(* The button, the HTTP server and a worker make up to three calls, enough *)
(* for two that enter to overlap with one that leaves, and for one that    *)
(* reconnects between them; one retry before the portal, so that both      *)
(* outcomes of a lost link are met.                                        *)
(***************************************************************************)
EXTENDS ChargeMode
=============================================================================

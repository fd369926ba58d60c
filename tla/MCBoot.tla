------------------------------- MODULE MCBoot -------------------------------
(***************************************************************************)
(* One service may fail in each boot, with the ones that need it; one      *)
(* crash and three requests: an upload, another one over it or a restart   *)
(* in the middle of it, and a rollback.                                    *)
(***************************************************************************)
EXTENDS Boot
=============================================================================

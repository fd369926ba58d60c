----------------------------- MODULE MCConfig -----------------------------
(***************************************************************************)
(* Two tasks that write one namespace of two keys, the token and another,  *)
(* so that updates could be lost, and a bus that holds one event.  A file  *)
(* has room for both keys; with MaxKeys = 1 it grows past what a load      *)
(* accepts.                                                                *)
(***************************************************************************)
EXTENDS Config

CONSTANTS httpd, worker, system, api_token, other, v
=============================================================================

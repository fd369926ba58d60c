------------------------------ MODULE MCWebUi ------------------------------
(***************************************************************************)
(* The dispatcher and one task that logs, three sockets for a table of two *)
(* clients and a queue of two: the table and the queue fill, and a number  *)
(* comes back while it is listed.                                          *)
(***************************************************************************)
EXTENDS WebUi

CONSTANTS f1, f2, f3, nobody
=============================================================================

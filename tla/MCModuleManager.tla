-------------------------- MODULE MCModuleManager --------------------------
(***************************************************************************)
(* Two modules that compete for one job slot, of which blink starts by     *)
(* itself.  The passing run has one caller: the manager has no lock and    *)
(* keeps its promises only to callers that take turns.  ModuleRace has the *)
(* HTTP task and the button task.                                          *)
(***************************************************************************)
EXTENDS ModuleManager

CONSTANTS httpd, button, blink, hello
=============================================================================

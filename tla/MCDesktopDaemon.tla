-------------------------- MODULE MCDesktopDaemon ---------------------------
(***************************************************************************)
(* The desktop daemons for TLC: the .cfg file gives the constants.         *)
(***************************************************************************)
EXTENDS DesktopDaemon
=============================================================================

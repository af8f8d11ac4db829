---------------------------- MODULE MCInstaller ----------------------------
(* Model-checking instances of Installer. *)
EXTENDS Installer
=============================================================================

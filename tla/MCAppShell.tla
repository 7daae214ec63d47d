------------------------------ MODULE MCAppShell ------------------------------
(* Small instances of AppShell for TLC. *)
EXTENDS AppShell
=============================================================================

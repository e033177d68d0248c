----------------------------- MODULE MCConsole -----------------------------
(* Small instances of the console.                                           *)
EXTENDS Console
=============================================================================

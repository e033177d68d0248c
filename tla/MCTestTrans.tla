----------------------------- MODULE MCTestTrans -----------------------------
(* Two sizes of a submission and a function registered after it: what a      *)
(* run inherits, it inherits from the run before or from an orphan of it.    *)
EXTENDS TestTrans
=============================================================================

------------------------------- MODULE MCCSim ------------------------------
(* Small caches.                                                             *)
EXTENDS CSim

(* Memory fresh from the system reads as zero.                               *)
FreshMemory == {EmptyLine}

(* Two bytes per block and two sets: three blocks of each set, and a second  *)
(* address within one of them.                                               *)
MCAddress == {0, 1, 2, 4, 6, 8, 10}
=============================================================================

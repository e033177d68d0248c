---------------------------- MODULE MCTransMisses ---------------------------
(* All functions, alone and in turn, on sizes below, at and above one block  *)
(* in both directions, and the submission on the sizes of the score; the     *)
(* cache of the score, 32 direct-mapped sets of 32 bytes.                    *)
EXTENDS TransMisses

MCScored == {<<32, 32>>, <<64, 64>>, <<61, 67>>}
MCSide == {1, 5, 8, 9, 16, 17}
MCInvocations ==
    (MCSide \X MCSide \X ({-1} \cup DOMAIN func_list))
    \cup {<<s[1], s[2], 1>> : s \in MCScored}

MCAddress == 0 .. MarkerAddress
FreshMemory == {[valid |-> 0, tag |-> 0, lru_stamp |-> 0]}
=============================================================================

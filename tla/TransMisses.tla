---------------------------- MODULE TransMisses ----------------------------
(* test-trans.c, eval_perf: the accesses a function makes between the two    *)
(* markers of tracegen are replayed on a simulated cache, and driver.py      *)
(* turns the submission's misses into a score.  TraceGen makes the accesses, *)
(* CSim is the simulator.  The program replays a trace when it is complete;  *)
(* here each iteration is replayed at once, which gives the same misses      *)
(* because the simulator does not look ahead.                                *)
EXTENDS TraceGen

CONSTANTS
    S, E, BlockBytes, Half, Address, MaxAccesses, Leftover, \* of the simulator
    Scored          \* the pairs <<M, N>> that are scored

ASSUME ScoredSizes == Scored \subseteq {<<32, 32>>, <<64, 64>>, <<61, 67>>}

VARIABLES
    cache, global_timer, hit, miss, eviction, again,        \* of the simulator
    trace           \* addresses of the trace that are still to be replayed

Sim == INSTANCE CSim WITH B <- BlockBytes

simulator == <<cache, global_timer, hit, miss, eviction, again>>
replayvars == <<vars, simulator, trace>>

(* tracegen.c: A and B are 256 x 256 ints, one after the other; a function   *)
(* sees the first as N rows of M, the second as M rows of N.                 *)
ArrayBytes == 4 * 256 * 256
MarkerAddress == 2 * ArrayBytes

(* What the simulator assumes of its constants, and that it is told of every *)
(* address tracegen can trace: the ints of A and B and the markers.          *)
ASSUME SimulatorAssumption ==
    /\ S \in Nat \ {0} /\ E \in Nat \ {0} /\ BlockBytes \in Nat \ {0}
    /\ Half \in Nat \ {0, 1}
    /\ Address \subseteq Nat
    /\ MaxAccesses \in Nat
    /\ Leftover \subseteq Sim!Line
    /\ \A n \in 0 .. MarkerAddress \div 4 : 4 * n \in Address

AddressOf(cell) ==
    IF cell[1] = "A" THEN 4 * (M * cell[2] + cell[3])
                     ELSE ArrayBytes + 4 * (N * cell[2] + cell[3])

(* The loads and then the stores of an iteration.                            *)
Accesses(iteration) ==
    [p \in DOMAIN iteration.loads |-> AddressOf(iteration.loads[p])] \o
    [p \in DOMAIN iteration.stores |-> AddressOf(iteration.stores[p].to)]

(* eval_perf asks for one function at a time; without -F nothing is traced.  *)
Traced(addresses) == trace' = IF selectedFunc = -1 THEN <<>> ELSE addresses

ReplayInit == Init /\ Sim!Init /\ trace = <<>>

(* The next access that tracegen makes, between the stores to its markers.   *)
Generate ==
    /\ trace = <<>>
    /\ \/ NextBlock /\ Traced(IF block = 0 THEN <<MarkerAddress>> ELSE <<>>)
       \/ Iterate /\ Traced(Accesses(Head(todo)))
       \/ Validate /\ Traced(<<MarkerAddress>>)
    /\ UNCHANGED simulator

Replay ==
    /\ trace # <<>>
    /\ Sim!LoadOrStore(Head(trace))
    /\ trace' = Tail(trace)
    /\ UNCHANGED vars

Replayed == trace = <<>> /\ exit_code # Running /\ UNCHANGED replayvars

ReplayNext == Generate \/ Replay \/ Replayed

ReplaySpec == ReplayInit /\ [][ReplayNext]_replayvars
-----------------------------------------------------------------------------
(* driver.py: the most misses that earn the full score.                      *)
FullScore == CASE M = 32 -> 300 [] M = 64 -> 1300 [] M = 61 -> 2000

(* The submission is validated and earns the full score on every size that   *)
(* is scored.                                                                *)
MissesInBudget == <<M, N>> \in Scored => miss =< FullScore
=============================================================================

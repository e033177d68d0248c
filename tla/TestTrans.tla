------------------------------ MODULE TestTrans ------------------------------
(* driver.py and test-trans.c: for each size the driver runs test-trans,     *)
(* which for each registered function runs tracegen below a shell, copies    *)
(* the function's part of its trace, runs the simulator on it and collects   *)
(* the misses from a file.  Children fail, die and hang; an alarm ends       *)
(* test-trans but not its child, which goes on as an orphan: if the shell    *)
(* between them waits for it, the driver, which reads the pipe the shell     *)
(* holds, waits too; if the shell has been replaced by the child, the next   *)
(* test-trans starts beside it and uses files of the same names.             *)
(* What a number of misses counts is kept instead of the number.  The work   *)
(* of tracegen is in TraceGen, that of the simulator in TransMisses.         *)
EXTENDS Integers

CONSTANTS
    Runs,           \* sizes the driver tests, one after the other
    Funcs,          \* func_counter
    Submission      \* the function described as the submission, 0 for none

ASSUME TestTransAssumption ==
    /\ Runs \in Nat \ {0} /\ Funcs \in Nat
    /\ Submission \in 0 .. Funcs

VARIABLES
    shell,          \* does the shell of system() wait for its only command?
    t,              \* driver: the run of test-trans going on
    output,         \* driver: what each run printed as TEST_TRANS_RESULTS
    driver,         \* "running", "scored", or "failed" by an exception
    pc, i,          \* test-trans: place in eval_perf, and function evaluated
    funcid, correct, misses,    \* test-trans: the struct results
    read,           \* test-trans: the local misses
    alarm,          \* test-trans: the alarm is pending
    marker,         \* does .marker exist?
    trace,          \* trace.tmp
    csim_results,   \* .csim_results
    tracers, sims,  \* running children, orphans among them
    verdict, simulation     \* history: how the submission's children ended

results == <<funcid, correct, misses>>
files   == <<marker, trace, csim_results>>
history == <<verdict, simulation>>
vars == <<shell, t, output, driver, pc, i, results, read, alarm, files, tracers, sims, history>>

Run == 1 .. Runs
Func == 1 .. Funcs

(* A trace, or the misses counted on it: of a function in a run, "whole" or  *)
(* up to some point, or with an orphan's output inside ("mixed").            *)
Trace == [run : Run, func : Func, state : {"whole", "partial", "mixed"}]
Special(s) == [run |-> 0, func |-> 0, state |-> s]

INT_MAX == Special("INT_MAX")
Zero    == Special("zero")
Garbage == Special("uninitialised")
Foreign == Special("foreign")       \* left by test-csim, which the driver runs first
Absent  == Special("absent")        \* there is no file
Empty   == Special("empty")         \* the file is open for writing

Counted == Trace \cup {Foreign}
Output == [correct : {0, 1}, misses : Counted \cup {INT_MAX, Zero, Garbage}]
NoOutput == [correct |-> 0, misses |-> Absent]

Process(f) == [run |-> t, func |-> f]
Simulator(tr) == [run |-> t, func |-> i, trace |-> tr, opened |-> FALSE]

Evaluating(p) == t \in Run /\ pc = p

Orphan(p) == p.run # t \/ pc = "exited"

Init ==
    /\ shell \in {"execs", "waits"}
    /\ t = 1 /\ driver = "running"
    /\ output = [r \in Run |-> NoOutput]
    /\ pc = "start" /\ i = 1
    /\ funcid = 0 /\ correct = 0 /\ misses = INT_MAX
    /\ read = Garbage /\ alarm = FALSE
    /\ marker \in BOOLEAN
    /\ trace = Special("absent")
    /\ csim_results \in {Absent, Foreign}
    /\ tracers = {} /\ sims = {}
    /\ verdict = [r \in Run |-> "none"]
    /\ simulation = [r \in Run |-> "none"]
-----------------------------------------------------------------------------
(* main is not given an alarm.                                               *)
UnarmedBegin ==
    /\ Evaluating("start")
    /\ pc' = "loop"
    /\ UNCHANGED <<shell, t, output, driver, i, results, read, alarm, files, tracers, sims, history>>

Begin ==
    /\ Evaluating("start")
    /\ alarm' = TRUE
    /\ pc' = "loop"
    /\ UNCHANGED <<shell, t, output, driver, i, results, read, files, tracers, sims, history>>

(* The shell truncates trace.tmp and starts valgrind on tracegen.            *)
StartTrace ==
    /\ Evaluating("loop") /\ i \in Func
    /\ funcid' = IF i = Submission THEN i ELSE funcid
    /\ trace' = [run |-> t, func |-> i, state |-> "partial"]
    /\ tracers' = tracers \cup {Process(i)}
    /\ pc' = "trace"
    /\ UNCHANGED <<shell, t, output, driver, i, correct, misses, read, alarm, marker, csim_results,
                   sims, history>>

Judge(v) == verdict' = IF i = Submission THEN [verdict EXCEPT ![t] = v] ELSE verdict

(* What main does with the exit status WEXITSTATUS extracts.                 *)
Flagged(flag) ==
    IF flag = 0 THEN pc' = "filter" /\ UNCHANGED i
                ELSE pc' = "loop" /\ i' = i + 1

(* tracegen exits: 0 when the function passes validation, else not.          *)
TraceExits ==
    /\ Evaluating("trace")
    /\ tracers' = tracers \ {Process(i)}
    /\ marker' = TRUE
    /\ \/ /\ Judge("valid") /\ Flagged(0)
          /\ trace' = IF trace.state = "partial" THEN [trace EXCEPT !.state = "whole"] ELSE trace
       \/ /\ Judge("invalid") /\ Flagged(1)
          /\ UNCHANGED trace
    /\ UNCHANGED <<shell, t, output, driver, results, read, alarm, csim_results, sims, simulation>>

(* tracegen is killed by a signal, or does not start.  A shell that waits    *)
(* for it exits with a status of its own; one that has replaced itself by    *)
(* its only command is what the signal killed, and WEXITSTATUS is 0.         *)
TraceDies ==
    /\ Evaluating("trace")
    /\ tracers' = tracers \ {Process(i)}
    /\ marker' \in {marker, TRUE}
    /\ Judge("died")
    /\ (shell = "execs" /\ Flagged(0)) \/ Flagged(1)
    /\ UNCHANGED <<shell, t, output, driver, results, read, alarm, trace, csim_results, sims, simulation>>

(* test-trans ends, with these results as its output.                        *)
Exit(out) ==
    /\ output' = [output EXCEPT ![t] = out]
    /\ pc' = "exited" /\ alarm' = FALSE
    /\ UNCHANGED <<shell, t, driver, i, results, read, files, tracers, sims, history>>

(* The driver has read the output to its end and starts a new process.       *)
NextRun ==
    /\ Evaluating("exited")
    /\ shell = "waits" => ~\E p \in tracers \cup sims : p.run = t
    /\ t' = t + 1 /\ pc' = "start" /\ i' = 1
    /\ funcid' = 0 /\ correct' = 0 /\ misses' = INT_MAX
    /\ read' = Garbage
    /\ UNCHANGED <<shell, output, driver, alarm, files, tracers, sims, history>>

(* Every validated function is credited to the submission.                   *)
FaultyCredit == correct' = 1

Credit == correct' = IF funcid = i THEN 1 ELSE correct

(* eval_perf from .marker to the start of the simulator: the function's part *)
(* of the trace is copied to a file of its own.                              *)
Filter ==
    /\ Evaluating("filter") /\ marker
    /\ Credit
    /\ sims' = sims \cup {Simulator(trace)}
    /\ pc' = "simulate"
    /\ UNCHANGED <<shell, t, output, driver, i, funcid, misses, read, alarm, files, tracers, history>>

Reported(s, how) ==
    /\ pc' = IF Orphan(s) THEN pc ELSE "collect"
    /\ simulation' = IF ~Orphan(s) /\ s.func = Submission
                       THEN [simulation EXCEPT ![t] = how] ELSE simulation

(* printSummary empties the file and writes it when it is closed.            *)
SimOpens(s) ==
    /\ ~s.opened
    /\ csim_results' = Empty
    /\ sims' = (sims \ {s}) \cup {[s EXCEPT !.opened = TRUE]}
    /\ UNCHANGED <<shell, t, output, driver, pc, i, results, read, alarm, marker, trace, tracers, history>>

SimCloses(s) ==
    /\ s.opened
    /\ csim_results' = s.trace
    /\ sims' = sims \ {s}
    /\ Reported(s, "done")
    /\ UNCHANGED <<shell, t, output, driver, i, results, read, alarm, marker, trace, tracers, verdict>>

(* It is missing, or is killed before or while it writes its results.        *)
SimFails(s) ==
    /\ sims' = sims \ {s}
    /\ Reported(s, "failed")
    /\ UNCHANGED <<shell, t, output, driver, i, results, read, alarm, files, tracers, verdict>>

(* What fscanf leaves in misses: an empty file leaves it as it was.          *)
Fetched == IF csim_results = Empty THEN read ELSE csim_results

(* The results of the last function stand for the submission's.              *)
FaultyCollect ==
    /\ Evaluating("collect") /\ csim_results # Absent
    /\ read' = Fetched
    /\ misses' = Fetched
    /\ i' = i + 1 /\ pc' = "loop"
    /\ UNCHANGED <<shell, t, output, driver, funcid, correct, alarm, files, tracers, sims, history>>

(* The file is not asserted to be there.                                     *)
UncheckedCollect ==
    /\ Evaluating("collect")
    /\ read' = Fetched
    /\ misses' = IF funcid = i THEN Fetched ELSE misses
    /\ i' = i + 1 /\ pc' = "loop"
    /\ UNCHANGED <<shell, t, output, driver, funcid, correct, alarm, files, tracers, sims, history>>

Collect ==
    /\ Evaluating("collect") /\ csim_results # Absent
    /\ read' = Fetched
    /\ misses' = IF funcid = i THEN Fetched ELSE misses
    /\ i' = i + 1 /\ pc' = "loop"
    /\ UNCHANGED <<shell, t, output, driver, funcid, correct, alarm, files, tracers, sims, history>>

(* assert: .marker or .csim_results does not exist.                          *)
Abort ==
    /\ \/ Evaluating("filter") /\ ~marker
       \/ Evaluating("collect") /\ csim_results = Absent
    /\ Exit(NoOutput)

Summary ==
    /\ Evaluating("loop") /\ i > Funcs
    /\ Exit(IF funcid = 0 THEN [correct |-> 0, misses |-> Zero]
                          ELSE [correct |-> correct, misses |-> misses])

(* sigalrm_handler: a child that is running stays.                           *)
Timeout ==
    /\ t \in Run /\ alarm
    /\ Exit([correct |-> 0, misses |-> Zero])

(* sigsegv_handler: registerFunctions, which a submission defines, faults in *)
(* test-trans itself, before any child is started.                           *)
SegFault ==
    /\ Evaluating("loop") /\ i = 1 /\ alarm
    /\ Exit([correct |-> 0, misses |-> Zero])
-----------------------------------------------------------------------------
(* A tracegen whose test-trans has gone writes at its own place in the file  *)
(* that the shell of a later one truncated, and ends some time or never.     *)
OrphanWrites(p) ==
    /\ Orphan(p) /\ trace.run # p.run
    /\ trace' = [trace EXCEPT !.state = "mixed"]
    /\ UNCHANGED <<shell, t, output, driver, pc, i, results, read, alarm, marker, csim_results,
                   tracers, sims, history>>

OrphanEnds(p) ==
    /\ Orphan(p)
    /\ tracers' = tracers \ {p}
    /\ UNCHANGED <<shell, t, output, driver, pc, i, results, read, alarm, files, sims, history>>

(* driver.py takes two numbers from each output; there may be none.          *)
Score ==
    /\ t > Runs /\ driver = "running"
    /\ driver' = IF \E r \in Run : output[r] = NoOutput THEN "failed" ELSE "scored"
    /\ UNCHANGED <<shell, t, output, pc, i, results, read, alarm, files, tracers, sims, history>>

Ended == driver # "running" /\ UNCHANGED vars

Step ==
    \/ Begin \/ StartTrace \/ Filter \/ Collect \/ Abort \/ Summary
    \/ NextRun \/ Score

Child ==
    \/ TraceExits \/ TraceDies
    \/ \E s \in sims : SimOpens(s) \/ SimCloses(s) \/ SimFails(s)
    \/ \E p \in tracers : OrphanWrites(p) \/ OrphanEnds(p)

Next == Step \/ Child \/ Timeout \/ SegFault \/ Ended

Spec == Init /\ [][Next]_vars

(* The programs run and the alarm goes off.  Nothing is assumed of children. *)
FairSpec == Spec /\ WF_vars(Step) /\ WF_vars(Timeout)
-----------------------------------------------------------------------------
TypeOK ==
    /\ shell \in {"execs", "waits"}
    /\ t \in 1 .. Runs + 1
    /\ output \in [Run -> Output \cup {NoOutput}]
    /\ driver \in {"running", "scored", "failed"}
    /\ pc \in {"start", "loop", "trace", "filter", "simulate", "collect", "exited"}
    /\ i \in 1 .. Funcs + 1
    /\ funcid \in 0 .. Funcs /\ correct \in {0, 1}
    /\ misses \in Counted \cup {INT_MAX, Garbage}
    /\ read \in Counted \cup {Garbage}
    /\ alarm \in BOOLEAN /\ marker \in BOOLEAN
    /\ trace.state \in {"absent", "partial", "whole", "mixed"}
    /\ csim_results \in Counted \cup {Absent, Empty}
    /\ tracers \subseteq [run : Run, func : Func]
    /\ sims \subseteq [run : Run, func : Func, trace : Trace, opened : BOOLEAN]

(* A run that printed a summary credits the submission exactly when tracegen *)
(* validated the submission in that very run - or died in a way the shell    *)
(* did not report.  No other function, run or late child can earn or cost    *)
(* the credit.                                                               *)
CreditIsDeserved ==
    \A r \in Run :
        /\ output[r].correct = 1 => verdict[r] \in {"valid", "died"}
        /\ verdict[r] = "valid" /\ r < t =>
              output[r].correct = 1 \/ output[r] = NoOutput \/ output[r].misses = Zero

(* The misses printed were counted on the whole trace of the submission, in  *)
(* this run, unless the simulator failed, tracegen died, or an earlier run   *)
(* timed out and left an orphan no shell waits for: nothing else in the      *)
(* pipeline, which keeps its results in files of the same names, mixes up    *)
(* functions or sizes.                                                       *)
MissesAreOwn ==
    \A r \in Run :
        (/\ output[r].correct = 1
         /\ verdict[r] = "valid" /\ simulation[r] = "done"
         /\ shell = "waits" \/ \A q \in 1 .. r - 1 : output[q].misses # Zero)
        => output[r].misses = [run |-> r, func |-> Submission, state |-> "whole"]

(* The driver ends, whatever hangs, when the shell does not stand between    *)
(* test-trans and its child; a shell that waits makes it end only if no      *)
(* child runs for ever.                                                      *)
DriverEnds ==
    (shell = "execs" \/ []<>(tracers \cup sims = {})) => <>(driver # "running")

(* test-trans.c: "Checks the correctness and performance of all of the       *)
(* student's transpose functions", with a segmentation fault scored 0:0.  A  *)
(* submission whose tracegen crashed is not correct.                         *)
CrashIsNotCorrect == \A r \in Run : verdict[r] = "died" => output[r].correct = 0
=============================================================================

-------------------------- MODULE TestTransProofs --------------------------
(* The scorer's pipeline credits and counts what it should, for any number   *)
(* of sizes and functions, whatever its children do.                         *)
EXTENDS TestTrans, TLAPS

-----------------------------------------------------------------------------
(* The inductive invariant, in named parts.                                  *)

Types ==
    /\ TypeOK
    /\ trace \in Trace \cup {Special("absent")}
    /\ verdict \in [Run -> {"none", "valid", "invalid", "died"}]
    /\ simulation \in [Run -> {"none", "done", "failed"}]

(* A child belongs to the run going on, and is the one that test-trans waits *)
(* for, or it is an orphan.                                                  *)
Children ==
    /\ \A p \in tracers : p.run =< t /\ (~Orphan(p) => pc = "trace" /\ p.func = i)
    /\ \A s \in sims : s.run =< t /\ (~Orphan(s) => pc = "simulate" /\ s.func = i)
    /\ \A r \in sims, s \in sims : r.run = s.run => r = s
    /\ tracers # {} => trace \in Trace

(* The loop of test-trans stands at a function whose trace is in trace.tmp.  *)
Place ==
    /\ t \notin Run => pc = "start"
    /\ pc = "start" => i = 1
    /\ pc \in {"trace", "filter", "simulate", "collect"} => i \in Func
    /\ pc \in {"trace", "filter"} => trace \in Trace /\ trace.run = t /\ trace.func = i

Passed == {"valid", "died"}

(* How far the submission has come in the run going on.                      *)
Before == pc = "start" \/ i < Submission \/ (i = Submission /\ pc = "loop") \/ Submission = 0

Progress ==
    t \in Run /\ pc # "exited" =>
        /\ Before => funcid = 0 /\ correct = 0 /\ verdict[t] = "none" /\ simulation[t] = "none"
        /\ ~Before => funcid = Submission
        /\ i = Submission /\ pc = "trace" =>
              correct = 0 /\ verdict[t] = "none" /\ simulation[t] = "none"
        /\ i = Submission /\ pc = "filter" =>
              correct = 0 /\ verdict[t] \in Passed /\ simulation[t] = "none"
        /\ i = Submission /\ pc = "simulate" =>
              correct = 1 /\ verdict[t] \in Passed /\ simulation[t] = "none"
        /\ i = Submission /\ pc = "collect" => correct = 1 /\ verdict[t] \in Passed
        /\ i > Submission /\ correct = 1 => verdict[t] \in Passed
        /\ i > Submission /\ verdict[t] = "valid" => correct = 1

(* Runs to come have left nothing yet.                                       *)
Future ==
    \A r \in Run :
        /\ r > t => verdict[r] = "none" /\ simulation[r] = "none"
        /\ r > t \/ (r = t /\ pc # "exited") => output[r] = NoOutput

Finished(r) == r < t \/ (r = t /\ pc = "exited")

Credited ==
    \A r \in Run :
        /\ output[r].correct = 1 => verdict[r] \in Passed
        /\ verdict[r] = "valid" /\ Finished(r) =>
              output[r].correct = 1 \/ output[r] = NoOutput \/ output[r].misses = Zero

(* No child of an earlier run can be about in run r.                         *)
Clean(r) == shell = "waits" \/ \A q \in 1 .. r - 1 : output[q].misses # Zero

Whole(r) == [run |-> r, func |-> Submission, state |-> "whole"]

(* Then what the submission left behind is its own at every stage.           *)
Own ==
    Clean(t) =>
        /\ \A p \in tracers \cup sims : p.run = t
        /\ pc = "trace" => trace.state = "partial"
        /\ i = Submission /\ pc = "filter" /\ verdict[t] = "valid" => trace = Whole(t)
        /\ i = Submission /\ pc = "simulate" /\ verdict[t] = "valid" =>
              \A s \in sims : s.trace = Whole(t)
        /\ i = Submission /\ pc = "collect" /\ verdict[t] = "valid"
              /\ simulation[t] = "done" => csim_results = Whole(t)
        /\ t \in Run /\ i > Submission /\ pc # "exited" /\ verdict[t] = "valid"
              /\ simulation[t] = "done" => misses = Whole(t)

(* Only a timeout leaves orphans.                                            *)
OrphansOfTimeout ==
    pc = "exited" => \A p \in tracers \cup sims : p.run = t => output[t].misses = Zero

PipelineInv ==
    /\ Types /\ Children /\ Place /\ Progress /\ Future
    /\ Credited /\ Own /\ OrphansOfTimeout /\ MissesAreOwn

-----------------------------------------------------------------------------
(* What a running simulator is.                                              *)
SimRecord == [run : Run, func : Func, trace : Trace, opened : BOOLEAN]

(* What test-trans prints.                                                   *)
LEMMA OutputTypes ==
    /\ [correct |-> 0, misses |-> Zero] \in Output
    /\ \A c \in {0, 1}, m \in Counted \cup {INT_MAX, Garbage} :
          [correct |-> c, misses |-> m] \in Output
BY DEF Output

(* A trace that somebody else writes into.                                   *)
LEMMA TraceTypes ==
    /\ \A x \in Run, f \in Func, st \in {"whole", "partial", "mixed"} :
          [run |-> x, func |-> f, state |-> st] \in Trace
    /\ \A tr \in Trace : /\ tr.run \in Run /\ tr.func \in Func
                         /\ tr.state \in {"whole", "partial", "mixed"}
    /\ \A tr \in Trace, st \in {"whole", "partial", "mixed"} :
          /\ [tr EXCEPT !.state = st] \in Trace
          /\ [tr EXCEPT !.state = st].run = tr.run
          /\ [tr EXCEPT !.state = st].func = tr.func
          /\ [tr EXCEPT !.state = st].state = st
BY DEF Trace

(* The simulator of the function at hand, and one that has opened its file.  *)
LEMMA SimTypes ==
    /\ \A x \in Run, f \in Func, tr \in Trace :
          [run |-> x, func |-> f, trace |-> tr, opened |-> FALSE] \in SimRecord
    /\ \A s \in SimRecord :
          /\ s.run \in Run /\ s.func \in Func /\ s.trace \in Trace
          /\ [s EXCEPT !.opened = TRUE] \in SimRecord
          /\ [s EXCEPT !.opened = TRUE].run = s.run
          /\ [s EXCEPT !.opened = TRUE].func = s.func
          /\ [s EXCEPT !.opened = TRUE].trace = s.trace
BY DEF SimRecord

(* The steps that change a record keep its type.                             *)
LEMMA TraceExitsTypes ==
    ASSUME PipelineInv, TraceExits
    PROVE  Types'
<1>1. t \in Run /\ i \in Func /\ trace \in Trace
  BY DEF TraceExits, Evaluating, PipelineInv, Place
<1>2. trace' \in Trace /\ trace'.state \in {"partial", "whole", "mixed"}
  BY <1>1, TraceTypes DEF TraceExits
<1>3. verdict' \in [Run -> {"none", "valid", "invalid", "died"}]
  BY DEF TraceExits, Judge, PipelineInv, Types
<1>4. i' \in 1 .. Funcs + 1 /\ pc' \in {"filter", "loop"}
  BY <1>1, TestTransAssumption DEF TraceExits, Flagged, Func
<1> QED BY <1>1, <1>2, <1>3, <1>4 DEF TraceExits, PipelineInv, Types, TypeOK, results, files

LEMMA TraceDiesTypes ==
    ASSUME PipelineInv, TraceDies
    PROVE  Types'
<1>1. t \in Run /\ i \in Func
  BY DEF TraceDies, Evaluating, PipelineInv, Place
<1>3. verdict' \in [Run -> {"none", "valid", "invalid", "died"}]
  BY DEF TraceDies, Judge, PipelineInv, Types
<1>4. i' \in 1 .. Funcs + 1 /\ pc' \in {"filter", "loop"}
  BY <1>1, TestTransAssumption DEF TraceDies, Flagged, Func
<1>2. marker \in BOOLEAN /\ marker' \in {marker, TRUE}
  BY DEF TraceDies, PipelineInv, Types, TypeOK
<1>5. marker' \in BOOLEAN
  BY <1>2
<1>6. tracers' \subseteq tracers
  BY DEF TraceDies
<1>7. UNCHANGED <<shell, t, output, driver, results, read, alarm, trace, csim_results, sims, simulation>>
  BY DEF TraceDies
<1> QED BY <1>3, <1>4, <1>5, <1>6, <1>7 DEF PipelineInv, Types, TypeOK, results

LEMMA FilterTypes ==
    ASSUME PipelineInv, Filter
    PROVE  Types' /\ Children'
<1>1. t \in Run /\ i \in Func /\ trace \in Trace /\ pc = "filter"
  BY DEF Filter, Evaluating, PipelineInv, Place
<1>2. /\ Simulator(trace) \in SimRecord
      /\ Simulator(trace).run = t /\ Simulator(trace).func = i
  BY <1>1, SimTypes DEF Simulator
<1>3. /\ sims' = sims \cup {Simulator(trace)} /\ correct' \in {0, 1} /\ pc' = "simulate"
      /\ UNCHANGED <<shell, t, output, driver, i, funcid, misses, read, alarm, files, tracers, history>>
  BY DEF Filter, Credit, PipelineInv, Types, TypeOK
<1>4. Types'
  BY <1>2, <1>3 DEF PipelineInv, Types, TypeOK, files, history, SimRecord
<1>5. \A s \in sims : s.run # t
  BY <1>1 DEF PipelineInv, Children, Orphan
<1>6. Children'
  BY <1>1, <1>2, <1>3, <1>5, TestTransAssumption DEF PipelineInv, Children, Orphan, files, Run
<1> QED BY <1>4, <1>6

LEMMA SimOpensTypes ==
    ASSUME PipelineInv, NEW s \in sims, SimOpens(s)
    PROVE  Types' /\ Children' /\ MissesAreOwn'
<1> DEFINE z == [s EXCEPT !.opened = TRUE]
<1>1. /\ csim_results' = Empty /\ sims' = (sims \ {s}) \cup {z}
      /\ UNCHANGED <<shell, t, output, driver, pc, i, results, read, alarm, marker, trace, tracers, history>>
  BY DEF SimOpens
<1>2. z \in SimRecord /\ z.run = s.run /\ z.func = s.func
  BY SimTypes DEF PipelineInv, Types, TypeOK, SimRecord
<1> HIDE DEF z
<1>3. Types'
  BY <1>1, <1>2 DEF PipelineInv, Types, TypeOK, history, results, SimRecord
<1>4. Children'
  <2>1. \A u \in sims' : (u = z /\ u.run = s.run /\ u.func = s.func) \/ (u \in sims /\ u # s)
    BY <1>1, <1>2
  <2>2. \A r \in sims', u \in sims' : r.run = u.run => r = u
    BY <1>2, <2>1 DEF PipelineInv, Children
  <2>3. \A u \in sims' : u.run =< t /\ (~(u.run # t \/ pc = "exited") => pc = "simulate" /\ u.func = i)
    BY <2>1 DEF PipelineInv, Children, Orphan
  <2> QED BY <1>1, <2>2, <2>3 DEF PipelineInv, Children, Orphan
<1>5. MissesAreOwn'
  BY <1>1 DEF PipelineInv, MissesAreOwn, history
<1> QED BY <1>3, <1>4, <1>5

LEMMA SimEndsTypes ==
    ASSUME PipelineInv, NEW s \in sims, SimCloses(s) \/ SimFails(s)
    PROVE  Types' /\ Children' /\ MissesAreOwn'
<1>1. /\ sims' = sims \ {s} /\ csim_results' \in {csim_results, s.trace}
      /\ Reported(s, "done") \/ Reported(s, "failed")
      /\ UNCHANGED <<shell, t, output, driver, i, results, read, alarm, marker, trace, tracers, verdict>>
  BY DEF SimCloses, SimFails, files
<1>2. s \in SimRecord /\ s.trace \in Trace
  BY SimTypes DEF PipelineInv, Types, TypeOK, SimRecord
<1>3. \/ Orphan(s) /\ UNCHANGED <<pc, simulation>>
      \/ ~Orphan(s) /\ pc' = "collect" /\ \E how \in {"done", "failed"} :
             simulation' = [simulation EXCEPT ![t] = how] \/ simulation' = simulation
  BY <1>1 DEF Reported
<1>4. Types'
  <2>1. pc' \in {pc, "collect"} /\ simulation' \in [Run -> {"none", "done", "failed"}]
    BY <1>3 DEF PipelineInv, Types
  <2> QED BY <1>1, <1>2, <2>1 DEF PipelineInv, Types, TypeOK, results, Counted
<1>5. Children'
  <2>1. CASE Orphan(s) /\ pc' = pc
    BY <1>1, <2>1 DEF PipelineInv, Children, Orphan
  <2>2. CASE ~Orphan(s) /\ pc' = "collect"
    <3>1. pc = "simulate" /\ s.run = t
      BY <2>2 DEF PipelineInv, Children, Orphan
    <3> QED BY <1>1, <2>2, <3>1 DEF PipelineInv, Children, Orphan
  <2> QED BY <1>3, <2>1, <2>2
<1>6. MissesAreOwn'
  <2>1. CASE Orphan(s)
    BY <1>1, <1>3, <2>1 DEF PipelineInv, MissesAreOwn
  <2>2. CASE ~Orphan(s)
    <3>1. pc # "exited" /\ (\A r \in Run : r # t => simulation'[r] = simulation[r])
      BY <1>3, <2>2 DEF Orphan, PipelineInv, Types
    <3>2. t \in Run => output[t] = NoOutput
      BY <3>1, TestTransAssumption DEF PipelineInv, Future
    <3>3. t \in Run => output[t].correct = 0
      BY <3>2 DEF NoOutput
    <3> QED BY <1>1, <3>1, <3>3 DEF PipelineInv, MissesAreOwn
  <2> QED BY <2>1, <2>2
<1> QED BY <1>4, <1>5, <1>6

LEMMA ExitTypes ==
    ASSUME PipelineInv, Abort \/ Summary \/ Timeout \/ SegFault
    PROVE  Types'
<1>1. PICK out \in Output \cup {NoOutput} : Exit(out)
  <2>1. CASE Abort
    BY <2>1 DEF Abort
  <2>2. CASE Summary
    <3>1. correct \in {0, 1} /\ misses \in Counted \cup {INT_MAX, Garbage}
      BY DEF PipelineInv, Types, TypeOK
    <3> QED BY <2>2, <3>1, OutputTypes DEF Summary
  <2>3. CASE Timeout \/ SegFault
    BY <2>3, OutputTypes DEF Timeout, SegFault
  <2> QED BY <2>1, <2>2, <2>3
<1>2. output' \in [Run -> Output \cup {NoOutput}]
  BY <1>1 DEF Exit, PipelineInv, Types, TypeOK
<1>3. /\ pc' = "exited" /\ alarm' = FALSE
      /\ UNCHANGED <<shell, t, driver, i, funcid, correct, misses, read, marker, trace,
                      csim_results, tracers, sims, verdict, simulation>>
  BY <1>1 DEF Exit, results, files, history
<1>4. TypeOK'
  BY <1>2, <1>3, ZenonT(30) DEF PipelineInv, Types, TypeOK
<1>5. /\ trace' \in Trace \cup {Special("absent")}
      /\ verdict' \in [Run -> {"none", "valid", "invalid", "died"}]
      /\ simulation' \in [Run -> {"none", "done", "failed"}]
  BY <1>3 DEF PipelineInv, Types
<1> QED BY <1>4, <1>5 DEF Types

LEMMA OrphanWritesTypes ==
    ASSUME PipelineInv, NEW p \in tracers, OrphanWrites(p)
    PROVE  Types' /\ Children' /\ MissesAreOwn'
<1>1. /\ trace' = [trace EXCEPT !.state = "mixed"]
      /\ UNCHANGED <<shell, t, output, driver, pc, i, results, read, alarm, marker, csim_results,
                   tracers, sims, history>>
  BY DEF OrphanWrites
<1>2. trace \in Trace
  BY DEF PipelineInv, Children
<1>3. trace' \in Trace /\ trace'.state = "mixed"
  BY <1>1, <1>2, TraceTypes
<1>4. Types'
  BY <1>1, <1>3 DEF PipelineInv, Types, TypeOK, results, history
<1>5. Children'
  BY <1>1, <1>3 DEF PipelineInv, Children, Orphan
<1>6. MissesAreOwn'
  BY <1>1 DEF PipelineInv, MissesAreOwn, history
<1> QED BY <1>4, <1>5, <1>6

-----------------------------------------------------------------------------
(* test-trans starts: the alarm is set.                                      *)
LEMMA BeginKeepsInv ==
    ASSUME PipelineInv, Begin
    PROVE  PipelineInv'
<1>1. Types'
  BY DEF PipelineInv, Types, TypeOK, results, files, history, Begin
<1>2. Children'
  BY DEF PipelineInv, Children, files, Evaluating, Orphan, Begin
<1>3. Place'
  BY DEF Place, Evaluating, Begin
<1>4. Progress'
  BY TestTransAssumption DEF PipelineInv, Place, Progress, Before, results, history,
     Evaluating, Begin
<1>5. Future'
  BY DEF PipelineInv, Future, history, Evaluating, Begin
<1>6. Credited'
  BY DEF PipelineInv, Credited, Finished, history, Begin
<1>7. Own'
  BY DEF PipelineInv, Own, Clean, results, history, Evaluating, Begin
<1>8. OrphansOfTimeout'
  BY DEF OrphansOfTimeout, Begin
<1>9. MissesAreOwn'
  BY DEF PipelineInv, MissesAreOwn, history, Begin
<1> QED BY <1>1, <1>2, <1>3, <1>4, <1>5, <1>6, <1>7, <1>8, <1>9 DEF PipelineInv

(* A function is reached: its trace begins.                                  *)
LEMMA StartTraceKeepsInv ==
    ASSUME PipelineInv, StartTrace
    PROVE  PipelineInv'
<1>1. Types'
  BY TestTransAssumption DEF PipelineInv, Types, TypeOK, history, Evaluating, Trace,
     Process, StartTrace
<1>2. Children'
  BY DEF PipelineInv, Types, TypeOK, Children, Evaluating, Orphan, Trace, Process,
     StartTrace
<1>3. Place'
  BY DEF Place, Evaluating, Trace, StartTrace
<1>4. Progress'
  BY TestTransAssumption DEF PipelineInv, Progress, Before, history, Evaluating,
     StartTrace
<1>5. Future'
  BY DEF PipelineInv, Future, history, Evaluating, StartTrace
<1>6. Credited'
  BY DEF PipelineInv, Credited, Finished, history, StartTrace
<1>7. Own'
  BY DEF PipelineInv, Own, Clean, history, Evaluating, Process, StartTrace
<1>8. OrphansOfTimeout'
  BY DEF OrphansOfTimeout, StartTrace
<1>9. MissesAreOwn'
  BY DEF PipelineInv, MissesAreOwn, history, StartTrace
<1> QED BY <1>1, <1>2, <1>3, <1>4, <1>5, <1>6, <1>7, <1>8, <1>9 DEF PipelineInv

(* tracegen has judged the function.                                         *)
LEMMA TraceExitsKeepsInv ==
    ASSUME PipelineInv, TraceExits
    PROVE  PipelineInv'
<1>1. Types'
  BY TraceExitsTypes
<1>2. Children'
  BY DEF PipelineInv, Types, TypeOK, Children, Evaluating, Orphan, Trace, Process,
     TraceExits
<1>3. Place'
  BY DEF PipelineInv, Place, Evaluating, Trace, Flagged, TraceExits
<1>4. Progress'
  BY TestTransAssumption DEF PipelineInv, Types, TypeOK, Progress, Before, Passed,
     results, Evaluating, Judge, Flagged, TraceExits
<1>5. Future'
  BY DEF PipelineInv, Types, TypeOK, Future, Evaluating, Judge, TraceExits
<1>6. Credited'
  BY DEF PipelineInv, Types, Progress, Future, Credited, Finished, Passed, Evaluating,
     Judge, TraceExits
<1>7. Own'
  BY TestTransAssumption DEF PipelineInv, Types, TypeOK, Place, Own, Clean, Whole,
     results, Evaluating, Trace, Judge, Flagged, TraceExits
<1>8. OrphansOfTimeout'
  BY DEF OrphansOfTimeout, Flagged, TraceExits
<1>9. MissesAreOwn'
  BY DEF PipelineInv, Types, TypeOK, Future, MissesAreOwn, Judge, Evaluating,
     NoOutput, TraceExits
<1> QED BY <1>1, <1>2, <1>3, <1>4, <1>5, <1>6, <1>7, <1>8, <1>9 DEF PipelineInv

(* tracegen was killed.                                                      *)
LEMMA TraceDiesKeepsInv ==
    ASSUME PipelineInv, TraceDies
    PROVE  PipelineInv'
<1>1. Types'
  BY TraceDiesTypes
<1>2. Children'
  BY DEF PipelineInv, Types, TypeOK, Children, Evaluating, Orphan, Process, TraceDies
<1>3. Place'
  BY DEF PipelineInv, Place, Evaluating, Flagged, TraceDies
<1>4. Progress'
  BY TestTransAssumption DEF PipelineInv, Types, TypeOK, Progress, Before, Passed,
     results, Evaluating, Judge, Flagged, TraceDies
<1>5. Future'
  BY DEF PipelineInv, Types, TypeOK, Future, Evaluating, Judge, TraceDies
<1>6. Credited'
  BY DEF PipelineInv, Credited, Finished, Passed, Judge, Flagged, TraceDies
<1>7. Own'
  BY TestTransAssumption DEF PipelineInv, Types, TypeOK, Own, Clean, results,
     Evaluating, Judge, Flagged, TraceDies
<1>8. OrphansOfTimeout'
  BY DEF OrphansOfTimeout, Flagged, TraceDies
<1>9. MissesAreOwn'
  BY DEF PipelineInv, MissesAreOwn, Judge, TraceDies
<1> QED BY <1>1, <1>2, <1>3, <1>4, <1>5, <1>6, <1>7, <1>8, <1>9 DEF PipelineInv

(* The driver goes on to the next size.                                      *)
LEMMA NextRunKeepsInv ==
    ASSUME PipelineInv, NextRun
    PROVE  PipelineInv'
<1>1. Types'
  BY TestTransAssumption DEF PipelineInv, Types, TypeOK, files, history, Evaluating,
     Run, NextRun
<1>2. Children'
  BY DEF PipelineInv, Types, TypeOK, Children, files, Orphan, Run, NextRun
<1>3. Place'
  BY DEF Place, NextRun
<1>4. Progress'
  BY DEF PipelineInv, Progress, Before, Future, history, Evaluating, NextRun
<1>5. Future'
  BY TestTransAssumption DEF PipelineInv, Types, TypeOK, Future, Run, history, Evaluating, NextRun
<1>6. Credited'
  BY DEF PipelineInv, Types, TypeOK, Credited, Finished, history, Evaluating, NextRun
<1>7. Own'
  BY DEF PipelineInv, Types, TypeOK, Future, Own, Clean, OrphansOfTimeout, history,
     Evaluating, NextRun
<1>8. OrphansOfTimeout'
  BY DEF OrphansOfTimeout, NextRun
<1>9. MissesAreOwn'
  BY DEF PipelineInv, MissesAreOwn, history, NextRun
<1> QED BY <1>1, <1>2, <1>3, <1>4, <1>5, <1>6, <1>7, <1>8, <1>9 DEF PipelineInv

(* The function is credited if it is the submission, and simulated.          *)
LEMMA FilterKeepsInv ==
    ASSUME PipelineInv, Filter
    PROVE  PipelineInv'
<1>1. Types' /\ Children'
  BY FilterTypes
<1>2. Place'
  BY DEF PipelineInv, Place, Evaluating, Filter
<1>3. Progress'
  BY DEF PipelineInv, Types, TypeOK, Progress, Before, history, Evaluating, Credit,
     Filter
<1>4. Future'
  BY DEF PipelineInv, Future, history, Evaluating, Filter
<1>5. Credited'
  BY DEF PipelineInv, Credited, Finished, history, Filter
<1>6. Own'
  BY DEF PipelineInv, Children, Own, Clean, history, Evaluating, Orphan, Simulator,
     Filter
<1>7. OrphansOfTimeout'
  BY DEF OrphansOfTimeout, Filter
<1>8. MissesAreOwn'
  BY DEF PipelineInv, MissesAreOwn, history, Filter
<1> QED BY <1>1, <1>2, <1>3, <1>4, <1>5, <1>6, <1>7, <1>8 DEF PipelineInv

(* A simulator has emptied the result file.                                  *)
LEMMA SimOpensKeepsInv ==
    ASSUME PipelineInv, NEW s \in sims, SimOpens(s)
    PROVE  PipelineInv'
<1>1. Types' /\ Children' /\ MissesAreOwn'
  BY SimOpensTypes
<1>2. Place'
  BY DEF PipelineInv, Place, SimOpens
<1>3. Progress'
  BY DEF PipelineInv, Progress, Before, results, history, SimOpens
<1>4. Future'
  BY DEF PipelineInv, Future, history, SimOpens
<1>5. Credited'
  BY DEF PipelineInv, Credited, Finished, history, SimOpens
<1>6. Own'
  BY DEF PipelineInv, Types, TypeOK, Children, Own, Clean, results, history, Orphan,
     SimOpens
<1>7. OrphansOfTimeout'
  BY DEF PipelineInv, Types, TypeOK, OrphansOfTimeout, SimOpens
<1> QED BY <1>1, <1>2, <1>3, <1>4, <1>5, <1>6, <1>7 DEF PipelineInv

(* A simulator has written its result.                                       *)
LEMMA SimClosesKeepsInv ==
    ASSUME PipelineInv, NEW s \in sims, SimCloses(s)
    PROVE  PipelineInv'
<1>1. Types' /\ Children' /\ MissesAreOwn'
  BY SimEndsTypes
<1>2. Place'
  BY DEF PipelineInv, Children, Place, Reported, SimCloses
<1>3. Progress'
  BY DEF PipelineInv, Children, Progress, Before, results, Reported, SimCloses
<1>4. Future'
  BY DEF PipelineInv, Types, TypeOK, Children, Future, Reported, SimCloses
<1>5. Credited'
  BY DEF PipelineInv, Credited, Finished, Reported, SimCloses
<1>6. Own'
  BY TestTransAssumption DEF PipelineInv, Children, Own, Clean, results, Orphan,
     Reported, SimCloses
<1>7. OrphansOfTimeout'
  BY DEF PipelineInv, OrphansOfTimeout, Reported, SimCloses
<1> QED BY <1>1, <1>2, <1>3, <1>4, <1>5, <1>6, <1>7 DEF PipelineInv

(* A simulator has gone without a result.                                    *)
LEMMA SimFailsKeepsInv ==
    ASSUME PipelineInv, NEW s \in sims, SimFails(s)
    PROVE  PipelineInv'
<1>1. Types' /\ Children' /\ MissesAreOwn'
  BY SimEndsTypes
<1>2. Place'
  BY DEF PipelineInv, Children, Place, files, Reported, SimFails
<1>3. Progress'
  BY DEF PipelineInv, Children, Progress, Before, results, Reported, SimFails
<1>4. Future'
  BY DEF PipelineInv, Types, TypeOK, Children, Future, Reported, SimFails
<1>5. Credited'
  BY DEF PipelineInv, Credited, Finished, Reported, SimFails
<1>6. Own'
  BY DEF PipelineInv, Types, TypeOK, Children, Own, Clean, results, files, Reported,
     SimFails
<1>7. OrphansOfTimeout'
  BY DEF PipelineInv, OrphansOfTimeout, Reported, SimFails
<1> QED BY <1>1, <1>2, <1>3, <1>4, <1>5, <1>6, <1>7 DEF PipelineInv

(* The result is read.                                                       *)
LEMMA CollectKeepsInv ==
    ASSUME PipelineInv, Collect
    PROVE  PipelineInv'
<1>1. Types'
  BY TestTransAssumption DEF PipelineInv, Types, TypeOK, Place, files, history,
     Evaluating, Func, Fetched, Collect
<1>2. Children'
  BY DEF PipelineInv, Children, files, Evaluating, Orphan, Collect
<1>3. Place'
  BY DEF Place, Evaluating, Collect
<1>4. Progress'
  BY TestTransAssumption DEF PipelineInv, Types, TypeOK, Progress, Before, history,
     Evaluating, Collect
<1>5. Future'
  BY DEF PipelineInv, Future, history, Evaluating, Collect
<1>6. Credited'
  BY DEF PipelineInv, Credited, Finished, history, Collect
<1>7. Own'
  BY DEF PipelineInv, Types, TypeOK, Progress, Own, Clean, Whole, history, Evaluating,
     Special, Empty, Fetched, Collect
<1>8. OrphansOfTimeout'
  BY DEF OrphansOfTimeout, Collect
<1>9. MissesAreOwn'
  BY DEF PipelineInv, MissesAreOwn, history, Collect
<1> QED BY <1>1, <1>2, <1>3, <1>4, <1>5, <1>6, <1>7, <1>8, <1>9 DEF PipelineInv

(* An assertion ends test-trans.                                             *)
LEMMA AbortKeepsInv ==
    ASSUME PipelineInv, Abort
    PROVE  PipelineInv'
<1>1. Types'
  BY ExitTypes
<1>2. Children'
  BY DEF PipelineInv, Children, files, Orphan, Exit, Abort
<1>3. Place'
  BY DEF Place, Evaluating, Exit, Abort
<1>4. Progress'
  BY DEF Progress, Exit, Abort
<1>5. Future'
  BY DEF PipelineInv, Future, history, Exit, Abort
<1>6. Credited'
  BY DEF PipelineInv, Future, Credited, Finished, history, Evaluating, Exit, Abort
<1>7. Own'
  BY DEF PipelineInv, Own, Clean, Exit, Abort
<1>8. OrphansOfTimeout'
  BY DEF PipelineInv, Children, OrphansOfTimeout, Evaluating, Orphan, Exit, Abort
<1>9. MissesAreOwn'
  BY DEF PipelineInv, Future, MissesAreOwn, history, Evaluating, Exit, Abort
<1> QED BY <1>1, <1>2, <1>3, <1>4, <1>5, <1>6, <1>7, <1>8, <1>9 DEF PipelineInv

(* test-trans prints its summary.                                            *)
LEMMA SummaryKeepsInv ==
    ASSUME PipelineInv, Summary
    PROVE  PipelineInv'
<1>1. Types'
  BY ExitTypes
<1>2. Children'
  BY DEF PipelineInv, Children, files, Orphan, Exit, Summary
<1>3. Place'
  BY DEF Place, Evaluating, Exit, Summary
<1>4. Progress'
  BY DEF Progress, Exit, Summary
<1>5. Future'
  BY DEF PipelineInv, Types, TypeOK, Future, history, Exit, Summary
<1>6. Credited'
  BY TestTransAssumption DEF PipelineInv, Types, TypeOK, Progress, Credited, Finished,
     history, Evaluating, Exit, Summary
<1>7. Own'
  BY DEF PipelineInv, Own, Clean, Exit, Summary
<1>8. OrphansOfTimeout'
  BY DEF PipelineInv, Children, OrphansOfTimeout, Evaluating, Orphan, Exit, Summary
<1>9. MissesAreOwn'
  BY TestTransAssumption DEF PipelineInv, Types, TypeOK, Progress, Future, Own, Clean,
     Whole, OrphansOfTimeout, MissesAreOwn, Passed, results, history, Evaluating, Run,
     Func, Exit, Summary
<1> QED BY <1>1, <1>2, <1>3, <1>4, <1>5, <1>6, <1>7, <1>8, <1>9 DEF PipelineInv

(* The alarm ends test-trans; a child may stay.                              *)
LEMMA TimeoutKeepsInv ==
    ASSUME PipelineInv, Timeout \/ SegFault
    PROVE  PipelineInv'
<1>10. Exit([correct |-> 0, misses |-> Zero]) /\ t \in Run
  BY DEF Timeout, SegFault, Evaluating
<1>1. Types'
  BY ExitTypes
<1>2. Children'
  BY <1>10 DEF PipelineInv, Children, files, Orphan, Exit
<1>3. Place'
  BY <1>10 DEF Place, Exit
<1>4. Progress'
  BY <1>10 DEF Progress, Exit
<1>5. Future'
  BY <1>10 DEF PipelineInv, Types, TypeOK, Future, history, Exit
<1>6. Credited'
  BY <1>10 DEF PipelineInv, Types, TypeOK, Credited, Finished, history, Exit
<1>7. Own'
  BY <1>10 DEF PipelineInv, Own, Clean, Exit
<1>8. OrphansOfTimeout'
  BY <1>10 DEF PipelineInv, Types, TypeOK, OrphansOfTimeout, Exit
<1>9. MissesAreOwn'
  BY <1>10 DEF PipelineInv, MissesAreOwn, history, Exit
<1> QED BY <1>1, <1>2, <1>3, <1>4, <1>5, <1>6, <1>7, <1>8, <1>9 DEF PipelineInv

(* An orphan writes into the trace of another run.                           *)
LEMMA OrphanWritesKeepsInv ==
    ASSUME PipelineInv, NEW p \in tracers, OrphanWrites(p)
    PROVE  PipelineInv'
<1>1. Types' /\ Children' /\ MissesAreOwn'
  BY OrphanWritesTypes
<1>2. Place'
  <2>1. trace \in Trace
    BY DEF PipelineInv, Children
  <2>2. trace' \in Trace /\ trace'.run = trace.run /\ trace'.func = trace.func
    BY <2>1, TraceTypes DEF OrphanWrites
  <2> QED BY <2>2 DEF PipelineInv, Place, OrphanWrites
<1>3. Progress'
  BY DEF PipelineInv, Progress, Before, results, history, OrphanWrites
<1>4. Future'
  BY DEF PipelineInv, Future, history, OrphanWrites
<1>5. Credited'
  BY DEF PipelineInv, Credited, Finished, history, OrphanWrites
<1>6. Own'
  BY DEF PipelineInv, Own, Clean, Orphan, OrphanWrites
<1>7. OrphansOfTimeout'
  BY DEF PipelineInv, OrphansOfTimeout, OrphanWrites
<1> QED BY <1>1, <1>2, <1>3, <1>4, <1>5, <1>6, <1>7 DEF PipelineInv

(* An orphan ends.                                                           *)
LEMMA OrphanEndsKeepsInv ==
    ASSUME PipelineInv, NEW p \in tracers, OrphanEnds(p)
    PROVE  PipelineInv'
<1>1. Types'
  BY DEF PipelineInv, Types, TypeOK, results, files, history, OrphanEnds
<1>2. Children'
  BY DEF PipelineInv, Children, files, Orphan, OrphanEnds
<1>3. Place'
  BY DEF PipelineInv, Place, files, OrphanEnds
<1>4. Progress'
  BY DEF PipelineInv, Progress, Before, results, history, OrphanEnds
<1>5. Future'
  BY DEF PipelineInv, Future, history, OrphanEnds
<1>6. Credited'
  BY DEF PipelineInv, Credited, Finished, history, OrphanEnds
<1>7. Own'
  BY DEF PipelineInv, Own, Clean, Orphan, OrphanEnds
<1>8. OrphansOfTimeout'
  BY DEF PipelineInv, OrphansOfTimeout, OrphanEnds
<1>9. MissesAreOwn'
  BY DEF PipelineInv, MissesAreOwn, history, OrphanEnds
<1> QED BY <1>1, <1>2, <1>3, <1>4, <1>5, <1>6, <1>7, <1>8, <1>9 DEF PipelineInv

(* The driver adds up.                                                       *)
LEMMA ScoreKeepsInv ==
    ASSUME PipelineInv, Score
    PROVE  PipelineInv'
<1>1. Types'
  BY DEF PipelineInv, Types, TypeOK, results, files, history, Score
<1>2. Children'
  BY DEF PipelineInv, Children, files, Orphan, Score
<1>3. Place'
  BY TestTransAssumption DEF PipelineInv, Place, Run, Score
<1>4. Progress'
  BY TestTransAssumption DEF Progress, Run, Score
<1>5. Future'
  BY TestTransAssumption DEF PipelineInv, Types, TypeOK, Future, Run, Score
<1>6. Credited'
  BY DEF PipelineInv, Credited, Finished, history, Score
<1>7. Own'
  BY TestTransAssumption DEF PipelineInv, Place, Own, Clean, Run, Score
<1>8. OrphansOfTimeout'
  BY DEF PipelineInv, OrphansOfTimeout, Score
<1>9. MissesAreOwn'
  BY DEF PipelineInv, MissesAreOwn, history, Score
<1> QED BY <1>1, <1>2, <1>3, <1>4, <1>5, <1>6, <1>7, <1>8, <1>9 DEF PipelineInv

-----------------------------------------------------------------------------
LEMMA InitPipeline == Init => PipelineInv
<1> SUFFICES ASSUME Init PROVE PipelineInv
  OBVIOUS
<1>1. Types
  <2>1. t \in 1 .. Runs + 1 /\ i \in 1 .. Funcs + 1 /\ funcid \in 0 .. Funcs /\ correct \in {0, 1}
    BY TestTransAssumption DEF Init
  <2>2. output \in [Run -> Output \cup {NoOutput}]
    BY DEF Init
  <2>3. /\ verdict \in [Run -> {"none", "valid", "invalid", "died"}]
        /\ simulation \in [Run -> {"none", "done", "failed"}]
    BY DEF Init
  <2>4. misses \in Counted \cup {INT_MAX, Garbage} /\ read \in Counted \cup {Garbage}
    BY DEF Init
  <2>5. csim_results \in Counted \cup {Absent, Empty}
    BY DEF Init, Counted
  <2>6. trace = Special("absent") /\ trace.state = "absent"
    BY DEF Init, Special
  <2>7. /\ tracers \subseteq [run : Run, func : Func]
        /\ sims \subseteq [run : Run, func : Func, trace : Trace, opened : BOOLEAN]
    BY DEF Init
  <2>8. /\ shell \in {"execs", "waits"} /\ driver \in {"running", "scored", "failed"}
        /\ pc \in {"start", "loop", "trace", "filter", "simulate", "collect", "exited"}
        /\ alarm \in BOOLEAN /\ marker \in BOOLEAN
    BY DEF Init
  <2> QED BY <2>1, <2>2, <2>3, <2>4, <2>5, <2>6, <2>7, <2>8 DEF Types, TypeOK
<1>2. Children /\ Place /\ OrphansOfTimeout
  BY TestTransAssumption DEF Init, Children, Place, OrphansOfTimeout, Run
<1>3. Progress /\ Future
  BY TestTransAssumption DEF Init, Progress, Before, Future
<1>4. Credited /\ MissesAreOwn
  BY DEF Init, Credited, MissesAreOwn, NoOutput
<1>5. Own
  BY TestTransAssumption DEF Init, Own
<1> QED BY <1>1, <1>2, <1>3, <1>4, <1>5 DEF PipelineInv

LEMMA StutterKeepsInv == PipelineInv /\ UNCHANGED vars => PipelineInv'
BY DEF PipelineInv, Types, TypeOK, Children, Place, Progress, Before, Future, Credited,
       Finished, Own, Clean, Whole, OrphansOfTimeout, MissesAreOwn, Orphan, vars, results,
       files, history

LEMMA NextPipeline == PipelineInv /\ [Next]_vars => PipelineInv'
<1> SUFFICES ASSUME PipelineInv, [Next]_vars PROVE PipelineInv'
  OBVIOUS
<1>1. CASE Step
  BY <1>1, BeginKeepsInv, StartTraceKeepsInv, FilterKeepsInv, CollectKeepsInv,
     AbortKeepsInv, SummaryKeepsInv, NextRunKeepsInv, ScoreKeepsInv DEF Step
<1>2. CASE Child
  BY <1>2, TraceExitsKeepsInv, TraceDiesKeepsInv, SimOpensKeepsInv, SimClosesKeepsInv,
     SimFailsKeepsInv, OrphanWritesKeepsInv, OrphanEndsKeepsInv DEF Child
<1>3. CASE Timeout \/ SegFault
  BY <1>3, TimeoutKeepsInv
<1>4. CASE Ended \/ UNCHANGED vars
  BY <1>4, StutterKeepsInv DEF Ended
<1> QED BY <1>1, <1>2, <1>3, <1>4 DEF Next

THEOREM PipelineInvariance == Spec => []PipelineInv
BY InitPipeline, NextPipeline, PTL DEF Spec

(* Processes, files and outputs keep their types.                            *)
THEOREM PipelineTypes == Spec => []TypeOK
<1>1. PipelineInv => TypeOK
  BY DEF PipelineInv, Types
<1> QED BY <1>1, PipelineInvariance, PTL

(* The submission is credited for its own validation in its own run only,    *)
(* and always, unless its run ended early.                                   *)
THEOREM CreditAlwaysDeserved == Spec => []CreditIsDeserved
<1>1. PipelineInv => CreditIsDeserved
  BY DEF PipelineInv, Credited, Finished, Passed, CreditIsDeserved
<1> QED BY <1>1, PipelineInvariance, PTL

(* The misses printed are those of the submission in this run, however the   *)
(* processes that share the files interleave.                                *)
THEOREM MissesAlwaysOwn == Spec => []MissesAreOwn
<1>1. PipelineInv => MissesAreOwn
  BY DEF PipelineInv
<1> QED BY <1>1, PipelineInvariance, PTL
-----------------------------------------------------------------------------
(* A tracegen that is killed earns the submission nothing where the shell    *)
(* waits for it: main then skips the function, and later ones are not the    *)
(* submission.                                                               *)
DiedUncredited ==
    t \in Run /\ pc # "exited" /\ verdict[t] = "died" => correct = 0 /\ i > Submission

CrashInv == shell = "waits" => CrashIsNotCorrect /\ DiedUncredited

LEMMA CrashStep ==
    ASSUME PipelineInv, CrashInv, [Next]_vars
    PROVE  CrashInv'
<1> SUFFICES ASSUME shell = "waits", shell' = shell
             PROVE  CrashIsNotCorrect' /\ DiedUncredited'
  <2>1. shell' = shell
    BY DEF Next, Step, Child, Begin, StartTrace, Filter, Collect, Abort, Summary, Exit,
       NextRun, Score, TraceExits, TraceDies, SimOpens, SimCloses, SimFails,
       OrphanWrites, OrphanEnds, Timeout, SegFault, Ended, vars
  <2> QED BY <2>1 DEF CrashInv
<1>1. CrashIsNotCorrect /\ DiedUncredited
  BY DEF CrashInv
<1>2. /\ Types /\ Progress /\ Future /\ Place /\ t \in 1 .. Runs + 1 /\ i \in 1 .. Funcs + 1
      /\ verdict \in [Run -> {"none", "valid", "invalid", "died"}]
      /\ output \in [Run -> Output \cup {NoOutput}]
  BY DEF PipelineInv, Types, TypeOK
<1>3. Runs \in Nat /\ Funcs \in Nat /\ Submission \in 0 .. Funcs
  BY TestTransAssumption
<1> USE <1>1, <1>2, <1>3 DEF CrashIsNotCorrect, DiedUncredited, Evaluating
<1>4. CASE Begin \/ StartTrace
  BY <1>4 DEF Begin, StartTrace, results, history
<1>5. CASE TraceExits
  BY <1>5 DEF TraceExits, Judge, Flagged, results
<1>6. CASE TraceDies
  BY <1>6 DEF TraceDies, Judge, Flagged, results, Future, Progress, Before, Place, NoOutput, Func
<1>7. CASE Filter
  BY <1>7 DEF Filter, Credit, Progress, Before, history
<1>8. CASE Collect
  BY <1>8 DEF Collect, history
<1>9. CASE Abort \/ Summary \/ Timeout \/ SegFault
  BY <1>9 DEF Abort, Summary, Timeout, SegFault, Exit, Future, results, history, NoOutput
<1>10. CASE NextRun
  BY <1>10 DEF NextRun, Future, history
<1>11. CASE Score
  BY <1>11 DEF Score, results, history
<1>12. CASE \E s \in sims : SimOpens(s) \/ SimCloses(s) \/ SimFails(s)
  BY <1>12 DEF SimOpens, SimCloses, SimFails, Reported, Orphan, results, history
<1>13. CASE \E p \in tracers : OrphanWrites(p) \/ OrphanEnds(p)
  BY <1>13 DEF OrphanWrites, OrphanEnds, results, history
<1>14. CASE Ended \/ UNCHANGED vars
  BY <1>14 DEF Ended, vars, results, history
<1> QED BY <1>4, <1>5, <1>6, <1>7, <1>8, <1>9, <1>10, <1>11, <1>12, <1>13, <1>14
        DEF Next, Step, Child

(* The crash that is credited takes a shell that has replaced itself by the  *)
(* tracegen it runs (test-trans.c, WEXITSTATUS of a status that is a         *)
(* signal): with a shell that waits the comment of eval_perf holds.          *)
THEOREM CrashSeldomCorrect ==
    Spec => [](shell = "waits" => CrashIsNotCorrect)
<1>1. Init => CrashInv
  BY DEF Init, CrashInv, CrashIsNotCorrect, DiedUncredited, NoOutput, Run
<1>2. PipelineInv /\ CrashInv /\ [Next]_vars => CrashInv'
  BY CrashStep
<1>3. CrashInv => (shell = "waits" => CrashIsNotCorrect)
  BY DEF CrashInv
<1> QED BY <1>1, <1>2, <1>3, PipelineInvariance, PTL DEF Spec
=============================================================================

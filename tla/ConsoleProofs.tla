--------------------------- MODULE ConsoleProofs ---------------------------
(* How a session of console.c ends, for any number of files, lines, nested   *)
(* time commands and error limits.                                           *)
EXTENDS Console, SequenceTheorems, TLAPS

(* The pieces the invariants of Console lack to be inductive: who sets       *)
(* quit_flag, where main can stand when it is set, and that errors are       *)
(* counted exactly when a command line failed.                               *)
Quitting ==
    /\ cmd_list = "freed" => quit_flag /\ buf_stack = <<>>
    /\ quit_flag /\ cmd_list = "live" => err_cnt > 0

PlaceOfMain ==
    /\ pc = "start" => ~quit_flag
    /\ pc = "select" => ~cmd_done
    /\ pc = "finish" => cmd_done
    /\ pc # "exit" => exit_status = 1

IInv ==
    /\ TypeOK /\ ReleasedOnce /\ SuccessIsClean
    /\ Quitting /\ PlaceOfMain
    /\ err_cnt = 0 <=> failed = 0

LEMMA InitEstablishes == Init => IInv
<1> SUFFICES ASSUME Init PROVE IInv
  OBVIOUS
<1>1. TypeOK
  <2>1. buf_stack \in Seq(File)
    BY DEF Init
  <2> QED BY <2>1 DEF Init, TypeOK
<1> QED BY <1>1 DEF Init, IInv, ReleasedOnce, SuccessIsClean, Quitting, PlaceOfMain

(* A line is interpreted with files left open that are files.  This holds of *)
(* the parts of the invariant that do not mention pc.                        *)
LEMMA InterpretKeeps ==
    ASSUME IInv, NEW c \in Line, NEW files \in Seq(File),
           Interpret(c, files), quit_flag => files = <<>> \/ cmd_list = "live"
    PROVE  /\ buf_stack' \in Seq(File)
           /\ quit_flag' \in BOOLEAN
           /\ err_cnt' \in Nat /\ failed' \in Nat /\ err_limit' \in ErrorLimits
           /\ cmd_list' \in {"live", "freed"} /\ helper_runs' \in Nat
           /\ ReleasedOnce' /\ Quitting'
           /\ (err_cnt = 0 <=> failed = 0)'
           /\ quit_flag => /\ quit_flag' /\ buf_stack' = files
                           /\ UNCHANGED <<errors, cmd_list, helper_runs>>
<1> USE DEF TypeOK, IInv, ReleasedOnce, Quitting
<1>1. CASE quit_flag
  BY <1>1 DEF Interpret, errors, ending
<1>2. CASE ~quit_flag
  <2>1. cmd_list = "live" /\ helper_runs = 0
    BY <1>2
  <2>2. PICK result \in BOOLEAN :
          /\ RecordErrors(IF result THEN 0 ELSE 1 + c.time, c.op = "quit")
          /\ \/ /\ c.op = "run" /\ result = c.ok
                /\ buf_stack' = files
                /\ UNCHANGED <<err_limit, cmd_list, helper_runs>>
             \/ /\ c.op = "error"
                /\ err_limit' \in ErrorLimits
                /\ buf_stack' = files
                /\ UNCHANGED <<cmd_list, helper_runs>>
             \/ /\ c.op = "source"
                /\ PushFile(files, result)
                /\ UNCHANGED <<err_limit, cmd_list, helper_runs>>
             \/ /\ c.op = "quit"
                /\ DoQuit
                /\ UNCHANGED err_limit
    BY <1>2 DEF Interpret, Execute
  <2> DEFINE n == IF result THEN 0 ELSE 1 + c.time
  <2>3. n \in Nat
    BY ConsoleAssumption DEF Line
  <2>4. /\ err_cnt' = err_cnt + n
        /\ quit_flag' = (c.op = "quit" \/ (n > 0 /\ err_cnt + n >= err_limit'))
        /\ failed' = IF n > 0 THEN failed + 1 ELSE failed
    BY <2>2 DEF RecordErrors
  <2>11. quit_flag' \in BOOLEAN /\ (quit_flag' => c.op = "quit" \/ n > 0)
    BY <2>4, Zenon
  <2>5. err_cnt' \in Nat /\ failed' \in Nat
    BY <2>3, <2>4
  <2>6. (err_cnt = 0 <=> failed = 0)'
    BY <2>3, <2>4
  <2>7. quit_flag' /\ c.op # "quit" => err_cnt' > 0
    BY <2>3, <2>4, <2>11
  <2>8. buf_stack' \in Seq(File)
    <3>1. CASE PushFile(files, result)
      <4>1. buf_stack' = files \/ \E f \in NewFile : buf_stack' = <<f>> \o files
        BY <3>1 DEF PushFile
      <4>2. \A f \in NewFile : f \in File
        BY DEF NewFile
      <4>3. \A f \in NewFile : <<f>> \o files \in Seq(File)
        <5> SUFFICES ASSUME NEW f \in NewFile PROVE <<f>> \o files \in Seq(File)
          OBVIOUS
        <5>1. <<f>> \in Seq(File)
          BY <4>2
        <5> QED BY <5>1, ConcatProperties
      <4> QED BY <4>1, <4>3
    <3>2. CASE DoQuit
      BY <3>2 DEF DoQuit
    <3> QED BY <2>2, <3>1, <3>2
  <2>9. CASE c.op = "quit"
    <3>1. buf_stack' = <<>> /\ cmd_list' = "freed" /\ helper_runs' = 1
      BY <2>1, <2>2, <2>9 DEF DoQuit
    <3>2. quit_flag'
      BY <2>4, <2>9, Zenon
    <3>3. err_limit' \in ErrorLimits
      BY <2>2
    <3> QED BY <1>2, <2>5, <2>6, <2>8, <2>9, <2>11, <3>1, <3>2, <3>3
  <2>10. CASE c.op # "quit"
    <3>1. cmd_list' = "live" /\ helper_runs' = 0
      BY <2>1, <2>2, <2>10
    <3>2. err_limit' \in ErrorLimits
      BY <2>2
    <3> QED BY <1>2, <2>5, <2>6, <2>7, <2>8, <2>10, <2>11, <3>1, <3>2
  <2> QED BY <2>9, <2>10
<1> QED BY <1>1, <1>2

(* The files that readline leaves open.                                      *)
FilesLeft(files) ==
    \/ /\ pc = "drain" /\ read_ready
       /\ files = [buf_stack EXCEPT ![1].buffered = @ - 1]
    \/ /\ pc = "select"
       /\ \E k \in 1 .. Head(buf_stack).unread :
             files = [buf_stack EXCEPT ![1].buffered = k - 1, ![1].unread = @ - k]
    \/ pc = "select" /\ files = Tail(buf_stack)

LEMMA FilesLeftAreFiles ==
    ASSUME IInv, NEW files, FilesLeft(files)
    PROVE  /\ files \in Seq(File) /\ Len(files) =< Len(buf_stack)
           /\ quit_flag => cmd_list = "live"
<1>1. buf_stack \in Seq(File) /\ buf_stack # <<>>
  BY DEF IInv, TypeOK, PlaceOfMain, FilesLeft, cmd_done, read_ready
<1>2. quit_flag => cmd_list = "live"
  BY <1>1 DEF IInv, TypeOK, Quitting
<1>3. /\ Len(buf_stack) \in Nat /\ 1 \in 1 .. Len(buf_stack)
      /\ Head(buf_stack) = buf_stack[1] /\ buf_stack[1] \in File
  BY <1>1
<1> DEFINE top == buf_stack[1]
<1>4. /\ top.buffered \in 0 .. MaxLines /\ top.unread \in 0 .. MaxLines
      /\ top.partial \in BOOLEAN
  BY <1>3 DEF File
<1>5. ASSUME NEW f \in File, files = [buf_stack EXCEPT ![1] = f]
      PROVE  files \in Seq(File) /\ Len(files) = Len(buf_stack)
  BY <1>1, <1>3, <1>5, ExceptSeq
<1>6. CASE read_ready /\ files = [buf_stack EXCEPT ![1].buffered = @ - 1]
  <2>1. top.buffered - 1 \in 0 .. MaxLines
    BY <1>3, <1>4, <1>6, ConsoleAssumption DEF read_ready
  <2>2. [top EXCEPT !.buffered = @ - 1] \in File
    BY <1>3, <2>1 DEF File
  <2>3. files = [buf_stack EXCEPT ![1] = [top EXCEPT !.buffered = @ - 1]]
    BY <1>6
  <2>4. files \in Seq(File) /\ Len(files) = Len(buf_stack)
    BY <1>5, <2>2, <2>3
  <2> QED BY <1>2, <1>3, <2>4
<1>7. ASSUME NEW k \in 1 .. Head(buf_stack).unread,
             files = [buf_stack EXCEPT ![1].buffered = k - 1, ![1].unread = @ - k]
      PROVE  files \in Seq(File) /\ Len(files) =< Len(buf_stack)
  <2>1. k - 1 \in 0 .. MaxLines /\ top.unread - k \in 0 .. MaxLines
    BY <1>3, <1>4, ConsoleAssumption
  <2> DEFINE f == [[top EXCEPT !.buffered = k - 1] EXCEPT !.unread = @ - k]
  <2>2. f \in File
    BY <1>3, <2>1 DEF File
  <2>3. files = [buf_stack EXCEPT ![1] = f]
    BY <1>1, <1>3, <1>7
  <2>4. files \in Seq(File) /\ Len(files) = Len(buf_stack)
    BY <1>5, <2>2, <2>3
  <2> QED BY <1>3, <2>4
<1>8. CASE files = Tail(buf_stack)
  BY <1>1, <1>2, <1>8, HeadTailProperties
<1> QED BY <1>2, <1>6, <1>7, <1>8 DEF FilesLeft

(* What QuitIsFinal says of a step.                                          *)
NothingAfterQuit ==
    quit_flag => /\ quit_flag'
                 /\ UNCHANGED <<errors, cmd_list, helper_runs>>
                 /\ Len(buf_stack') =< Len(buf_stack)

LEMMA LineKeeps ==
    ASSUME IInv, NEW c \in Line, NEW files, FilesLeft(files), Interpret(c, files),
           pc' \in {"drain", "test"}, exit_status' = exit_status
    PROVE  IInv' /\ NothingAfterQuit
<1>1. /\ files \in Seq(File) /\ Len(files) =< Len(buf_stack)
      /\ quit_flag => cmd_list = "live"
  BY FilesLeftAreFiles
<1>2. /\ buf_stack' \in Seq(File)
      /\ quit_flag' \in BOOLEAN
      /\ err_cnt' \in Nat /\ failed' \in Nat /\ err_limit' \in ErrorLimits
      /\ cmd_list' \in {"live", "freed"} /\ helper_runs' \in Nat
      /\ ReleasedOnce' /\ Quitting'
      /\ (err_cnt = 0 <=> failed = 0)'
      /\ quit_flag => /\ quit_flag' /\ buf_stack' = files
                      /\ UNCHANGED <<errors, cmd_list, helper_runs>>
  BY <1>1, InterpretKeeps
<1>3. exit_status' = 1
  BY DEF FilesLeft, IInv, PlaceOfMain
<1>4. TypeOK'
  BY <1>2, <1>3 DEF TypeOK
<1>5. SuccessIsClean' /\ PlaceOfMain'
  BY <1>3 DEF SuccessIsClean, PlaceOfMain
<1> QED BY <1>1, <1>2, <1>4, <1>5 DEF IInv, NothingAfterQuit

LEMMA StepKeeps ==
    ASSUME IInv, [Next]_vars
    PROVE  IInv' /\ NothingAfterQuit
<1>0. Len(buf_stack) \in Nat
  BY DEF IInv, TypeOK
<1> USE DEF IInv, TypeOK, ReleasedOnce, Quitting, PlaceOfMain, SuccessIsClean,
            NothingAfterQuit, errors, ending, vars
<1>1. CASE Start
  <2>1. PICK result \in BOOLEAN :
          /\ PushFile(buf_stack, result)
          /\ pc' = IF result THEN "test" ELSE "exit"
    BY <1>1 DEF Start
  <2>2. buf_stack' \in Seq(File)
    <3>1. ASSUME NEW f \in NewFile PROVE <<f>> \o buf_stack \in Seq(File)
      <4>1. <<f>> \in Seq(File)
        BY DEF NewFile
      <4> QED BY <4>1, ConcatProperties
    <3> QED BY <2>1, <3>1 DEF PushFile
  <2> QED BY <1>1, <2>1, <2>2 DEF Start
<1>2. CASE Test
  BY <1>0, <1>2 DEF Test, cmd_done
<1>3. CASE Drain
  <2>1. PICK c \in Line : Interpret(c, [buf_stack EXCEPT ![1].buffered = @ - 1])
    BY <1>3 DEF Drain
  <2>2. FilesLeft([buf_stack EXCEPT ![1].buffered = @ - 1])
    BY <1>3 DEF Drain, FilesLeft
  <2>3. pc' \in {"drain", "test"} /\ exit_status' = exit_status
    BY <1>3 DEF Drain
  <2> HIDE DEF IInv, NothingAfterQuit
  <2> QED BY <2>1, <2>2, <2>3, LineKeeps
<1>4. CASE DrainEnd
  BY <1>0, <1>4 DEF DrainEnd, cmd_done
<1>5. CASE SelectInput
  <2>1. pc = "select" /\ pc' \in {"drain", "test"} /\ exit_status' = exit_status
    BY <1>5 DEF SelectInput
  <2>2. CASE ReadLine(Head(buf_stack))
    <3>1. PICK k \in 1 .. Head(buf_stack).unread, c \in Line :
            Interpret(c, [buf_stack EXCEPT ![1].buffered = k - 1, ![1].unread = @ - k])
      BY <2>2 DEF ReadLine
    <3>2. FilesLeft([buf_stack EXCEPT ![1].buffered = k - 1, ![1].unread = @ - k])
      BY <2>1 DEF FilesLeft
    <3> HIDE DEF IInv, NothingAfterQuit
    <3> QED BY <2>1, <3>1, <3>2, LineKeeps
  <2>3. CASE ReadLastLine(Head(buf_stack))
    <3>1. PICK c \in Line : Interpret(c, Tail(buf_stack))
      BY <2>3 DEF ReadLastLine
    <3>2. FilesLeft(Tail(buf_stack))
      BY <2>1 DEF FilesLeft
    <3> HIDE DEF IInv, NothingAfterQuit
    <3> QED BY <2>1, <3>1, <3>2, LineKeeps
  <2>4. CASE ReadEnd(Head(buf_stack))
    <3>1. Tail(buf_stack) \in Seq(File) /\ ~quit_flag
      BY <2>1, HeadTailProperties DEF cmd_done
    <3> QED BY <1>5, <2>1, <2>4, <3>1 DEF ReadEnd, SelectInput
  <2> QED BY <1>5, <2>2, <2>3, <2>4 DEF SelectInput
<1>6. CASE SelectOther
  BY <1>0, <1>6 DEF SelectOther
<1>7. CASE Finish
  <2>1. CASE err_cnt = 0 /\ ~quit_flag
    <3>1. /\ buf_stack' = <<>> /\ cmd_list' = "freed" /\ helper_runs' = 1
          /\ quit_flag' = TRUE /\ pc' = "exit" /\ exit_status' \in {0, 1}
          /\ UNCHANGED errors
      BY <1>7, <2>1 DEF Finish, DoQuit
    <3> QED BY <2>1, <3>1
  <2>2. CASE ~(err_cnt = 0 /\ ~quit_flag)
    BY <1>0, <1>7, <2>2 DEF Finish
  <2> QED BY <2>1, <2>2
<1>8. CASE Exited \/ UNCHANGED vars
  <2>1. UNCHANGED <<buf_stack, quit_flag, err_cnt, err_limit, cmd_list, helper_runs,
                    failed, pc, exit_status>>
    BY <1>8 DEF Exited
  <2>2. NothingAfterQuit
    BY <1>0, <2>1
  <2>3. TypeOK' /\ ReleasedOnce' /\ SuccessIsClean' /\ Quitting'
    BY <2>1
  <2>4. PlaceOfMain' /\ (err_cnt = 0 <=> failed = 0)'
    BY <2>1 DEF cmd_done
  <2> QED BY <2>2, <2>3, <2>4
<1> HIDE DEF IInv, TypeOK, ReleasedOnce, Quitting, PlaceOfMain, SuccessIsClean,
             NothingAfterQuit, errors, ending, vars
<1>9. \/ Start \/ Test \/ Drain \/ DrainEnd \/ SelectInput \/ SelectOther
      \/ Finish \/ Exited \/ UNCHANGED vars
  BY DEF Next
<1> QED BY <1>1, <1>2, <1>3, <1>4, <1>5, <1>6, <1>7, <1>8, <1>9

LEMMA Invariance == Spec => []IInv
<1>1. IInv /\ [Next]_vars => IInv'
  BY StepKeeps
<1> QED BY InitEstablishes, <1>1, PTL DEF Spec

(* The variables of the console keep their types.                            *)
THEOREM TypeCorrect == Spec => []TypeOK
<1>1. IInv => TypeOK
  BY DEF IInv
<1> QED BY Invariance, <1>1, PTL

(* On any way out the tables are freed and the queue is released once.       *)
THEOREM ReleasesOnce == Spec => []ReleasedOnce
<1>1. IInv => ReleasedOnce
  BY DEF IInv
<1> QED BY Invariance, <1>1, PTL

(* An exit status of 0 is that of a clean session.                           *)
THEOREM SuccessMeansClean == Spec => []SuccessIsClean
<1>1. IInv => SuccessIsClean
  BY DEF IInv
<1> QED BY Invariance, <1>1, PTL

(* Once the program has decided to quit, the lines that are still buffered   *)
(* have no effect.                                                           *)
THEOREM QuittingIsFinal == Spec => QuitIsFinal
<1>1. IInv /\ [Next]_vars => [NothingAfterQuit]_vars
  BY StepKeeps
<1>2. QuitIsFinal <=> [][NothingAfterQuit]_vars
  BY DEF QuitIsFinal, NothingAfterQuit
<1> QED BY Invariance, <1>1, <1>2, PTL DEF Spec

(* How far the helpers are lost at the end of the input (console.c,          *)
(* finish_cmd): they have run when main is through with it, unless a command *)
(* failed and no quit command came after it.                                 *)
HelpersLostOnlyByErrors ==
    [][pc = "finish" => (helper_runs' = 1 <=> failed = 0 \/ cmd_list = "freed")]_vars

THEOREM HelpersLostOnlyAfterErrors == Spec => HelpersLostOnlyByErrors
<1> DEFINE A == pc = "finish" => (helper_runs' = 1 <=> failed = 0 \/ cmd_list = "freed")
<1>1. IInv /\ [Next]_vars => [A]_vars
  <2> SUFFICES ASSUME IInv, Next, pc = "finish" PROVE A
    OBVIOUS
  <2>1. Finish
    BY DEF Next, Start, Test, Drain, DrainEnd, SelectInput, SelectOther, Exited
  <2>2. /\ helper_runs =< 1 /\ helper_runs \in Nat
        /\ cmd_list = "freed" <=> helper_runs = 1
        /\ cmd_list = "freed" => quit_flag
        /\ quit_flag => cmd_list = "freed" \/ err_cnt > 0
        /\ err_cnt = 0 <=> failed = 0
        /\ err_cnt \in Nat
    BY DEF IInv, TypeOK, ReleasedOnce, Quitting
  <2> QED BY <2>1, <2>2 DEF Finish, DoQuit, ending
<1>2. HelpersLostOnlyByErrors <=> [][A]_vars
  BY DEF HelpersLostOnlyByErrors
<1> QED BY Invariance, <1>1, <1>2, PTL DEF Spec
=============================================================================

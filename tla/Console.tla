------------------------------ MODULE Console ------------------------------
(* console.c: the command interpreter and main.  Command lines come from a   *)
(* stack of files that "source" pushes; errors are counted up to a limit;    *)
(* the program ends by the quit command, by the error limit or at the end of *)
(* the input, and the exit status is decided in main.  Definitions named     *)
(* Faulty are slips in the definition of that name below them; no            *)
(* specification uses them.                                                  *)
EXTENDS Integers, Sequences

CONSTANTS
    MaxFiles,       \* open files the process is allowed
    MaxLines,       \* bound of the model: complete lines in a file
    ErrorLimits,    \* values given to "option error", with the default among them
    MaxTime         \* bound of the model: nesting of the time command

ASSUME ConsoleAssumption ==
    /\ MaxFiles \in Nat \ {0} /\ MaxLines \in Nat /\ MaxTime \in Nat
    /\ ErrorLimits \subseteq Int

VARIABLES
    buf_stack,      \* open files, the one being read first
    quit_flag, err_cnt, err_limit,
    cmd_list,       \* the command table: "live", or "freed" by do_quit_cmd
    helper_runs,    \* how often the quit helpers ran
    failed,         \* command lines that returned false
    pc,             \* where main stands
    exit_status

errors == <<err_cnt, err_limit, failed>>
ending == <<quit_flag, cmd_list, helper_runs>>
vars   == <<buf_stack, errors, ending, pc, exit_status>>

(* An open file: complete lines in its buffer, complete lines not read yet,  *)
(* and whether its last line lacks a newline.                                *)
File == [buffered : 0 .. MaxLines, unread : 0 .. MaxLines, partial : BOOLEAN]
NewFile == {f \in File : f.buffered = 0}

(* A command line: a command below so many times "time".  A "run" stands for *)
(* any command of the program but the ones below it, with its result; false  *)
(* includes an unknown command and wrong arguments.                          *)
Line == {[op |-> "run", ok |-> b, time |-> t] : b \in BOOLEAN, t \in 0 .. MaxTime}
   \cup {[op |-> o, ok |-> TRUE, time |-> t] :
            o \in {"quit", "source", "error"}, t \in 0 .. MaxTime}

TypeOK ==
    /\ buf_stack \in Seq(File)
    /\ quit_flag \in BOOLEAN
    /\ err_cnt \in Nat /\ failed \in Nat /\ err_limit \in ErrorLimits
    /\ cmd_list \in {"live", "freed"}
    /\ helper_runs \in Nat
    /\ pc \in {"start", "test", "drain", "select", "finish", "exit"}
    /\ exit_status \in {0, 1}

Init ==
    /\ buf_stack = <<>>
    /\ quit_flag = FALSE /\ err_cnt = 0 /\ err_limit \in ErrorLimits
    /\ cmd_list = "live" /\ helper_runs = 0
    /\ failed = 0
    /\ pc = "start"
    /\ exit_status = 1
-----------------------------------------------------------------------------
cmd_done == buf_stack = <<>> \/ quit_flag

(* Any open file passes for a complete line.                                 *)
faulty_read_ready == buf_stack # <<>>

read_ready == buf_stack # <<>> /\ Head(buf_stack).buffered > 0

(* push_file: open fails if there is no such file or no descriptor left.     *)
PushFile(files, result) ==
    \/ result = FALSE /\ buf_stack' = files
    \/ /\ result = TRUE /\ Len(files) < MaxFiles
       /\ \E f \in NewFile : buf_stack' = <<f>> \o files

(* record_error, called by each of the n interpreters that see the failure,  *)
(* after the command.                                                        *)
RecordErrors(n, quitting) ==
    /\ err_cnt' = err_cnt + n
    /\ quit_flag' = (quitting \/ (n > 0 /\ err_cnt + n >= err_limit'))
    /\ failed' = IF n > 0 THEN failed + 1 ELSE failed

(* do_quit_cmd frees the tables, closes every file and runs the helpers.     *)
DoQuit ==
    /\ buf_stack' = <<>>
    /\ cmd_list' = "freed"
    /\ helper_runs' = helper_runs + 1

(* interpret_cmda of line c, once readline has left the given files open.    *)
(* option takes pairs of a name and a value: one that sets the error limit   *)
(* may fail at a later pair.                                                 *)
Execute(c, files) ==
    \E result \in BOOLEAN :
       /\ \/ /\ c.op = "run" /\ result = c.ok
             /\ buf_stack' = files
             /\ UNCHANGED <<err_limit, cmd_list, helper_runs>>
          \/ /\ c.op = "error"
             /\ err_limit' \in ErrorLimits
             /\ buf_stack' = files
             /\ UNCHANGED <<cmd_list, helper_runs>>
          \/ /\ c.op = "source"
             /\ PushFile(files, result)
             /\ UNCHANGED <<err_limit, cmd_list, helper_runs>>
          \/ /\ c.op = "quit"
             /\ DoQuit
             /\ UNCHANGED err_limit
       /\ RecordErrors(IF result THEN 0 ELSE 1 + c.time, c.op = "quit")

(* A line is executed even when the program is about to quit.                *)
FaultyInterpret(c, files) == Execute(c, files)

(* interpret_cmd: after quit_flag is set a line has no effect.               *)
Interpret(c, files) ==
    IF quit_flag
      THEN /\ buf_stack' = files
           /\ UNCHANGED <<errors, ending>>
      ELSE Execute(c, files)
-----------------------------------------------------------------------------
(* run_console opens the first file.                                         *)
Start ==
    /\ pc = "start"
    /\ \E result \in BOOLEAN :
          /\ PushFile(buf_stack, result)
          /\ pc' = IF result THEN "test" ELSE "exit"
    /\ UNCHANGED <<errors, ending, exit_status>>

Test ==
    /\ pc = "test"
    /\ pc' = IF cmd_done THEN "finish" ELSE "drain"
    /\ UNCHANGED <<buf_stack, errors, ending, exit_status>>

(* The loop of cmd_select over complete lines that are already buffered: it  *)
(* does not look at quit_flag, interpret_cmd does.                           *)
Drain ==
    /\ pc = "drain" /\ read_ready
    /\ \E c \in Line :
          Interpret(c, [buf_stack EXCEPT ![1].buffered = @ - 1])
    /\ UNCHANGED <<pc, exit_status>>

DrainEnd ==
    /\ pc = "drain" /\ ~read_ready
    /\ pc' = IF cmd_done THEN "test" ELSE "select"
    /\ UNCHANGED <<buf_stack, errors, ending, exit_status>>

(* One line is read: k lines come into the buffer and the first is taken.    *)
ReadLine(top) ==
    \E k \in 1 .. top.unread, c \in Line :
       Interpret(c, [buf_stack EXCEPT ![1].buffered = k - 1, ![1].unread = @ - k])

(* At the end of a file it is popped; a last line without newline is         *)
(* interpreted all the same.                                                 *)
ReadLastLine(top) ==
    /\ top.unread = 0 /\ top.partial
    /\ \E c \in Line : Interpret(c, Tail(buf_stack))

(* The file is left open.                                                    *)
FaultyReadEnd(top) ==
    /\ top.unread = 0 /\ ~top.partial
    /\ UNCHANGED <<buf_stack, errors, ending>>

ReadEnd(top) ==
    /\ top.unread = 0 /\ ~top.partial
    /\ buf_stack' = Tail(buf_stack)
    /\ UNCHANGED <<errors, ending>>

(* select finds the input readable.                                          *)
SelectInput ==
    /\ pc = "select"
    /\ LET top == Head(buf_stack)
       IN  ReadLine(top) \/ ReadLastLine(top) \/ ReadEnd(top)
    /\ pc' = "test"
    /\ UNCHANGED exit_status

(* local_readset is never cleared: select may also return for a descriptor   *)
(* whose bit happened to be set, with nothing to read on the input.          *)
SelectOther ==
    /\ pc = "select"
    /\ pc' = "test"
    /\ UNCHANGED <<buf_stack, errors, ending, exit_status>>

(* finish_cmd quits whether or not something has quit already.               *)
FaultyFinish ==
    /\ pc = "finish"
    /\ pc' = "exit"
    /\ IF err_cnt = 0
         THEN /\ DoQuit
              /\ quit_flag' = TRUE
              /\ exit_status' \in {0, 1}
         ELSE /\ exit_status' = 1
              /\ UNCHANGED <<buf_stack, ending>>
    /\ UNCHANGED errors

(* The exit status forgets the errors of a session that quit ended.          *)
ForgetfulFinish ==
    /\ pc = "finish"
    /\ pc' = "exit"
    /\ IF err_cnt = 0 /\ ~quit_flag
         THEN /\ DoQuit
              /\ quit_flag' = TRUE
              /\ exit_status' \in {0, 1}
         ELSE /\ exit_status' = IF quit_flag THEN 0 ELSE 1
              /\ UNCHANGED <<buf_stack, ending>>
    /\ UNCHANGED errors

(* main after the loop: finish_cmd runs only if run_console returned true,   *)
(* and quits only if nothing has quit yet.                                   *)
Finish ==
    /\ pc = "finish"
    /\ pc' = "exit"
    /\ IF err_cnt = 0 /\ ~quit_flag
         THEN /\ DoQuit
              /\ quit_flag' = TRUE
              /\ exit_status' \in {0, 1}
         ELSE /\ exit_status' = IF err_cnt = 0 THEN 0 ELSE 1
              /\ UNCHANGED <<buf_stack, ending>>
    /\ UNCHANGED errors

Exited == pc = "exit" /\ UNCHANGED vars

Step == Start \/ Test \/ Drain \/ DrainEnd \/ Finish

Next ==
    \/ Start \/ Test \/ Drain \/ DrainEnd
    \/ SelectInput \/ SelectOther
    \/ Finish
    \/ Exited

Spec == Init /\ [][Next]_vars

(* The process runs, and an input that stays readable is eventually reported *)
(* by select.                                                                *)
FairSpec == Spec /\ WF_vars(Step) /\ SF_vars(SelectInput)
-----------------------------------------------------------------------------
(* Once the program has decided to quit, the lines still buffered are taken  *)
(* without effect: no command runs (its table may be freed), no error is     *)
(* counted, no file is opened, and the helpers do not run again.             *)
QuitIsFinal ==
    [][quit_flag => /\ quit_flag'
                    /\ UNCHANGED <<errors, cmd_list, helper_runs>>
                    /\ Len(buf_stack') =< Len(buf_stack)]_vars

(* The tables are freed and the queue released at most once on any way out.  *)
ReleasedOnce == helper_runs =< 1 /\ (cmd_list = "freed" <=> helper_runs = 1)

(* An exit status of 0 means that no command failed, that every file was     *)
(* closed and that the quit helpers ran.                                     *)
SuccessIsClean ==
    pc = "exit" /\ exit_status = 0 =>
        failed = 0 /\ err_cnt = 0 /\ buf_stack = <<>> /\ helper_runs = 1

(* An unterminated last line that sources a file: its own file is closed     *)
(* before the new one is opened, so the open-file limit does not bound it.   *)
ChainedSource ==
    /\ pc = "select"
    /\ Head(buf_stack).unread = 0 /\ Head(buf_stack).partial
    /\ Len(buf_stack') = Len(buf_stack)

(* The interpreter ends on every input: nested and circular source commands  *)
(* are cut off by the open-file limit, and the ends of files or the error    *)
(* limit do the rest.  The one way to run for ever is a file that sources    *)
(* itself from a last line without newline.                                  *)
EndsUnlessChained == <>(pc = "exit") \/ []<><<ChainedSource>>_vars
=============================================================================

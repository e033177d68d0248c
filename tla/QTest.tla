------------------------------- MODULE QTest -------------------------------
(* qtest.c: the commands that drive the queue under test.  A command is a    *)
(* sequence of steps: the calls of queue.c it makes, under the harness's     *)
(* alarm, then the display of the queue, then its result.  Meanwhile the     *)
(* alarm may fire and kill the process, and an allocation the harness treats *)
(* as fatal ends it.  What is reported matters for the log file only: a      *)
(* session that has misused it is not followed any further.  Faulty          *)
(* definitions are as in Queue.                                              *)
EXTENDS Queue, Report

CONSTANTS
    Checks,         \* expected values given to rh, with NULL for none
    Reps,           \* repetition counts given to ih and it
    SizeReps,       \* repetition counts given to size
    Lengths,        \* values given to "option length"
    FailLimits,     \* values given to "option fail"
    VerbLevels,     \* values of -v, and given to "option verbose"
    LogFiles,       \* what opening a log file leads to, or doing without
    MaxFailCount    \* bound of the model: no command starts beyond it

ASSUME QTestAssumption ==
    /\ Checks \subseteq Text \cup {NULL}
    /\ NULL \notin Text
    /\ Reps \subseteq Int /\ SizeReps \subseteq Int
    /\ Lengths \subseteq Int
    /\ FailLimits \subseteq Int
    /\ {0} \cup {n + 1 : n \in Lengths \cap Nat} \subseteq BufSizes
    /\ VerbLevels \subseteq Int
    /\ LogFiles \subseteq {"none", "open"}
    /\ MaxFailCount \in Nat

(* console.c splits a command at white space: no argument is empty.          *)
ASSUME NoEmptyString == <<>> \notin Text

VARIABLES
    qcnt,               \* number of elements the tester believes in
    fail_limit, fail_count,
    string_length,      \* i_string_length, before the cast to size_t
    noallocate_mode,    \* harness: malloc and free are fatal
    alarm,              \* harness: a timeout is armed
    error_occurred,     \* harness: memory ran out and it was not fatal
    reporter,           \* verblevel and logfile
    phase,              \* where the running command stands, or "console"
    cmd,                \* the running command
    r, lasts,           \* locals of the insertion loop
    e, cnt,             \* locals of show_queue
    ok,                 \* result of the command, final once back at the console
    status              \* "running", or how the process ended

options == <<fail_limit, string_length>>
harness == <<noallocate_mode, alarm>>
reports == <<error_occurred, reporter>>
counts  == <<qcnt, fail_count>>
insertion == <<r, lasts>>
walk    == <<e, cnt>>
tester  == <<options, harness, reports, counts, phase, cmd, insertion, walk, ok, status>>
allvars == <<vars, tester>>

Command(op, str, n) == [op |-> op, str |-> str, n |-> n]
NoCommand == Command("none", NULL, 0)

Commands ==
    {Command(op, NULL, 0) : op \in {"new", "free", "rhq", "reverse", "show", "quit"}}
    \cup {Command(op, s, n) : op \in {"ih", "it"}, s \in Text, n \in Reps}
    \cup {Command("rh", s, 0) : s \in Checks}
    \cup {Command("size", NULL, n) : n \in SizeReps}

Phase == {"console", "new", "free", "freed", "insert", "remove", "reverse",
          "reversed", "size", "show", "quit", "quitting"}

TesterTypeOK ==
    /\ TypeOK
    /\ qcnt \in Nat /\ fail_count \in Nat
    /\ fail_limit \in Int /\ string_length \in Int
    /\ noallocate_mode \in BOOLEAN /\ alarm \in BOOLEAN
    /\ error_occurred \in BOOLEAN /\ reporter \in Reporter
    /\ phase \in Phase
    /\ cmd \in Commands \cup {NoCommand}
    /\ r \in Nat /\ cnt \in Nat
    /\ lasts \in Str \cup {NULL}
    /\ e \in Node \cup {NULL}
    /\ ok \in BOOLEAN
    /\ status \in {"running", "killed", "fatal", "crashed", "exited"}

TesterInit ==
    /\ Init
    /\ qcnt = 0 /\ fail_count = 0
    /\ fail_limit \in FailLimits /\ string_length \in Lengths
    /\ noallocate_mode = FALSE /\ alarm = FALSE
    /\ error_occurred = FALSE
    /\ reporter \in [verblevel : VerbLevels, logfile : LogFiles]
    /\ phase = "console" /\ cmd = NoCommand
    /\ r = 0 /\ lasts = NULL /\ e = NULL /\ cnt = 0
    /\ ok = TRUE
    /\ status = "running"

Alive == status = "running" /\ reporter.logfile # "misused"

Running(p) == Alive /\ phase = p
-----------------------------------------------------------------------------
(* Every command resets its locals, sets ok and, except show, arms the       *)
(* alarm before its first call; reverse also forbids allocation.  All but    *)
(* quit and show forget an error of the harness that was not read.  rh       *)
(* allocates two buffers from string_length, which asks for nearly all       *)
(* addresses below -1: it is rejected then.                                  *)
FirstPhase(c) ==
    CASE c.op = "new"              -> IF q # NULL THEN "free" ELSE "new"
      [] c.op = "free"             -> "free"
      [] c.op \in {"ih", "it"}     -> "insert"
      [] c.op \in {"rh", "rhq"}    -> "remove"
      [] c.op = "reverse"          -> "reverse"
      [] c.op = "size"             -> "size"
      [] c.op = "quit"             -> "quit"

(* What a command warns of or announces before its first call.               *)
Remarks(c) ==
    \/ c.op = "quit"
    \/ c.op = "new" /\ q # NULL
    \/ c.op # "new" /\ q = NULL
    \/ c.op \in {"rh", "rhq"} /\ head = NULL

(* A count that size cannot read is reported and taken for 1.                *)
Opening(c) ==
    {IF Remarks(c) THEN Say(reporter, 3) ELSE reporter}
    \cup (IF c.op = "size" /\ c.n = 1 THEN {Say(reporter, 1)} ELSE {})

StartCommand(c) ==
    /\ Running("console") /\ c.op # "show"
    /\ c.op = "rh" => string_length >= -1
    /\ fail_count < MaxFailCount
    /\ phase' = FirstPhase(c)
    /\ cmd' = c
    /\ ok' = TRUE
    /\ alarm' = TRUE
    /\ noallocate_mode' = (noallocate_mode \/ c.op = "reverse")
    /\ error_occurred' = (error_occurred /\ c.op = "quit")
    /\ reporter' \in Opening(c)
    /\ UNCHANGED <<vars, options, counts, insertion, walk, status>>

(* A wrong number of arguments, an unreadable count of an insertion or no    *)
(* memory for the buffers of rh: nothing is called.                          *)
RejectCommand ==
    /\ Running("console")
    /\ ok' = FALSE
    /\ reporter' = Say(reporter, 1)
    /\ UNCHANGED <<vars, options, harness, error_occurred, counts, phase, cmd, insertion, walk, status>>

(* "option length", "option malloc", "option fail" and "option verbose".     *)
(* An option that is set stays set when a later one of the same command      *)
(* cannot be.                                                                *)
SetOption ==
    /\ Running("console")
    /\ ok' \in BOOLEAN
    /\ LET Told(rep) == IF ok' THEN rep ELSE Say(rep, 1)
       IN \/ /\ string_length' \in Lengths
             /\ reporter' = Told(reporter)
             /\ UNCHANGED <<vars, fail_limit>>
          \/ /\ fail_limit' \in FailLimits
             /\ reporter' = Told(reporter)
             /\ UNCHANGED <<vars, string_length>>
          \/ /\ \E p \in FailProbabilities : SetFailProbability(p)
             /\ reporter' = Told(reporter)
             /\ UNCHANGED options
          \/ /\ \E level \in VerbLevels :
                   reporter' = Told(SetVerblevel(reporter, level))
             /\ UNCHANGED <<vars, options>>
    /\ UNCHANGED <<harness, error_occurred, counts, phase, cmd, insertion, walk, status>>

(* "log" with a file name.                                                   *)
SetLog ==
    /\ Running("console")
    /\ \E log \in LogFiles :
         /\ ok' = (log = "open")
         /\ reporter' = IF log = "open" THEN SetLogfile(reporter, log)
                                        ELSE Say(SetLogfile(reporter, log), 1)
    /\ UNCHANGED <<vars, options, harness, error_occurred, counts, phase, cmd, insertion,
                   walk, status>>

(* cancel_timeout is left out.                                               *)
FaultyReturn ==
    /\ phase' = "console" /\ cmd' = NoCommand
    /\ alarm' = alarm
    /\ r' = 0 /\ lasts' = NULL /\ e' = NULL /\ cnt' = 0

(* Back to the console, every local out of scope.                            *)
Return ==
    /\ phase' = "console" /\ cmd' = NoCommand
    /\ alarm' = FALSE
    /\ r' = 0 /\ lasts' = NULL /\ e' = NULL /\ cnt' = 0

(* show_queue(3), the last call of a command that has reported rep: it walks *)
(* the queue under an alarm of its own, unless there is nothing to show.     *)
ShowQueue(rep) ==
    /\ reporter' = Say(rep, 3)
    /\ IF ~Heard(rep, 3) \/ q' = NULL
         THEN Return
         ELSE /\ phase' = "show"
              /\ alarm' = TRUE
              /\ e' = head' /\ cnt' = 0
              /\ r' = 0 /\ lasts' = NULL /\ cmd' = cmd

StartShow ==
    /\ Running("console")
    /\ ok' = TRUE
    /\ reporter' = Say(reporter, 0)
    /\ IF q = NULL \/ ~Heard(reporter, 0)
         THEN UNCHANGED <<phase, cmd, alarm, walk>>
         ELSE /\ phase' = "show" /\ cmd' = Command("show", NULL, 0)
              /\ alarm' = TRUE
              /\ e' = head /\ cnt' = 0
    /\ UNCHANGED <<vars, options, noallocate_mode, error_occurred, counts, insertion, status>>

(* The loop also ends, and do_show fails, when it reads an error of the      *)
(* harness: one that an earlier command left unread, for no other command    *)
(* that gets as far as to show the queue has one.                            *)
MoreToShow ==
    e # NULL /\ cnt < qcnt /\ (cmd.op = "show" => ok)

ShowStep ==
    /\ Running("show") /\ MoreToShow
    /\ e' = next[e]
    /\ cnt' = cnt + 1
    /\ ok' = (ok /\ (cmd.op = "show" => ~error_occurred))
    /\ error_occurred' = FALSE
    /\ UNCHANGED <<vars, options, harness, reporter, counts, phase, cmd, insertion, status>>

(* Elements left after qcnt of them are reported as a cycle; only do_show    *)
(* returns that verdict.  What is displayed follows the opening bracket into *)
(* the log.                                                                  *)
ShowEnd ==
    /\ Running("show") /\ ~MoreToShow
    /\ ok' = IF cmd.op = "show" THEN ok /\ e = NULL ELSE ok
    /\ Return
    /\ UNCHANGED <<vars, options, noallocate_mode, reports, counts, status>>
-----------------------------------------------------------------------------
(* do_free, also called by do_new when there is an old queue, and queue_quit.*)
CallFree ==
    /\ Alive /\ phase \in {"free", "quit"}
    /\ QueueFree
    /\ phase' = IF phase = "free" THEN "freed" ELSE "quitting"
    /\ UNCHANGED <<options, harness, reports, counts, cmd, insertion, walk, ok, status>>

FreeLoop ==
    /\ Alive /\ phase \in {"freed", "quitting"}
    /\ FreeStep \/ FreeEnd
    /\ UNCHANGED tester

NothingAllocated == AllocationCheck(heap) = 0

(* qcnt is not reset.                                                        *)
FaultyDoFreeEnd ==
    /\ Running("freed") /\ pc = "idle"
    /\ ok' = (ok /\ NothingAllocated /\ ~error_occurred)
    /\ reporter' = Say(reporter, 3)
    /\ IF cmd.op = "new"
         THEN /\ phase' = "new" /\ alarm' = TRUE
              /\ UNCHANGED <<cmd, insertion, walk>>
         ELSE Return
    /\ UNCHANGED <<vars, options, noallocate_mode, error_occurred, counts, status>>

(* do_new relies on the alarm that do_free has already cancelled.            *)
UntimedDoFreeEnd ==
    /\ Running("freed") /\ pc = "idle"
    /\ qcnt' = 0
    /\ ok' = (ok /\ NothingAllocated /\ ~error_occurred)
    /\ reporter' = Say(reporter, 3)
    /\ IF cmd.op = "new"
         THEN /\ phase' = "new" /\ alarm' = FALSE
              /\ UNCHANGED <<cmd, insertion, walk>>
         ELSE Return
    /\ UNCHANGED <<vars, options, noallocate_mode, error_occurred, fail_count, status>>

DoFreeEnd ==
    /\ Running("freed") /\ pc = "idle"
    /\ qcnt' = 0
    /\ ok' = (ok /\ NothingAllocated /\ ~error_occurred)
    /\ reporter' = Say(reporter, 3)
    /\ IF cmd.op = "new"
         THEN /\ phase' = "new" /\ alarm' = TRUE
              /\ UNCHANGED <<cmd, insertion, walk>>
         ELSE Return
    /\ UNCHANGED <<vars, options, noallocate_mode, error_occurred, fail_count, status>>

QuitEnd ==
    /\ Running("quitting") /\ pc = "idle"
    /\ ok' = NothingAllocated
    /\ Return
    /\ status' = "exited"
    /\ UNCHANGED <<vars, options, noallocate_mode, reports, counts>>

(* A malloc that is allowed finds no memory: that of the header by new, or   *)
(* that of one of the two blocks of an insertion.                            *)
OutOfMemory ==
    /\ AllocationCanSucceed(heap)
    /\ \/ phase = "new" /\ MemoryRunsOut(Header)
       \/ /\ phase = "insert" /\ ok /\ r < cmd.n /\ q # NULL
          /\ MemoryRunsOut(Node) \/ MemoryRunsOut(Str)

(* Why there is no new queue: the harness made the allocation fail with a    *)
(* warning, or memory ran out and the fatal event was not heard.  The error  *)
(* is read unless do_new has failed before.                                  *)
CreationFailed ==
    \E full \in BOOLEAN :
        /\ IF full THEN OutOfMemory /\ ~IsFatal(reporter)
                   ELSE AllocationCanFail(heap)
        /\ ok' = (ok /\ ~full)
        /\ error_occurred' = (full /\ ~ok)
        /\ ShowQueue(IF full THEN reporter ELSE ReportEvent(reporter, "warning"))

DoNew ==
    /\ Running("new") /\ ~noallocate_mode
    /\ QueueNew
    /\ qcnt' = 0
    /\ IF ret'.ok THEN ShowQueue(reporter) /\ UNCHANGED <<ok, error_occurred>>
                  ELSE CreationFailed
    /\ UNCHANGED <<options, noallocate_mode, fail_count, status>>

(* A failed operation is counted as an element.                              *)
FaultyCountFailure ==
    /\ fail_count' = fail_count + 1
    /\ qcnt' = qcnt + 1

(* The failure of a queue operation is tolerated while fail_count stays      *)
(* below fail_limit.                                                         *)
CountFailure ==
    /\ fail_count' = fail_count + 1
    /\ qcnt' = qcnt

Tolerated == fail_count' < fail_limit

(* The tester looks for a string that two insertions of ih share.            *)
SharesString ==
    cmd.op = "ih" /\ r = 1 /\ lasts = value'[head']

(* Why the insertion failed: there is no queue, the harness made it fail     *)
(* with a warning, or memory ran out and the fatal event was not heard.  The *)
(* error is read only when the failure is tolerated.                         *)
InsertionFailed ==
    \E full \in BOOLEAN :
        /\ IF full THEN OutOfMemory /\ ~IsFatal(reporter)
                   ELSE q = NULL \/ AllocationCanFail(heap)
        /\ CountFailure
        /\ ok' = (Tolerated /\ ~full)
        /\ error_occurred' = (full /\ ~Tolerated)
        /\ LET told == IF q = NULL \/ full THEN reporter
                                           ELSE ReportEvent(reporter, "warning")
           IN  reporter' = Say(told, IF Tolerated THEN 2 ELSE 1)

InsertStep ==
    /\ Running("insert") /\ ok /\ r < cmd.n /\ ~noallocate_mode
    /\ \/ cmd.op = "ih" /\ QueueInsertHead(cmd.str)
       \/ cmd.op = "it" /\ QueueInsertTail(cmd.str)
    /\ r' = r + 1
    /\ IF ret'.ok
         THEN /\ qcnt' = qcnt + 1 /\ fail_count' = fail_count
              /\ ok' = ~SharesString
              /\ reporter' = IF ok' THEN reporter ELSE Say(reporter, 1)
              /\ lasts' = IF cmd.op = "ih" THEN value'[head'] ELSE lasts
              /\ UNCHANGED error_occurred
         ELSE /\ InsertionFailed
              /\ lasts' = lasts
    /\ UNCHANGED <<options, harness, phase, cmd, walk, status>>

InsertEnd ==
    /\ Running("insert") /\ ~(ok /\ r < cmd.n)
    /\ UNCHANGED <<vars, options, noallocate_mode, error_occurred, counts, ok, status>>
    /\ ShowQueue(reporter)

(* Only as many characters are compared as were removed.                     *)
FaultyMatches(removed, expected) ==
    expected = NULL \/ removed = Prefix(expected, Len(removed))

(* do_remove_head keeps string_length characters of what it removed and of   *)
(* what it expects; do_remove_head_quiet passes no buffer.                   *)
Matches(removed, expected) ==
    expected = NULL \/ removed = Prefix(expected, string_length)

(* With string_length -1 the buffer of rh has size 0, of which queue.c keeps *)
(* one for the terminator: strncpy is given the largest size_t.              *)
EndlessCopy == cmd.op = "rh" /\ string_length = -1 /\ head # NULL

(* A removal that failed is counted too.                                     *)
FaultyDoRemove ==
    /\ Running("remove") /\ ~noallocate_mode /\ ~EndlessCopy
    /\ QueueRemoveHead(IF cmd.op = "rh" THEN string_length + 1 ELSE 0)
    /\ qcnt' = qcnt - 1
    /\ fail_count' = IF ret'.ok THEN fail_count ELSE fail_count + 1
    /\ ok' = (ret'.ok \/ (cmd.str = NULL /\ Tolerated))
    /\ ShowQueue(Say(reporter, IF ok' THEN 2 ELSE 1))
    /\ UNCHANGED <<options, noallocate_mode, error_occurred, status>>

DoRemove ==
    /\ Running("remove") /\ ~noallocate_mode /\ ~EndlessCopy
    /\ QueueRemoveHead(IF cmd.op = "rh" THEN string_length + 1 ELSE 0)
    /\ IF ret'.ok
         THEN /\ qcnt' = qcnt - 1 /\ fail_count' = fail_count
              /\ ok' = \/ cmd.op = "rhq"
                       \/ ret'.out # <<>> /\ Matches(ret'.out, cmd.str)
         ELSE /\ CountFailure
              /\ ok' = (cmd.str = NULL /\ Tolerated)
    /\ ShowQueue(Say(reporter, IF ok' THEN 2 ELSE 1))
    /\ UNCHANGED <<options, noallocate_mode, error_occurred, status>>

(* The endless copy runs off the mapped memory.  The expected string has no  *)
(* room for its terminator either: it is written in front of its block,      *)
(* which a build with the address sanitizer stops at and others survive.     *)
Overrun ==
    /\ Running("remove")
    /\ \/ EndlessCopy
       \/ cmd.op = "rh" /\ string_length = -1 /\ cmd.str # NULL
    /\ status' = "crashed"
    /\ UNCHANGED <<vars, options, harness, reports, counts, phase, cmd, insertion, walk, ok>>

CallReverse ==
    /\ Running("reverse")
    /\ QueueReverse
    /\ phase' = "reversed"
    /\ UNCHANGED <<options, harness, reports, counts, cmd, insertion, walk, ok, status>>

ReverseLoop ==
    /\ Running("reversed")
    /\ ReverseStep \/ ReverseEnd
    /\ UNCHANGED tester

(* noallocate_mode stays on.                                                 *)
FaultyDoReverseEnd ==
    /\ Running("reversed") /\ pc = "idle"
    /\ UNCHANGED <<vars, options, noallocate_mode, error_occurred, counts, ok, status>>
    /\ ShowQueue(reporter)

DoReverseEnd ==
    /\ Running("reversed") /\ pc = "idle"
    /\ noallocate_mode' = FALSE
    /\ UNCHANGED <<vars, options, error_occurred, counts, ok, status>>
    /\ ShowQueue(reporter)

(* All the calls of do_size return the same; with no call at all, cnt is 0.  *)
DoSize ==
    /\ Running("size")
    /\ IF cmd.n > 0 THEN QueueSize /\ ok' = (qcnt = ret'.cnt)
                    ELSE ok' = (qcnt = 0) /\ UNCHANGED vars
    /\ ShowQueue(Say(reporter, IF ok' THEN 2 ELSE 1))
    /\ UNCHANGED <<options, noallocate_mode, error_occurred, counts, status>>
-----------------------------------------------------------------------------
(* SIGALRM has no handler: it kills the process.                             *)
Timeout ==
    /\ Alive /\ alarm
    /\ status' = "killed"
    /\ UNCHANGED <<vars, options, harness, reports, counts, phase, cmd, insertion, walk, ok>>

(* The complaint of size about its count prints an argument after the last:  *)
(* the address sanitizer stops there, other builds go on (StartCommand).     *)
PrintsNoArgument ==
    /\ Running("console")
    /\ status' = "crashed"
    /\ UNCHANGED <<vars, options, harness, reports, counts, phase, cmd, insertion, walk, ok>>

(* Memory gets scarce or stops being so, whatever the tester is doing.       *)
SystemMemory == Alive /\ MemoryChanges /\ UNCHANGED tester

(* malloc or free while they are forbidden.                                  *)
ForbiddenCall ==
    /\ noallocate_mode
    /\ \/ phase \in {"new", "insert", "remove"}
       \/ phase \in {"free", "quit", "freed", "quitting"} /\ q # NULL

(* A fatal event of the harness, heard at verbosity 0 and above.             *)
FatalAllocation ==
    /\ Alive /\ IsFatal(reporter)
    /\ ForbiddenCall \/ OutOfMemory
    /\ status' = "fatal"
    /\ reporter' = DefaultFatalFun(ReportEvent(reporter, "fatal"))
    /\ UNCHANGED <<vars, options, harness, error_occurred, counts, phase, cmd, insertion, walk, ok>>

(* The process has ended, or what it does is undefined.                      *)
Ended == ~Alive /\ UNCHANGED allvars

CommandStep ==
    \/ ShowStep \/ ShowEnd
    \/ CallFree \/ FreeLoop \/ DoFreeEnd \/ QuitEnd
    \/ DoNew
    \/ InsertStep \/ InsertEnd
    \/ DoRemove \/ Overrun
    \/ CallReverse \/ ReverseLoop \/ DoReverseEnd
    \/ DoSize

TesterNext ==
    \/ \E c \in Commands : StartCommand(c)
    \/ StartShow
    \/ RejectCommand
    \/ SetOption
    \/ SetLog
    \/ CommandStep
    \/ PrintsNoArgument
    \/ SystemMemory
    \/ Timeout
    \/ FatalAllocation
    \/ Ended

TesterSpec == TesterInit /\ [][TesterNext]_allvars

(* The process runs: a command that has begun keeps making steps, of which a *)
(* fatal allocation may be the last.                                         *)
FairTesterSpec == TesterSpec /\ WF_allvars(CommandStep \/ FatalAllocation)
-----------------------------------------------------------------------------
(* At the console the tester's own count is the size of the queue, so that   *)
(* do_size and show_queue can only complain about the code under test.       *)
CountAgrees == Running("console") => qcnt = size

(* Each timed or restricted call is undone before the next command: no alarm *)
(* is left armed to kill an unrelated command and no restriction is left on. *)
HarnessReleased ==
    Running("console") => ~alarm /\ ~noallocate_mode /\ pc = "idle"

(* queue.c never runs without an alarm: a loop that did not end, or a call   *)
(* that took too long, would always be killed.                               *)
TimedCalls ==
    [][UNCHANGED <<header, list, pc, nextEle, currNode, currEle>> \/ alarm]_allvars

(* A fatal end means that memory ran out: no command calls malloc or free    *)
(* while do_reverse forbids it.                                              *)
FatalOnlyWhenFull == status = "fatal" => OutOfMemory

(* Failures of the queue that the tester itself counts: as long as there are *)
(* fewer than fail_limit, a command that has begun fails only for a reason   *)
(* that lies outside the queue: a removal was expected to succeed on an      *)
(* empty or absent queue, the string at the head was not the expected one,   *)
(* rh was given no room by "option length 0", "size 0" compared the size     *)
(* with that of no call at all, or memory ran out below verbosity 0, for a   *)
(* header, a node or a string, which show may report instead of the          *)
(* insertion it happened to.  Every other check of the tester (leaks, sizes, *)
(* shared or missing strings, cycles) stays silent on this queue.c.  What    *)
(* the limit itself means is FailuresAreTolerated's.                         *)
ErrorsAreDeserved ==
    [][(ok /\ ~ok' /\ phase # "console"
          /\ (fail_count' # fail_count => fail_count' < fail_limit)) =>
          \/ cmd.op = "rh" /\ cmd.str # NULL /\ ~ret'.ok
          \/ cmd.op = "rh" /\ cmd.str # NULL /\ text[value[head]] # cmd.str
          \/ cmd.op = "rh" /\ string_length = 0
          \/ cmd.op = "size" /\ cmd.n =< 0 /\ size # 0
          \/ OutOfMemory /\ ~IsFatal(reporter)
          \/ cmd.op = "show" /\ error_occurred]_allvars

(* qtest.c, the option "fail": "Number of times allow queue operations to    *)
(* return false".  The first fail_limit failures of queue operations are     *)
(* allowed: none of them is an error, unless a value was expected or memory  *)
(* ran out.                                                                  *)
FailuresAreTolerated ==
    [][(ok /\ fail_count' = fail_count + 1 /\ fail_count' =< fail_limit) =>
          \/ ok'
          \/ cmd.op = "rh" /\ cmd.str # NULL
          \/ OutOfMemory /\ ~IsFatal(reporter)]_allvars

(* A removal whose expected value differs within the compared length from    *)
(* the string at the head never passes.                                      *)
MismatchIsReported ==
    [][(Running("remove") /\ cmd.op = "rh" /\ cmd.str # NULL
           /\ phase' # "remove" /\ size > 0
           /\ Prefix(text[value[head]], string_length) # Prefix(cmd.str, string_length))
          => ~ok']_allvars

(* A command comes back to the console unless the process ends.              *)
CommandsReturn ==
    (phase # "console") ~> (phase = "console" \/ ~Alive)

=============================================================================

---------------------------- MODULE TesterProofs ----------------------------
(* The tester of qtest.c calls the queue only as Queue allows, so that what  *)
(* is proved of the queue alone holds while the tester drives it; and what   *)
(* qtest.c promises of itself: its own count, the alarm, the restriction on  *)
(* allocation and its verdicts.                                              *)
EXTENDS QTest, QueueProofs

-----------------------------------------------------------------------------
(* What the calls of a command are given is what callers may give.           *)
ArgumentsOK ==
    /\ string_length \in Lengths
    /\ phase = "insert" => cmd.str \in Text
    /\ phase = "remove" /\ cmd.op = "rh" => string_length + 1 \in Nat

(* The steps of the console that begin a command or set an option.           *)
LEMMA ConsoleStepIsQueueStep ==
    ASSUME ArgumentsOK,
           \/ \E c \in Commands : StartCommand(c)
           \/ StartShow \/ RejectCommand \/ SetOption \/ SetLog
    PROVE  [Next]_vars /\ ArgumentsOK'
<1>1. ASSUME NEW c \in Commands, StartCommand(c)
      PROVE  UNCHANGED vars /\ ArgumentsOK'
  <2>1. phase' = FirstPhase(c) /\ cmd' = c /\ UNCHANGED <<vars, string_length>>
    BY <1>1 DEF StartCommand, options
  <2>2. c.op \in {"ih", "it"} => c.str \in Text
    BY DEF Commands, Command
  <2>3. c.op \in {"new", "free", "rhq", "reverse", "show", "quit", "ih", "it", "rh", "size"}
    BY DEF Commands, Command
  <2>4. c.op # "show"
    BY <1>1 DEF StartCommand
  <2>5. FirstPhase(c) = "insert" => c.op \in {"ih", "it"}
    BY <2>3, <2>4 DEF FirstPhase
  <2>6. string_length \in Int /\ (c.op = "rh" => string_length + 1 \in Nat)
    BY <1>1, QTestAssumption DEF StartCommand, ArgumentsOK
  <2> QED BY <2>1, <2>2, <2>5, <2>6 DEF ArgumentsOK
<1>2. CASE StartShow
  <2>1. phase = "console" /\ string_length' = string_length /\ UNCHANGED vars
        /\ phase' \in {phase, "show"}
    BY <1>2 DEF StartShow, options, Running
  <2> QED BY <2>1 DEF ArgumentsOK
<1>3. CASE RejectCommand
  BY <1>3 DEF RejectCommand, ArgumentsOK, options, Running
<1>4. CASE SetOption
  <2>1. ArgumentsOK'
    BY <1>4 DEF SetOption, ArgumentsOK, options, Running
  <2>2. [Next]_vars
    BY <1>4 DEF SetOption, Next
  <2> QED BY <2>1, <2>2
<1>5. CASE SetLog
  BY <1>5 DEF SetLog, ArgumentsOK, options, Running
<1> QED BY <1>1, <1>2, <1>3, <1>4, <1>5

(* Each step of a command is one step of one function of queue.c, or leaves  *)
(* the queue and the harness as they are.                                    *)
LEMMA CommandStepIsQueueStep ==
    ASSUME ArgumentsOK, CommandStep
    PROVE  [Next]_vars /\ ArgumentsOK'
<1> USE DEF ArgumentsOK, Running, options, ShowQueue, Return
<1>1. CASE ShowStep
  BY <1>1 DEF ShowStep
<1>2. CASE ShowEnd
  BY <1>2 DEF ShowEnd
<1>3. CASE CallFree
  BY <1>3 DEF CallFree, Next
<1>4. CASE FreeLoop
  BY <1>4 DEF FreeLoop, Next, tester
<1>5. CASE DoFreeEnd
  BY <1>5 DEF DoFreeEnd
<1>6. CASE QuitEnd
  BY <1>6 DEF QuitEnd
<1>7. CASE DoNew
  <2>1. Next
    BY <1>7 DEF DoNew, Next
  <2>2. phase' \in {"show", "console"}
    <3>1. CASE ret'.ok
      BY <1>7, <3>1 DEF DoNew
    <3>2. CASE ~ret'.ok
      BY <1>7, <3>2 DEF DoNew, CreationFailed
    <3> QED BY <3>1, <3>2
  <2>3. string_length' = string_length
    BY <1>7 DEF DoNew
  <2> QED BY <2>1, <2>2, <2>3
<1>8. CASE InsertStep
  BY <1>8 DEF InsertStep, Next
<1>9. CASE InsertEnd
  BY <1>9 DEF InsertEnd
<1>10. CASE DoRemove
  <2>1. (cmd.op = "rh" => string_length + 1 \in BufSizes) /\ 0 \in BufSizes
    <3>1. cmd.op = "rh" => string_length \in Int /\ string_length + 1 \in Nat
      BY <1>10, QTestAssumption DEF DoRemove
    <3>2. cmd.op = "rh" => string_length + 1 = 0 \/ string_length \in Nat
      BY <3>1
    <3> QED BY <3>2, QTestAssumption
  <2>2. Next
    BY <1>10, <2>1 DEF DoRemove, Next
  <2> QED BY <1>10, <2>2 DEF DoRemove
<1>11. CASE CallReverse
  BY <1>11 DEF CallReverse, Next
<1>12. CASE ReverseLoop
  BY <1>12 DEF ReverseLoop, Next, tester
<1>13. CASE DoReverseEnd
  BY <1>13 DEF DoReverseEnd
<1>14. CASE DoSize
  BY <1>14 DEF DoSize, Next
<1>15. CASE Overrun
  BY <1>15 DEF Overrun
<1> QED BY <1>1, <1>2, <1>3, <1>4, <1>5, <1>6, <1>7, <1>8, <1>9, <1>10, <1>11,
           <1>12, <1>13, <1>14, <1>15 DEF CommandStep

LEMMA TesterStepIsQueueStep ==
    ArgumentsOK /\ [TesterNext]_allvars => [Next]_vars /\ ArgumentsOK'
<1> SUFFICES ASSUME ArgumentsOK, [TesterNext]_allvars
             PROVE  [Next]_vars /\ ArgumentsOK'
  OBVIOUS
<1>1. CASE Timeout \/ FatalAllocation \/ PrintsNoArgument
  BY <1>1 DEF Timeout, FatalAllocation, PrintsNoArgument, ArgumentsOK, options
<1>2. CASE Ended \/ UNCHANGED allvars
  BY <1>2 DEF Ended, allvars, tester, ArgumentsOK, options
<1>3. CASE SystemMemory
  BY <1>3 DEF SystemMemory, Next, tester, ArgumentsOK, options
<1> QED BY <1>1, <1>2, <1>3, ConsoleStepIsQueueStep, CommandStepIsQueueStep DEF TesterNext

(* The whole tester is one of the callers that Queue allows: a behaviour of  *)
(* qtest.c, seen at the queue and the harness, is a behaviour of queue.c.    *)
THEOREM DrivesQueue == TesterSpec => Spec
<1>1. TesterInit => Init /\ ArgumentsOK
  BY DEF TesterInit, ArgumentsOK
<1>2. ArgumentsOK /\ [TesterNext]_allvars => [Next]_vars /\ ArgumentsOK'
  BY TesterStepIsQueueStep
<1> QED BY <1>1, <1>2, PTL DEF TesterSpec, Spec

(* Whatever commands the tester is given, at whatever step it is killed, the *)
(* list, its reversal, its release and the block count are as proved.        *)
THEOREM TesterKeepsQueue == TesterSpec => [](ListWellFormed /\ Balanced)
BY DrivesQueue, ListStaysWellFormed, NoLeak, PTL

(* Seen from the tester, the queue is the sequence of strings of queue.h:    *)
(* what a command is told is what that sequence says.                        *)
THEOREM TesterSeesSequence == TesterSpec => ImplementsSequence
BY DrivesQueue, Refines, PTL
-----------------------------------------------------------------------------
(* The inductive invariant, in named parts.                                  *)

(* The harness is held exactly while a command runs, and the loops of        *)
(* queue.c only in the phases that call them.                                *)
HarnessHeld ==
    /\ alarm <=> phase # "console"
    /\ noallocate_mode <=> phase \in {"reverse", "reversed"}
    /\ pc = "reverse" => phase = "reversed"
    /\ pc = "free" => phase \in {"freed", "quitting"}
    /\ phase \in {"freed", "quitting"} /\ pc = "idle" => q = NULL

(* The phases that read their command are those of that command.             *)
CommandFits ==
    /\ phase = "remove" => cmd.op = "rh" \/ (cmd.op = "rhq" /\ cmd.str = NULL)
    /\ phase = "size" => cmd.op = "size"

(* The count is only wrong between the release of a queue and its end.       *)
CountHeld == phase \in {"freed", "quitting"} \/ status = "exited" \/ qcnt = size

(* show_queue stands on the element after the cnt it has shown.              *)
ShowPlace ==
    /\ pc = "idle" /\ q # NULL
    /\ cnt \in 0 .. size
    /\ \E s \in [1 .. size -> Node] :
          WellFormed(s) /\ e = IF cnt = size THEN NULL ELSE s[cnt + 1]

(* lasts is the string at the head, if it was set at all.                    *)
Remembered ==
    lasts # NULL => /\ phase = "insert" /\ cmd.op = "ih"
                    /\ q # NULL /\ size # 0
                    /\ lasts = value[head]

(* do_free and do_new begin by forgetting an error of the harness.           *)
NothingUnread == phase \in {"free", "freed"} => ~error_occurred

TesterState ==
    /\ TesterTypeOK
    /\ ArgumentsOK
    /\ HarnessHeld
    /\ CommandFits
    /\ CountHeld
    /\ phase = "show" => ShowPlace
    /\ Remembered
    /\ NothingUnread
    /\ FatalOnlyWhenFull

TesterInv == Inv /\ TesterState

-----------------------------------------------------------------------------
(* What is reported leaves a reporter.                                       *)
LEMMA ReporterTypes ==
    ASSUME NEW rep \in Reporter
    PROVE  /\ \A level : Say(rep, level) \in Reporter
           /\ \A msg : ReportEvent(rep, msg) \in Reporter
           /\ DefaultFatalFun(rep) \in Reporter
           /\ \A level \in Int : SetVerblevel(rep, level) \in Reporter
           /\ \A log \in LogFile : SetLogfile(rep, log) \in Reporter
BY DEF Reporter, Say, ReportEvent, DefaultFatalFun, SetVerblevel, SetLogfile,
       Used, LogFile

(* The commands, by their fields.                                            *)
LEMMA CommandFields ==
    ASSUME NEW c \in Commands \cup {NoCommand}
    PROVE  /\ c.op \in {"none", "new", "free", "rhq", "reverse", "show", "quit",
                        "ih", "it", "rh", "size"}
           /\ c.op = "rhq" => c.str = NULL
           /\ c.n \in Int
           /\ c \in Commands => c.op # "none"
BY QTestAssumption DEF Commands, NoCommand, Command

(* Elements of a well-formed list have a node and a string.                  *)
LEMMA HeadOwnsString ==
    ASSUME Inv, pc = "idle", q # NULL, size # 0
    PROVE  /\ head \in Node /\ value[head] \in Str /\ value[head] \in heap.live
           /\ text[value[head]] \in Text
<1>1. PICK s \in [1 .. size -> Node] : WellFormed(s)
  BY DEF Inv, ListWellFormed
<1>2. size \in Nat /\ 1 \in 1 .. size
  BY DEF Inv, TypeOK
<1>3. head = s[1] /\ s[1] \in Node
  BY <1>1, <1>2 DEF WellFormed
<1>4. value[s[1]] \in Str /\ text[value[s[1]]] \in Text
  BY <1>1, <1>2 DEF WellFormed, Owns
<1>5. value[s[1]] \in heap.live
  BY <1>1, <1>2 DEF WellFormed, Blocks
<1> QED BY <1>3, <1>4, <1>5

(* Without a queue there is no element.                                      *)
LEMMA NoQueueNoElement ==
    ASSUME Inv, pc = "idle", q = NULL
    PROVE  size = 0 /\ head = NULL /\ NothingAllocated
BY DEF Inv, ListWellFormed, NoQueue, Balanced, NothingAllocated

(* A walk over a queue begins at its head.                                   *)
LEMMA WalkBegins ==
    ASSUME Inv', pc' = "idle", q' # NULL, cnt' = 0, e' = head'
    PROVE  ShowPlace'
<1>1. PICK s \in [1 .. size' -> Node] : WellFormed(s)'
  BY DEF Inv, ListWellFormed
<1>2. size' \in Nat /\ cnt' \in 0 .. size'
  BY DEF Inv, TypeOK
<1>3. e' = IF cnt' = size' THEN NULL ELSE s[cnt' + 1]
  BY <1>1, <1>2 DEF WellFormed
<1> QED BY <1>1, <1>2, <1>3 DEF ShowPlace

(* The end of every command: the tester is at the console, or walks.         *)
LEMMA ShowQueueState ==
    ASSUME Inv', pc' = "idle", TesterState,
           NEW rep \in Reporter, ShowQueue(rep)
    PROVE  /\ reporter' \in Reporter
           /\ phase' \in {"console", "show"}
           /\ alarm' <=> phase' # "console"
           /\ cmd' \in Commands \cup {NoCommand}
           /\ r' = 0 /\ lasts' = NULL
           /\ e' \in Node \cup {NULL} /\ cnt' = 0
           /\ phase' = "show" => ShowPlace'
<1>1. reporter' \in Reporter
  BY ReporterTypes DEF ShowQueue
<1>2. CASE Return
  BY <1>1, <1>2 DEF Return
<1>3. CASE /\ phase' = "show" /\ alarm' = TRUE /\ e' = head' /\ cnt' = 0
           /\ r' = 0 /\ lasts' = NULL /\ cmd' = cmd /\ q' # NULL
  <2>1. cmd' \in Commands \cup {NoCommand} /\ head' \in Node \cup {NULL}
    BY <1>3 DEF TesterState, TesterTypeOK, Inv, TypeOK
  <2>2. ShowPlace'
    BY <1>3, WalkBegins
  <2> QED BY <1>1, <1>3, <2>1, <2>2
<1> QED BY <1>2, <1>3 DEF ShowQueue

-----------------------------------------------------------------------------
(* The steps of the console.                                                 *)
LEMMA StartKeepsState ==
    ASSUME TesterInv, Inv', ArgumentsOK',
           NEW c \in Commands, StartCommand(c)
    PROVE  TesterState'
<1>1. /\ status = "running" /\ phase = "console" /\ c.op # "show"
      /\ phase' = FirstPhase(c) /\ cmd' = c /\ ok' = TRUE /\ alarm' = TRUE
      /\ noallocate_mode' = (noallocate_mode \/ c.op = "reverse")
      /\ error_occurred' = (error_occurred /\ c.op = "quit")
      /\ reporter' \in Opening(c)
      /\ UNCHANGED <<vars, options, counts, insertion, walk, status>>
  BY DEF StartCommand, Running, Alive
<1>2. UNCHANGED <<q, head, tail, size, next, value, text, heap, pc, qcnt, fail_count,
                  fail_limit, string_length, r, lasts, e, cnt>>
  BY <1>1 DEF vars, header, list, locals, options, counts, insertion, walk
<1>3. TypeOK' /\ reporter' \in Reporter
  <2>1. reporter \in Reporter /\ TypeOK'
    BY DEF Inv, TesterInv, TesterState, TesterTypeOK
  <2>2. reporter' \in {reporter, Say(reporter, 1), Say(reporter, 3)}
    BY <1>1 DEF Opening
  <2> QED BY <2>1, <2>2, ReporterTypes
<1>4. /\ c.op \in {"new", "free", "rhq", "reverse", "quit", "ih", "it", "rh", "size"}
      /\ c.op = "rhq" => c.str = NULL
  <2>1. c \in Commands \cup {NoCommand}
    OBVIOUS
  <2> QED BY <1>1, <2>1, CommandFields
<1>5. /\ phase' \in {"free", "new", "insert", "remove", "reverse", "size", "quit"}
      /\ phase' = "reverse" <=> c.op = "reverse"
      /\ phase' = "remove" => c.op = "rh" \/ c.op = "rhq"
      /\ phase' = "size" => c.op = "size"
      /\ phase' = "free" => c.op # "quit"
  BY <1>1, <1>4 DEF FirstPhase
<1>6. TesterTypeOK'
  BY <1>1, <1>2, <1>3, <1>5 DEF TesterInv, TesterState, TesterTypeOK, Phase
<1>7. HarnessHeld'
  BY <1>1, <1>2, <1>5 DEF TesterInv, TesterState, HarnessHeld
<1>8. CommandFits'
  BY <1>1, <1>4, <1>5 DEF CommandFits
<1>9. CountHeld' /\ Remembered' /\ NothingUnread' /\ FatalOnlyWhenFull'
  BY <1>1, <1>2, <1>5 DEF TesterInv, TesterState, CountHeld, Remembered, NothingUnread,
                          FatalOnlyWhenFull
<1> QED BY <1>5, <1>6, <1>7, <1>8, <1>9 DEF TesterState

(* What the other commands of the console leave alone.                       *)
LEMMA ConsoleKeepsState ==
    ASSUME TesterInv, Inv', ArgumentsOK',
           RejectCommand \/ SetOption \/ SetLog
    PROVE  TesterState'
<1>1. /\ Running("console") /\ ok' \in BOOLEAN
      /\ UNCHANGED <<harness, error_occurred, counts, phase, cmd, insertion, walk, status>>
  BY DEF RejectCommand, SetOption, SetLog
<1>2. UNCHANGED <<q, head, tail, size, value, pc>>
  BY DEF RejectCommand, SetOption, SetLog, SetFailProbability, vars, header, list, locals
<1>3. reporter' \in Reporter
  <2>1. LogFiles \subseteq LogFile /\ VerbLevels \subseteq Int
    BY QTestAssumption DEF LogFile
  <2>2. reporter \in Reporter
    BY DEF TesterInv, TesterState, TesterTypeOK
  <2>3. CASE RejectCommand
    BY <2>2, <2>3, ReporterTypes DEF RejectCommand
  <2>4. CASE SetOption
    <3>1. \E rep \in {reporter} \cup {SetVerblevel(reporter, level) : level \in VerbLevels} :
              reporter' = IF ok' THEN rep ELSE Say(rep, 1)
      BY <2>4 DEF SetOption
    <3>2. PICK rep \in {reporter} \cup {SetVerblevel(reporter, level) : level \in VerbLevels} :
              reporter' = IF ok' THEN rep ELSE Say(rep, 1)
      BY <3>1
    <3>3. rep \in Reporter
      BY <2>1, <2>2, <3>2, ReporterTypes
    <3> QED BY <3>2, <3>3, ReporterTypes
  <2>5. CASE SetLog
    <3>1. PICK log \in LogFiles :
              reporter' = IF log = "open" THEN SetLogfile(reporter, log)
                                          ELSE Say(SetLogfile(reporter, log), 1)
      BY <2>5 DEF SetLog
    <3>2. SetLogfile(reporter, log) \in Reporter
      BY <2>1, <2>2, ReporterTypes
    <3> QED BY <3>1, <3>2, ReporterTypes
  <2> QED BY <2>3, <2>4, <2>5
<1>4. fail_limit' \in Int /\ string_length' \in Int
  BY QTestAssumption
     DEF RejectCommand, SetOption, SetLog, options, TesterInv, TesterState, TesterTypeOK
<1>5. TesterTypeOK'
  BY <1>1, <1>3, <1>4 DEF TesterInv, TesterState, TesterTypeOK, Inv, harness, counts,
                          insertion, walk
<1>6. HarnessHeld' /\ CommandFits'
  BY <1>1, <1>2 DEF TesterInv, TesterState, HarnessHeld, CommandFits, harness
<1>7. /\ CountHeld' /\ Remembered' /\ NothingUnread' /\ FatalOnlyWhenFull'
      /\ phase' = "console"
  BY <1>1, <1>2 DEF TesterInv, TesterState, CountHeld, Remembered, NothingUnread,
                    FatalOnlyWhenFull, Running, Alive, counts, insertion
<1> QED BY <1>5, <1>6, <1>7 DEF TesterState

(* The display of the queue, one element after the other.                    *)
LEMMA ShowKeepsState ==
    ASSUME TesterInv, Inv', ArgumentsOK',
           StartShow \/ ShowStep \/ ShowEnd
    PROVE  TesterState'
<1>1. CASE StartShow
  <2>1. /\ Running("console") /\ ok' = TRUE /\ reporter' = Say(reporter, 0)
        /\ UNCHANGED <<vars, options, noallocate_mode, error_occurred, counts,
                       insertion, status>>
        /\ \/ UNCHANGED <<phase, cmd, alarm, walk>>
           \/ /\ phase' = "show" /\ cmd' = Command("show", NULL, 0)
              /\ alarm' = TRUE /\ q # NULL
              /\ e' = head /\ cnt' = 0
    BY <1>1 DEF StartShow
  <2>2. UNCHANGED <<q, head, tail, size, next, value, text, pc>>
    BY <2>1 DEF vars, header, list, locals
  <2>3. reporter' \in Reporter
    BY <2>1, ReporterTypes DEF TesterInv, TesterState, TesterTypeOK
  <2>4. pc = "idle"
    BY <2>1 DEF TesterInv, TesterState, HarnessHeld, Inv, TypeOK, Running
  <2>5. CASE UNCHANGED <<phase, cmd, alarm, walk>>
    BY <2>1, <2>2, <2>3, <2>5 DEF TesterInv, TesterState, TesterTypeOK, HarnessHeld,
       CommandFits, CountHeld, Remembered, NothingUnread, FatalOnlyWhenFull, Inv,
       options, counts, insertion, walk, Running, Alive
  <2>6. CASE /\ phase' = "show" /\ cmd' = Command("show", NULL, 0)
             /\ alarm' = TRUE /\ q # NULL
             /\ e' = head /\ cnt' = 0
    <3>1. ShowPlace'
      BY <2>2, <2>4, <2>6, WalkBegins
    <3>2. cmd' \in Commands
      BY <2>6 DEF Commands
    <3>3. head \in Node \cup {NULL}
      BY DEF TesterInv, Inv, TypeOK
    <3>4. TesterTypeOK'
      BY <2>1, <2>3, <2>6, <3>2, <3>3 DEF TesterInv, TesterState, TesterTypeOK, Inv,
         options, counts, insertion, Phase
    <3>5. HarnessHeld' /\ CommandFits'
      BY <2>1, <2>2, <2>4, <2>6 DEF TesterInv, TesterState, HarnessHeld, CommandFits,
         Running
    <3>6. CountHeld' /\ Remembered' /\ NothingUnread' /\ FatalOnlyWhenFull'
      BY <2>1, <2>2, <2>6 DEF TesterInv, TesterState, CountHeld, Remembered,
         NothingUnread, FatalOnlyWhenFull, Running, Alive, counts, insertion
    <3> QED BY <3>1, <3>4, <3>5, <3>6 DEF TesterState
  <2> QED BY <2>1, <2>5, <2>6
<1>2. CASE ShowStep
  <2>1. /\ Running("show") /\ e # NULL
        /\ e' = next[e] /\ cnt' = cnt + 1 /\ ok' \in BOOLEAN
        /\ error_occurred' = FALSE
        /\ UNCHANGED <<vars, options, harness, reporter, counts, phase, cmd,
                       insertion, status>>
    BY <1>2 DEF ShowStep, MoreToShow, TesterInv, TesterState, TesterTypeOK
  <2>2. UNCHANGED <<q, head, tail, size, next, value, text, heap, pc>>
    BY <2>1 DEF vars, header, list, locals
  <2>3. ShowPlace /\ size \in Nat
    BY <2>1 DEF TesterInv, TesterState, Inv, TypeOK, Running
  <2>4. PICK s \in [1 .. size -> Node] :
            WellFormed(s) /\ e = IF cnt = size THEN NULL ELSE s[cnt + 1]
    BY <2>3 DEF ShowPlace
  <2>5. cnt + 1 \in 1 .. size /\ e = s[cnt + 1]
    BY <2>1, <2>3, <2>4 DEF ShowPlace
  <2>6. next[e] = IF cnt + 1 = size THEN NULL ELSE s[cnt + 1 + 1]
    BY <2>3, <2>4, <2>5 DEF WellFormed, LinkedForward
  <2>7. WellFormed(s)'
    BY <2>2, <2>4 DEF WellFormed, Owns, LinkedForward, Blocks
  <2>8. ShowPlace'
    BY <2>1, <2>2, <2>3, <2>4, <2>5, <2>6, <2>7 DEF ShowPlace
  <2>9. e' \in Node \cup {NULL} /\ cnt' \in Nat
    BY <2>1, <2>3, <2>4, <2>5, <2>6
  <2>10. TesterTypeOK'
    BY <2>1, <2>9 DEF TesterInv, TesterState, TesterTypeOK, Inv, options, harness,
       counts, insertion
  <2>11. HarnessHeld' /\ CommandFits'
    BY <2>1, <2>2 DEF TesterInv, TesterState, HarnessHeld, CommandFits, harness
  <2>12. CountHeld' /\ Remembered' /\ NothingUnread' /\ FatalOnlyWhenFull'
    BY <2>1, <2>2 DEF TesterInv, TesterState, CountHeld, Remembered, NothingUnread,
       FatalOnlyWhenFull, Running, Alive, counts, insertion
  <2> QED BY <2>8, <2>10, <2>11, <2>12 DEF TesterState
<1>3. CASE ShowEnd
  <2>1. /\ Running("show") /\ ok' \in BOOLEAN
        /\ phase' = "console" /\ cmd' = NoCommand /\ alarm' = FALSE
        /\ r' = 0 /\ lasts' = NULL /\ e' = NULL /\ cnt' = 0
        /\ UNCHANGED <<vars, options, noallocate_mode, reports, counts, status>>
    BY <1>3 DEF ShowEnd, Return, TesterInv, TesterState, TesterTypeOK
  <2>2. UNCHANGED <<q, head, tail, size, next, value, text, pc>>
    BY <2>1 DEF vars, header, list, locals
  <2>3. TesterTypeOK'
    BY <2>1 DEF TesterInv, TesterState, TesterTypeOK, Inv, options, reports, counts,
       Phase
  <2>4. HarnessHeld' /\ CommandFits'
    BY <2>1, <2>2 DEF TesterInv, TesterState, HarnessHeld, CommandFits, Running
  <2>5. CountHeld' /\ Remembered' /\ NothingUnread' /\ FatalOnlyWhenFull'
    BY <2>1, <2>2 DEF TesterInv, TesterState, CountHeld, Remembered, NothingUnread,
       FatalOnlyWhenFull, Running, Alive, counts, reports
  <2> QED BY <2>1, <2>3, <2>4, <2>5 DEF TesterState
<1> QED BY <1>1, <1>2, <1>3

-----------------------------------------------------------------------------
(* The commands that release a queue: free, new and quit.                    *)
LEMMA ReleaseKeepsState ==
    ASSUME TesterInv, Inv', ArgumentsOK',
           CallFree \/ FreeLoop \/ DoFreeEnd \/ QuitEnd
    PROVE  TesterState'
<1>1. CASE CallFree
  <2>1. /\ status = "running" /\ phase \in {"free", "quit"}
        /\ phase' = IF phase = "free" THEN "freed" ELSE "quitting"
        /\ UNCHANGED <<options, harness, reports, counts, cmd, insertion, walk, ok, status>>
    BY <1>1 DEF CallFree, Alive
  <2>2. /\ pc = "idle" /\ q' = q /\ pc' \in {"idle", "free"}
        /\ pc' = "idle" => q' = NULL
        /\ UNCHANGED <<head, size, value>>
    BY <1>1 DEF CallFree, QueueFree, header, list
  <2>3. TesterTypeOK'
    BY <2>1 DEF TesterInv, TesterState, TesterTypeOK, Inv, options, harness, reports,
       counts, insertion, walk, Phase
  <2>4. HarnessHeld' /\ CommandFits'
    BY <2>1, <2>2 DEF TesterInv, TesterState, HarnessHeld, CommandFits, harness
  <2>5. CountHeld' /\ Remembered' /\ NothingUnread' /\ FatalOnlyWhenFull' /\ phase' # "show"
    BY <2>1, <2>2 DEF TesterInv, TesterState, CountHeld, Remembered, NothingUnread,
       FatalOnlyWhenFull, counts, insertion, reports
  <2> QED BY <2>3, <2>4, <2>5 DEF TesterState
<1>2. CASE FreeLoop
  <2>1. /\ status = "running" /\ phase \in {"freed", "quitting"}
        /\ UNCHANGED tester
    BY <1>2 DEF FreeLoop, Alive
  <2>2. pc' \in {"free", "idle"} /\ (pc' = "idle" => q' = NULL)
    BY <1>2 DEF FreeLoop, FreeStep, FreeEnd
  <2>3. UNCHANGED <<options, harness, reports, counts, phase, cmd, insertion, walk, ok, status>>
    BY <2>1 DEF tester
  <2>4. TesterTypeOK'
    BY <2>3 DEF TesterInv, TesterState, TesterTypeOK, Inv, options, harness, reports,
       counts, insertion, walk
  <2>5. HarnessHeld' /\ CommandFits'
    BY <2>1, <2>2, <2>3 DEF TesterInv, TesterState, HarnessHeld, CommandFits, harness
  <2>6. CountHeld' /\ Remembered' /\ NothingUnread' /\ FatalOnlyWhenFull' /\ phase' # "show"
    BY <2>1, <2>3 DEF TesterInv, TesterState, CountHeld, Remembered, NothingUnread,
       FatalOnlyWhenFull, insertion, reports
  <2> QED BY <2>4, <2>5, <2>6 DEF TesterState
<1>3. CASE DoFreeEnd
  <2>1. /\ status = "running" /\ phase = "freed" /\ pc = "idle" /\ q = NULL
        /\ qcnt' = 0 /\ ok' \in BOOLEAN /\ reporter' = Say(reporter, 3)
        /\ UNCHANGED <<vars, options, noallocate_mode, error_occurred, fail_count, status>>
        /\ \/ phase' = "new" /\ alarm' = TRUE /\ UNCHANGED <<cmd, insertion, walk>>
           \/ Return
    BY <1>3 DEF DoFreeEnd, Running, Alive, TesterInv, TesterState, TesterTypeOK, HarnessHeld
  <2>2. size = 0
    BY <2>1, NoQueueNoElement DEF TesterInv
  <2>3. UNCHANGED <<q, head, tail, size, next, value, text, pc>>
    BY <2>1 DEF vars, header, list, locals
  <2>4. reporter' \in Reporter
    BY <2>1, ReporterTypes DEF TesterInv, TesterState, TesterTypeOK
  <2>5. /\ phase' \in {"new", "console"} /\ (alarm' <=> phase' # "console")
        /\ cmd' \in {cmd, NoCommand} /\ r' \in {r, 0} /\ lasts' \in {lasts, NULL}
        /\ e' \in {e, NULL} /\ cnt' \in {cnt, 0}
    BY <2>1 DEF Return, insertion, walk
  <2>6. /\ cmd' \in Commands \cup {NoCommand} /\ r' \in Nat
        /\ lasts' \in Str \cup {NULL} /\ e' \in Node \cup {NULL} /\ cnt' \in Nat
        /\ alarm' \in BOOLEAN
    <3>1. /\ cmd \in Commands \cup {NoCommand} /\ r \in Nat
          /\ lasts \in Str \cup {NULL} /\ e \in Node \cup {NULL} /\ cnt \in Nat
      BY DEF TesterInv, TesterState, TesterTypeOK
    <3>2. alarm' \in BOOLEAN
      BY <2>1 DEF Return
    <3>3. NULL \in Str \cup {NULL} /\ 0 \in Nat
      OBVIOUS
    <3> QED BY <2>5, <3>1, <3>2, <3>3
  <2>9. TesterTypeOK'
    BY <2>1, <2>4, <2>5, <2>6 DEF TesterInv, TesterState, TesterTypeOK, Inv, options, Phase
  <2>7. HarnessHeld' /\ CommandFits'
    BY <2>1, <2>3, <2>5 DEF TesterInv, TesterState, HarnessHeld, CommandFits
  <2>8. CountHeld' /\ Remembered' /\ NothingUnread' /\ FatalOnlyWhenFull' /\ phase' # "show"
    BY <2>1, <2>2, <2>3, <2>5 DEF TesterInv, TesterState, CountHeld, Remembered,
       NothingUnread, FatalOnlyWhenFull
  <2> QED BY <2>7, <2>8, <2>9 DEF TesterState
<1>4. CASE QuitEnd
  <2>1. /\ phase = "quitting" /\ pc = "idle" /\ ok' \in BOOLEAN
        /\ phase' = "console" /\ cmd' = NoCommand /\ alarm' = FALSE
        /\ r' = 0 /\ lasts' = NULL /\ e' = NULL /\ cnt' = 0
        /\ status' = "exited"
        /\ UNCHANGED <<vars, options, noallocate_mode, reports, counts>>
    BY <1>4 DEF QuitEnd, Return, Running, NothingAllocated
  <2>2. pc' = pc
    BY <2>1 DEF vars, locals
  <2>3. TesterTypeOK'
    BY <2>1 DEF TesterInv, TesterState, TesterTypeOK, Inv, options, reports, counts, Phase
  <2>4. HarnessHeld' /\ CommandFits'
    BY <2>1, <2>2 DEF TesterInv, TesterState, HarnessHeld, CommandFits
  <2>5. CountHeld' /\ Remembered' /\ NothingUnread' /\ FatalOnlyWhenFull' /\ phase' # "show"
    BY <2>1 DEF CountHeld, Remembered, NothingUnread, FatalOnlyWhenFull
  <2> QED BY <2>3, <2>4, <2>5 DEF TesterState
<1> QED BY <1>1, <1>2, <1>3, <1>4

(* A command that ends with show_queue, once its own results are known.      *)
LEMMA EndKeepsState ==
    ASSUME TesterInv, Inv', ArgumentsOK', pc' = "idle", status = "running",
           NEW rep \in Reporter, ShowQueue(rep),
           qcnt' \in Nat, fail_count' \in Nat, qcnt' = size', ok' \in BOOLEAN,
           noallocate_mode' = FALSE, error_occurred' \in BOOLEAN,
           UNCHANGED <<options, status>>
    PROVE  TesterState'
<1>1. /\ reporter' \in Reporter
      /\ phase' \in {"console", "show"}
      /\ alarm' <=> phase' # "console"
      /\ alarm' \in BOOLEAN
      /\ cmd' \in Commands \cup {NoCommand}
      /\ r' = 0 /\ lasts' = NULL
      /\ e' \in Node \cup {NULL} /\ cnt' = 0
      /\ phase' = "show" => ShowPlace'
  <2>1. TesterState
    BY DEF TesterInv
  <2>2. alarm' \in BOOLEAN
    BY DEF ShowQueue, Return
  <2> QED BY <2>1, <2>2, ShowQueueState
<1>2. TesterTypeOK'
  BY <1>1 DEF TesterInv, TesterState, TesterTypeOK, Inv, options, Phase
<1>3. HarnessHeld' /\ CommandFits'
  BY <1>1 DEF HarnessHeld, CommandFits
<1>4. CountHeld' /\ Remembered' /\ NothingUnread' /\ FatalOnlyWhenFull'
  BY <1>1 DEF CountHeld, Remembered, NothingUnread, FatalOnlyWhenFull
<1> QED BY <1>1, <1>2, <1>3, <1>4 DEF TesterState

(* queue_new, after do_free if there was a queue.                            *)
LEMMA NewKeepsState ==
    ASSUME TesterInv, Inv', ArgumentsOK', DoNew
    PROVE  TesterState'
<1>1. /\ status = "running" /\ phase = "new" /\ ~noallocate_mode
      /\ QueueNew /\ qcnt' = 0
      /\ UNCHANGED <<options, noallocate_mode, fail_count, status>>
  BY DEF DoNew, Running, Alive
<1>2. pc' = "idle" /\ pc = "idle" /\ q = NULL /\ (size' = 0 \/ size' = size)
  BY <1>1 DEF QueueNew, locals, header
<1>3. size' = 0
  BY <1>2, NoQueueNoElement DEF TesterInv
<1>4. /\ fail_count \in Nat /\ ok \in BOOLEAN /\ error_occurred \in BOOLEAN
      /\ noallocate_mode' = FALSE /\ reporter \in Reporter
  BY <1>1 DEF TesterInv, TesterState, TesterTypeOK
<1>5. \E rep \in {reporter, ReportEvent(reporter, "warning")} : ShowQueue(rep)
  BY DEF DoNew, CreationFailed
<1>6. PICK rep \in {reporter, ReportEvent(reporter, "warning")} : ShowQueue(rep)
  BY <1>5
<1>7. rep \in Reporter
  BY <1>4, <1>6, ReporterTypes
<1>8. ok' \in BOOLEAN /\ error_occurred' \in BOOLEAN
  BY <1>4 DEF DoNew, CreationFailed
<1> QED BY <1>1, <1>2, <1>3, <1>4, <1>6, <1>7, <1>8, EndKeepsState

(* One insertion of ih or it.                                                *)
LEMMA InsertionKeepsState ==
    ASSUME TesterInv, Inv', ArgumentsOK', InsertStep
    PROVE  TesterState'
<1>1. /\ status = "running" /\ phase = "insert" /\ ~noallocate_mode
      /\ r' = r + 1
      /\ UNCHANGED <<options, harness, phase, cmd, walk, status>>
  BY DEF InsertStep, Running, Alive
<1>2. pc = "idle" /\ pc' = "idle"
  BY DEF InsertStep, QueueInsertHead, QueueInsertTail, locals
<1>3. \/ /\ ret' = Failed /\ UNCHANGED <<header, list>>
      \/ /\ ret' = Succeeded /\ size' = size + 1 /\ q # NULL /\ q' = q
  BY DEF InsertStep, QueueInsertHead, QueueInsertTail, InsertFails, NewElement
<1>4. /\ reporter \in Reporter /\ size \in Nat /\ qcnt \in Nat /\ qcnt = size
      /\ fail_count \in Nat /\ r \in Nat /\ lasts \in Str \cup {NULL}
      /\ error_occurred \in BOOLEAN /\ fail_limit \in Int
  BY <1>1 DEF TesterInv, TesterState, TesterTypeOK, Inv, TypeOK, CountHeld
<1>5. CASE ret' = Failed /\ UNCHANGED <<header, list>>
  <2>1. /\ InsertionFailed /\ lasts' = lasts
    BY <1>5 DEF InsertStep, Failed
  <2>2. /\ fail_count' = fail_count + 1 /\ qcnt' = qcnt
        /\ ok' \in BOOLEAN /\ error_occurred' \in BOOLEAN
    BY <2>1 DEF InsertionFailed, CountFailure, Tolerated
  <2>3. reporter' \in Reporter
    <3>1. PICK rep \in {reporter, ReportEvent(reporter, "warning")}, level \in {1, 2} :
              reporter' = Say(rep, level)
      BY <2>1 DEF InsertionFailed
    <3>2. rep \in Reporter
      BY <1>4, <3>1, ReporterTypes
    <3> QED BY <3>1, <3>2, ReporterTypes
  <2>4. UNCHANGED <<q, head, tail, size, value>>
    BY <1>5 DEF header, list
  <2>5. TesterTypeOK'
    BY <1>1, <1>4, <2>1, <2>2, <2>3 DEF TesterInv, TesterState, TesterTypeOK, Inv,
       options, harness, walk
  <2>6. HarnessHeld' /\ CommandFits'
    BY <1>1, <1>2 DEF TesterInv, TesterState, HarnessHeld, CommandFits, harness
  <2>7. CountHeld' /\ Remembered' /\ NothingUnread' /\ FatalOnlyWhenFull' /\ phase' # "show"
    BY <1>1, <1>4, <2>1, <2>2, <2>4 DEF TesterInv, TesterState, CountHeld, Remembered,
       NothingUnread, FatalOnlyWhenFull
  <2> QED BY <2>5, <2>6, <2>7 DEF TesterState
<1>6. CASE ret' = Succeeded /\ size' = size + 1 /\ q # NULL /\ q' = q
  <2>1. /\ qcnt' = qcnt + 1 /\ fail_count' = fail_count
        /\ ok' \in BOOLEAN
        /\ reporter' = IF ok' THEN reporter ELSE Say(reporter, 1)
        /\ lasts' = IF cmd.op = "ih" THEN value'[head'] ELSE lasts
        /\ UNCHANGED error_occurred
    BY <1>6 DEF InsertStep, Succeeded, SharesString
  <2>2. reporter' \in Reporter
    BY <1>4, <2>1, ReporterTypes
  <2>3. q' # NULL /\ size' # 0
    BY <1>4, <1>6
  <2>4. value'[head'] \in Str
    <3>1. PICK s \in [1 .. size' -> Node] : WellFormed(s)'
      BY <1>2, <2>3 DEF Inv, ListWellFormed
    <3>2. size' \in Nat /\ 1 \in 1 .. size'
      BY <2>3 DEF Inv, TypeOK
    <3> QED BY <2>3, <3>1, <3>2 DEF WellFormed, Owns
  <2>5. TesterTypeOK'
    BY <1>1, <1>4, <2>1, <2>2, <2>4 DEF TesterInv, TesterState, TesterTypeOK, Inv,
       options, harness, walk
  <2>6. HarnessHeld' /\ CommandFits'
    BY <1>1, <1>2 DEF TesterInv, TesterState, HarnessHeld, CommandFits, harness
  <2>7. CountHeld' /\ NothingUnread' /\ FatalOnlyWhenFull' /\ phase' # "show"
    BY <1>1, <1>4, <1>6, <2>1 DEF TesterInv, TesterState, CountHeld,
       NothingUnread, FatalOnlyWhenFull
  <2>8. Remembered'
    BY <1>1, <1>6, <2>1, <2>3 DEF TesterInv, TesterState, Remembered
  <2> QED BY <2>5, <2>6, <2>7, <2>8 DEF TesterState
<1> QED BY <1>3, <1>5, <1>6

(* The insertion loop is over.                                               *)
LEMMA InsertionEndKeepsState ==
    ASSUME TesterInv, Inv', ArgumentsOK', InsertEnd
    PROVE  TesterState'
<1>1. /\ status = "running" /\ phase = "insert"
      /\ UNCHANGED <<vars, options, noallocate_mode, error_occurred, counts, ok, status>>
      /\ ShowQueue(reporter)
  BY DEF InsertEnd, Running, Alive
<1>2. pc' = "idle" /\ size' = size
  BY <1>1 DEF TesterInv, TesterState, HarnessHeld, Inv, TypeOK, vars, header, locals
<1>3. /\ fail_count' \in Nat /\ qcnt' \in Nat /\ qcnt' = size'
      /\ ok' \in BOOLEAN /\ error_occurred' \in BOOLEAN
      /\ noallocate_mode' = FALSE /\ reporter \in Reporter
  BY <1>1, <1>2 DEF TesterInv, TesterState, TesterTypeOK, HarnessHeld, CountHeld, counts
<1> QED BY <1>1, <1>2, <1>3, EndKeepsState

(* A removal is counted when it succeeded.                                   *)
LEMMA RemovalKeepsState ==
    ASSUME TesterInv, Inv', ArgumentsOK', DoRemove
    PROVE  TesterState'
<1>1. /\ status = "running" /\ phase = "remove"
      /\ ShowQueue(Say(reporter, IF ok' THEN 2 ELSE 1))
      /\ ok' \in BOOLEAN
      /\ UNCHANGED <<options, noallocate_mode, error_occurred, status>>
  BY DEF DoRemove, Running, Alive, Matches, Tolerated
<1>2. pc = "idle" /\ pc' = "idle"
  BY DEF DoRemove, QueueRemoveHead, locals
<1>3. \/ /\ ret' = Failed /\ size' = size
      \/ /\ ret'.ok /\ size # 0 /\ size' = size - 1
  BY DEF DoRemove, QueueRemoveHead, RemoveFails, Unlink, Succeeded, Copied, header
<1>4. IF ret'.ok THEN qcnt' = qcnt - 1 /\ fail_count' = fail_count
                 ELSE qcnt' = qcnt /\ fail_count' = fail_count + 1
  BY DEF DoRemove, CountFailure
<1>5. /\ qcnt \in Nat /\ fail_count \in Nat /\ size \in Nat /\ qcnt = size
      /\ noallocate_mode' = FALSE /\ error_occurred' \in BOOLEAN
      /\ reporter \in Reporter
  BY <1>1 DEF TesterInv, TesterState, TesterTypeOK, Inv, TypeOK, HarnessHeld, CountHeld
<1>6. qcnt' = size' /\ qcnt' \in Nat /\ fail_count' \in Nat
  BY <1>3, <1>4, <1>5 DEF Failed
<1>7. Say(reporter, IF ok' THEN 2 ELSE 1) \in Reporter
  BY <1>5, ReporterTypes
<1> QED BY <1>1, <1>2, <1>5, <1>6, <1>7, EndKeepsState

(* queue_reverse, without allocation.                                        *)
LEMMA ReversalKeepsState ==
    ASSUME TesterInv, Inv', ArgumentsOK',
           CallReverse \/ ReverseLoop \/ DoReverseEnd
    PROVE  TesterState'
<1>1. CASE CallReverse
  <2>1. /\ status = "running" /\ phase = "reverse" /\ phase' = "reversed"
        /\ UNCHANGED <<options, harness, reports, counts, cmd, insertion, walk, ok, status>>
    BY <1>1 DEF CallReverse, Running, Alive
  <2>2. pc' \in {"idle", "reverse"} /\ UNCHANGED <<q, head, size, value>>
    BY <1>1 DEF CallReverse, QueueReverse, list
  <2>3. TesterTypeOK'
    BY <2>1 DEF TesterInv, TesterState, TesterTypeOK, Inv, options, harness, reports,
       counts, insertion, walk, Phase
  <2>4. HarnessHeld' /\ CommandFits'
    BY <2>1, <2>2 DEF TesterInv, TesterState, HarnessHeld, CommandFits, harness
  <2>5. CountHeld' /\ Remembered' /\ NothingUnread' /\ FatalOnlyWhenFull' /\ phase' # "show"
    BY <2>1, <2>2 DEF TesterInv, TesterState, CountHeld, Remembered, NothingUnread,
       FatalOnlyWhenFull, counts, insertion
  <2> QED BY <2>3, <2>4, <2>5 DEF TesterState
<1>2. CASE ReverseLoop
  <2>1. /\ status = "running" /\ phase = "reversed"
        /\ UNCHANGED tester
    BY <1>2 DEF ReverseLoop, Running, Alive
  <2>2. pc' \in {"idle", "reverse"} /\ size' = size
    BY <1>2 DEF ReverseLoop, ReverseStep, ReverseEnd, header
  <2>3. UNCHANGED <<options, harness, reports, counts, phase, cmd, insertion, walk, ok, status>>
    BY <2>1 DEF tester
  <2>4. TesterTypeOK'
    BY <2>3 DEF TesterInv, TesterState, TesterTypeOK, Inv, options, harness, reports,
       counts, insertion, walk
  <2>5. HarnessHeld' /\ CommandFits'
    BY <2>1, <2>2, <2>3 DEF TesterInv, TesterState, HarnessHeld, CommandFits, harness
  <2>6. CountHeld' /\ Remembered' /\ NothingUnread' /\ FatalOnlyWhenFull' /\ phase' # "show"
    BY <2>1, <2>2, <2>3 DEF TesterInv, TesterState, CountHeld, Remembered, NothingUnread,
       FatalOnlyWhenFull, insertion, counts
  <2> QED BY <2>4, <2>5, <2>6 DEF TesterState
<1>3. CASE DoReverseEnd
  <2>1. /\ status = "running" /\ phase = "reversed" /\ pc = "idle"
        /\ noallocate_mode' = FALSE
        /\ UNCHANGED <<vars, options, error_occurred, counts, ok, status>>
        /\ ShowQueue(reporter)
    BY <1>3 DEF DoReverseEnd, Running, Alive
  <2>2. pc' = "idle" /\ size' = size
    BY <2>1 DEF vars, header, locals
  <2>3. /\ fail_count' \in Nat /\ qcnt' \in Nat /\ qcnt' = size'
        /\ ok' \in BOOLEAN /\ error_occurred' \in BOOLEAN /\ reporter \in Reporter
    BY <2>1, <2>2 DEF TesterInv, TesterState, TesterTypeOK, CountHeld, counts
  <2> QED BY <2>1, <2>2, <2>3, EndKeepsState
<1> QED BY <1>1, <1>2, <1>3

(* queue_size, or no call at all.                                            *)
LEMMA SizeKeepsState ==
    ASSUME TesterInv, Inv', ArgumentsOK', DoSize
    PROVE  TesterState'
<1>1. /\ status = "running" /\ phase = "size"
      /\ ShowQueue(Say(reporter, IF ok' THEN 2 ELSE 1))
      /\ ok' \in BOOLEAN
      /\ UNCHANGED <<options, noallocate_mode, error_occurred, counts, status>>
  BY DEF DoSize, Running, Alive
<1>2. UNCHANGED <<header, locals>>
  BY DEF DoSize, QueueSize, vars
<1>3. pc' = "idle" /\ size' = size
  BY <1>1, <1>2 DEF TesterInv, TesterState, HarnessHeld, Inv, TypeOK, header, locals
<1>4. /\ fail_count' \in Nat /\ qcnt' \in Nat /\ qcnt' = size'
      /\ error_occurred' \in BOOLEAN /\ noallocate_mode' = FALSE
      /\ reporter \in Reporter
  BY <1>1, <1>3 DEF TesterInv, TesterState, TesterTypeOK, HarnessHeld, CountHeld, counts
<1>5. Say(reporter, IF ok' THEN 2 ELSE 1) \in Reporter
  BY <1>4, ReporterTypes
<1> QED BY <1>1, <1>3, <1>4, <1>5, EndKeepsState

(* The ways a process ends from outside, and what follows.                   *)
LEMMA EndingKeepsState ==
    ASSUME TesterInv, Inv', ArgumentsOK',
           \/ Timeout \/ FatalAllocation \/ Overrun \/ PrintsNoArgument
           \/ Ended \/ UNCHANGED allvars
    PROVE  TesterState'
<1>1. UNCHANGED <<vars, options, harness, error_occurred, counts, phase, cmd, insertion,
                  walk, ok>>
  BY DEF Timeout, FatalAllocation, Overrun, PrintsNoArgument, Ended, allvars, tester, reports
<1>2. UNCHANGED <<q, head, tail, size, next, value, text, heap, pc>>
  BY <1>1 DEF vars, header, list, locals
<1>3. reporter' \in Reporter /\ reporter \in Reporter
  <2>1. reporter \in Reporter
    BY DEF TesterInv, TesterState, TesterTypeOK
  <2>2. CASE FatalAllocation
    <3>1. ReportEvent(reporter, "fatal") \in Reporter
      BY <2>1, ReporterTypes
    <3> QED BY <2>1, <2>2, <3>1, ReporterTypes DEF FatalAllocation
  <2> QED BY <2>1, <2>2 DEF Timeout, Overrun, PrintsNoArgument, Ended, allvars, tester, reports
<1>4. status' \in {status, "killed", "fatal", "crashed"} /\ (status = "exited" => status' = "exited")
  BY DEF Timeout, FatalAllocation, Overrun, PrintsNoArgument, Ended, allvars, tester, Alive, Running
<1>5. TesterTypeOK'
  BY <1>1, <1>3, <1>4 DEF TesterInv, TesterState, TesterTypeOK, Inv, options, harness,
     counts, insertion, walk
<1>6. HarnessHeld' /\ CommandFits' /\ NothingUnread'
  BY <1>1, <1>2 DEF TesterInv, TesterState, HarnessHeld, CommandFits, NothingUnread,
     harness
<1>7. CountHeld' /\ Remembered'
  BY <1>1, <1>2, <1>4 DEF TesterInv, TesterState, CountHeld, Remembered, counts, insertion
<1>8. phase' = "show" => ShowPlace'
  BY <1>1, <1>2 DEF TesterInv, TesterState, ShowPlace, WellFormed, Owns, LinkedForward,
     Blocks, walk
<1>9. FatalOnlyWhenFull'
  <2>1. OutOfMemory => OutOfMemory'
    BY <1>1, <1>2 DEF OutOfMemory, MemoryRunsOut, Free, insertion
  <2>2. ~ForbiddenCall \/ ~FatalAllocation
    BY DEF TesterInv, TesterState, HarnessHeld, ForbiddenCall
  <2>3. CASE FatalAllocation
    BY <2>1, <2>2, <2>3 DEF FatalAllocation, FatalOnlyWhenFull
  <2>4. CASE ~FatalAllocation
    BY <2>1, <2>4 DEF Timeout, Overrun, PrintsNoArgument, Ended, allvars, tester, TesterInv, TesterState,
       FatalOnlyWhenFull
  <2> QED BY <2>3, <2>4
<1> QED BY <1>5, <1>6, <1>7, <1>8, <1>9 DEF TesterState

(* Memory gets scarce, or stops being so.                                    *)
LEMMA MemoryKeepsState ==
    ASSUME TesterInv, Inv', ArgumentsOK', SystemMemory
    PROVE  TesterState'
<1>1. /\ status = "running"
      /\ UNCHANGED <<tester, header, list, locals>>
  BY DEF SystemMemory, MemoryChanges, Alive
<1>2. UNCHANGED <<q, head, tail, size, next, value, text, pc>> /\ heap'.live = heap.live
  BY <1>1 DEF SystemMemory, MemoryChanges, header, list, locals, TesterInv, Inv, TypeOK,
     HeapOver
<1>3. UNCHANGED <<qcnt, fail_count, fail_limit, string_length, noallocate_mode, alarm,
                  error_occurred, reporter, phase, cmd, r, lasts, e, cnt, ok, status>>
  BY <1>1 DEF tester, options, harness, reports, counts, insertion, walk
<1>4. TesterTypeOK'
  BY <1>3 DEF TesterInv, TesterState, TesterTypeOK, Inv
<1>5. HarnessHeld' /\ CommandFits' /\ NothingUnread' /\ CountHeld' /\ Remembered'
  BY <1>2, <1>3 DEF TesterInv, TesterState, HarnessHeld, CommandFits, NothingUnread,
     CountHeld, Remembered
<1>6. phase' = "show" => ShowPlace'
  BY <1>2, <1>3 DEF TesterInv, TesterState, ShowPlace, WellFormed, Owns, LinkedForward,
     Blocks
<1>7. FatalOnlyWhenFull'
  BY <1>1, <1>3 DEF FatalOnlyWhenFull
<1> QED BY <1>4, <1>5, <1>6, <1>7 DEF TesterState

-----------------------------------------------------------------------------
LEMMA InitTester == TesterInit => TesterInv
<1> SUFFICES ASSUME TesterInit PROVE TesterInv
  OBVIOUS
<1>1. Init /\ Inv
  BY InitInv DEF TesterInit
<1>2. reporter \in Reporter
  BY QTestAssumption DEF TesterInit, Reporter, LogFile
<1>3. TesterTypeOK
  BY <1>1, <1>2, QTestAssumption DEF TesterInit, TesterTypeOK, Inv, Phase
<1> QED BY <1>1, <1>3 DEF TesterInit, Init, TesterInv, TesterState, ArgumentsOK,
           HarnessHeld, CommandFits, CountHeld, Remembered, NothingUnread, FatalOnlyWhenFull

LEMMA NextTester == TesterInv /\ [TesterNext]_allvars => TesterInv'
<1> SUFFICES ASSUME TesterInv, [TesterNext]_allvars PROVE TesterInv'
  OBVIOUS
<1>1. Inv' /\ ArgumentsOK'
  BY NextInv, TesterStepIsQueueStep DEF TesterInv, TesterState
<1>2. TesterState'
  <2>1. CASE \E c \in Commands : StartCommand(c)
    BY <1>1, <2>1, StartKeepsState
  <2>2. CASE StartShow \/ ShowStep \/ ShowEnd
    BY <1>1, <2>2, ShowKeepsState
  <2>3. CASE RejectCommand \/ SetOption \/ SetLog
    BY <1>1, <2>3, ConsoleKeepsState
  <2>4. CASE CallFree \/ FreeLoop \/ DoFreeEnd \/ QuitEnd
    BY <1>1, <2>4, ReleaseKeepsState
  <2>5. CASE DoNew
    BY <1>1, <2>5, NewKeepsState
  <2>6. CASE InsertStep
    BY <1>1, <2>6, InsertionKeepsState
  <2>7. CASE InsertEnd
    BY <1>1, <2>7, InsertionEndKeepsState
  <2>8. CASE DoRemove
    BY <1>1, <2>8, RemovalKeepsState
  <2>9. CASE CallReverse \/ ReverseLoop \/ DoReverseEnd
    BY <1>1, <2>9, ReversalKeepsState
  <2>10. CASE DoSize
    BY <1>1, <2>10, SizeKeepsState
  <2>11. CASE \/ Timeout \/ FatalAllocation \/ Overrun \/ PrintsNoArgument
              \/ Ended \/ UNCHANGED allvars
    BY <1>1, <2>11, EndingKeepsState
  <2>12. CASE SystemMemory
    BY <1>1, <2>12, MemoryKeepsState
  <2> QED BY <2>1, <2>2, <2>3, <2>4, <2>5, <2>6, <2>7, <2>8, <2>9, <2>10, <2>11,
             <2>12
          DEF TesterNext, CommandStep
<1> QED BY <1>1, <1>2 DEF TesterInv

THEOREM TesterInvariance == TesterSpec => []TesterInv
BY InitTester, NextTester, PTL DEF TesterSpec

(* Every variable of the tester keeps its type: show_queue in particular     *)
(* never stands on a released node.                                          *)
THEOREM TesterTypeCorrect == TesterSpec => []TesterTypeOK
<1>1. TesterInv => TesterTypeOK
  BY DEF TesterInv, TesterState
<1> QED BY <1>1, TesterInvariance, PTL

(* At the console the tester's count is the size of the queue, after every   *)
(* failure and every fatal end.                                              *)
THEOREM CountAlwaysAgrees == TesterSpec => []CountAgrees
<1>1. TesterInv => CountAgrees
  BY DEF TesterInv, TesterState, CountHeld, CountAgrees, Running, Alive
<1> QED BY <1>1, TesterInvariance, PTL

(* No command comes back to the console with the alarm armed, with           *)
(* allocation forbidden or inside a loop of queue.c.                         *)
THEOREM HarnessAlwaysReleased == TesterSpec => []HarnessReleased
<1>1. TesterInv => HarnessReleased
  BY DEF TesterInv, TesterState, HarnessHeld, HarnessReleased, Running, Inv, TypeOK
<1> QED BY <1>1, TesterInvariance, PTL

(* The restriction on allocation is never violated: what ends a session      *)
(* fatally is memory that ran out.                                           *)
THEOREM NoForbiddenCall == TesterSpec => []FatalOnlyWhenFull
<1>1. TesterInv => FatalOnlyWhenFull
  BY DEF TesterInv, TesterState
<1> QED BY <1>1, TesterInvariance, PTL

(* Nothing of queue.c runs without an armed alarm.                           *)
THEOREM AlwaysTimed == TesterSpec => TimedCalls
<1>1. TesterInv /\ [TesterNext]_allvars =>
        [UNCHANGED <<header, list, pc, nextEle, currNode, currEle>> \/ alarm]_allvars
  <2> SUFFICES ASSUME TesterInv, [TesterNext]_allvars, phase = "console"
               PROVE  UNCHANGED <<header, list, pc, nextEle, currNode, currEle>>
    BY DEF TesterInv, TesterState, HarnessHeld
  <2>1. CASE \E c \in Commands : StartCommand(c)
    BY <2>1 DEF StartCommand, vars, locals
  <2>2. CASE StartShow \/ RejectCommand \/ SetLog
    BY <2>2 DEF StartShow, RejectCommand, SetLog, vars, locals
  <2>3. CASE SetOption
    BY <2>3 DEF SetOption, SetFailProbability, vars, locals
  <2>4. CASE CommandStep
    BY <2>4 DEF CommandStep, ShowStep, ShowEnd, CallFree, FreeLoop, DoFreeEnd, QuitEnd,
       DoNew, InsertStep, InsertEnd, DoRemove, CallReverse, ReverseLoop, DoReverseEnd,
       DoSize, Overrun, Running
  <2>5. CASE Timeout \/ FatalAllocation \/ PrintsNoArgument \/ Ended \/ UNCHANGED allvars
    BY <2>5 DEF Timeout, FatalAllocation, PrintsNoArgument, Ended, allvars, vars, locals
  <2>6. CASE SystemMemory
    BY <2>6 DEF SystemMemory, MemoryChanges, locals
  <2> QED BY <2>1, <2>2, <2>3, <2>4, <2>5, <2>6 DEF TesterNext
<1> QED BY <1>1, TesterInvariance, PTL DEF TesterSpec, TimedCalls

-----------------------------------------------------------------------------
(* What is kept of a string that is not empty is not empty.                  *)
LEMMA PrefixNotEmpty ==
    ASSUME NEW x \in Text, NEW n \in Nat \ {0}
    PROVE  Prefix(x, n) # <<>>
<1>1. x \in Seq(Char) /\ Len(x) \in Nat /\ Len(x) # 0
  BY InputAssumption, NoEmptyString
<1> DEFINE l == IF n < Len(x) THEN n ELSE Len(x)
<1>2. l \in 1 .. Len(x)
  BY <1>1
<1>3. Len(SubSeq(x, 1, l)) = l
  BY <1>1, <1>2
<1> QED BY <1>2, <1>3 DEF Prefix

(* The two strings that the first insertions of ih report as shared are      *)
(* never the same block.                                                     *)
LEMMA NoStringShared ==
    ASSUME TesterInv, InsertStep, ret'.ok
    PROVE  ~SharesString
<1> SUFFICES ASSUME SharesString PROVE FALSE
  OBVIOUS
<1>1. cmd.op = "ih" /\ lasts = value'[head']
  BY DEF SharesString
<1>2. PICK n \in Free(Node), t \in Free(Str), x \in Text : NewElement(n, t, x) /\ InsertAtHead(n)
  <2>1. cmd.op # "it" /\ cmd.str \in Text
    BY <1>1 DEF InsertStep, Running, TesterInv, TesterState, ArgumentsOK
  <2> QED BY <2>1 DEF InsertStep, QueueInsertHead, InsertFails, Failed
<1>3. n \in Node /\ t \notin heap.live /\ t \in Str
  BY DEF Free
<1>4. value'[head'] = t
  BY <1>2, <1>3 DEF NewElement, InsertAtHead, TesterInv, Inv, TypeOK
<1>5. lasts # NULL
  BY <1>1, <1>3, <1>4, AddressAssumption DEF Block
<1>6. lasts = value[head] /\ q # NULL /\ size # 0
  BY <1>5 DEF TesterInv, TesterState, Remembered
<1>7. pc = "idle"
  BY DEF InsertStep, QueueInsertHead, QueueInsertTail
<1>8. value[head] \in heap.live
  BY <1>6, <1>7, HeadOwnsString DEF TesterInv
<1> QED BY <1>1, <1>3, <1>4, <1>6, <1>8

(* A removal that succeeds under a name that matches passes.                 *)
LEMMA RemovalVerdict ==
    ASSUME TesterInv, DoRemove, ~ok'
    PROVE  \/ fail_count' # fail_count /\ ~(fail_count' < fail_limit)
           \/ cmd.op = "rh" /\ cmd.str # NULL /\ ~ret'.ok
           \/ cmd.op = "rh" /\ cmd.str # NULL /\ text[value[head]] # cmd.str
           \/ cmd.op = "rh" /\ string_length = 0
<1>1. /\ phase = "remove" /\ pc = "idle" /\ fail_limit \in Int /\ fail_count \in Nat
      /\ string_length \in Int /\ (cmd.op = "rh" => string_length + 1 \in Nat)
      /\ cmd.op = "rh" \/ (cmd.op = "rhq" /\ cmd.str = NULL)
  BY DEF DoRemove, QueueRemoveHead, Running, TesterInv, TesterState, TesterTypeOK,
         CommandFits, ArgumentsOK
<1>2. CASE ~ret'.ok
  <2>1. fail_count' = fail_count + 1 /\ ~(cmd.str = NULL /\ Tolerated)
    BY <1>2 DEF DoRemove, CountFailure
  <2> QED BY <1>1, <1>2, <2>1 DEF Tolerated
<1>3. CASE ret'.ok
  <2> SUFFICES ASSUME string_length # 0, cmd.str = NULL \/ text[value[head]] = cmd.str
               PROVE  FALSE
    BY <1>1, <1>3 DEF DoRemove
  <2>1. cmd.op = "rh" /\ ~(ret'.out # <<>> /\ Matches(ret'.out, cmd.str))
    BY <1>1, <1>3 DEF DoRemove
  <2>7. q # NULL /\ size # 0
    BY <1>1, <1>3 DEF DoRemove, QueueRemoveHead, RemoveFails, Failed
  <2>8. head # NULL
    BY <1>1, <2>7, HeadOwnsString, AddressAssumption DEF TesterInv, Block
  <2>9. string_length \in Nat
    BY <1>1, <2>1, <2>8 DEF DoRemove, EndlessCopy
  <2>2. q # NULL /\ size # 0
        /\ ret' = Copied(Prefix(text[value[head]], (string_length + 1) - 1),
                         string_length + 1)
    BY <1>1, <1>3, <2>1, <2>9 DEF DoRemove, QueueRemoveHead, RemoveFails, Failed
  <2>3. text[value[head]] \in Text
    BY <1>1, <2>2, HeadOwnsString DEF TesterInv
  <2>4. (string_length + 1) - 1 = string_length
    BY <1>1
  <2>5. ret'.out = Prefix(text[value[head]], string_length)
    BY <2>2, <2>4 DEF Copied
  <2>6. ret'.out # <<>>
    BY <2>3, <2>5, <2>9, PrefixNotEmpty
  <2> QED BY <2>1, <2>5, <2>6 DEF Matches
<1> QED BY <1>2, <1>3

(* The verdicts of the tester on this queue.c, for every memory, any lengths *)
(* the console accepts, negative ones included, and every choice of          *)
(* failures: as long as fewer than fail_limit operations have failed, all    *)
(* but the listed ones are never given.                                      *)
THEOREM ErrorsAlwaysDeserved == TesterSpec => ErrorsAreDeserved
<1> DEFINE Deserved ==
          \/ cmd.op = "rh" /\ cmd.str # NULL /\ ~ret'.ok
          \/ cmd.op = "rh" /\ cmd.str # NULL /\ text[value[head]] # cmd.str
          \/ cmd.op = "rh" /\ string_length = 0
          \/ cmd.op = "size" /\ cmd.n =< 0 /\ size # 0
          \/ OutOfMemory /\ ~IsFatal(reporter)
          \/ cmd.op = "show" /\ error_occurred
<1>1. TesterInv /\ [TesterNext]_allvars =>
        [(ok /\ ~ok' /\ phase # "console"
            /\ (fail_count' # fail_count => fail_count' < fail_limit))
         => Deserved]_allvars
  <2> SUFFICES ASSUME TesterInv, TesterNext, ok, ~ok', phase # "console",
                      fail_count' # fail_count => fail_count' < fail_limit
               PROVE  Deserved
    BY DEF allvars, tester
  <2> HIDE DEF Deserved
  <2>1. CASE ShowStep
    BY <2>1 DEF ShowStep, Deserved
  <2>2. CASE ShowEnd
    <3>1. /\ cmd.op = "show" /\ e # NULL /\ ~(cnt < qcnt) /\ phase = "show"
          /\ status = "running"
      BY <2>2 DEF ShowEnd, MoreToShow, Running, Alive
    <3>2. qcnt = size /\ size \in Nat /\ ShowPlace
      BY <3>1 DEF TesterInv, TesterState, CountHeld, Inv, TypeOK
    <3>3. cnt = size /\ e = NULL
      BY <3>1, <3>2 DEF ShowPlace
    <3> QED BY <3>1, <3>3
  <2>3. CASE CallFree \/ FreeLoop \/ Overrun \/ InsertEnd \/ CallReverse \/ ReverseLoop
             \/ DoReverseEnd
    BY <2>3 DEF CallFree, FreeLoop, Overrun, InsertEnd, CallReverse, ReverseLoop,
       DoReverseEnd, tester
  <2>4. CASE DoFreeEnd \/ QuitEnd
    <3>1. pc = "idle" /\ phase \in {"freed", "quitting"}
      BY <2>4 DEF DoFreeEnd, QuitEnd, Running
    <3>2. q = NULL /\ (phase = "freed" => ~error_occurred)
      BY <3>1 DEF TesterInv, TesterState, HarnessHeld, NothingUnread
    <3>3. NothingAllocated
      BY <3>1, <3>2, NoQueueNoElement DEF TesterInv
    <3> QED BY <2>4, <3>2, <3>3 DEF DoFreeEnd, QuitEnd, Running
  <2>5. CASE InsertStep
    <3>1. CASE ret'.ok
      BY <2>5, <3>1, NoStringShared DEF InsertStep
    <3>2. CASE ~ret'.ok
      <4>1. InsertionFailed
        BY <2>5, <3>2 DEF InsertStep
      <4>2. \/ OutOfMemory /\ ~IsFatal(reporter)
            \/ fail_count' = fail_count + 1 /\ ~Tolerated
        BY <4>1 DEF InsertionFailed, CountFailure
      <4>3. fail_count \in Nat
        BY DEF TesterInv, TesterState, TesterTypeOK
      <4>4. ~(fail_count' = fail_count + 1 /\ ~Tolerated)
        BY <4>3 DEF Tolerated
      <4> QED BY <4>2, <4>4 DEF Deserved
    <3> QED BY <3>1, <3>2
  <2>6. CASE DoRemove
    BY <2>6, RemovalVerdict DEF Deserved
  <2>7. CASE DoSize
    <3>1. /\ phase = "size" /\ status = "running" /\ cmd.op = "size"
      BY <2>7 DEF DoSize, Running, Alive, TesterInv, TesterState, CommandFits
    <3>2. /\ qcnt = size /\ size \in Nat /\ pc = "idle"
      BY <3>1 DEF TesterInv, TesterState, CountHeld, HarnessHeld, Inv, TypeOK
    <3>3. cmd \in Commands \cup {NoCommand}
      BY DEF TesterInv, TesterState, TesterTypeOK
    <3>4. cmd.n \in Int
      BY <3>3, CommandFields
    <3>5. CASE cmd.n > 0
      <4>1. ret' = Counted(IF q = NULL \/ size = 0 THEN 0 ELSE size) /\ ok' = (qcnt = ret'.cnt)
        BY <2>7, <3>5 DEF DoSize, QueueSize
      <4>2. ret'.cnt = size
        BY <3>2, <4>1, NoQueueNoElement DEF TesterInv, Counted
      <4> QED BY <3>2, <4>1, <4>2
    <3>6. CASE ~(cmd.n > 0)
      <4>1. ok' = (qcnt = 0)
        BY <2>7, <3>6 DEF DoSize
      <4>2. size # 0
        BY <3>2, <4>1
      <4>3. cmd.n =< 0
        BY <3>4, <3>6
      <4> QED BY <3>1, <4>2, <4>3 DEF Deserved
    <3> QED BY <3>5, <3>6
  <2>8. CASE Timeout \/ FatalAllocation \/ PrintsNoArgument \/ SystemMemory \/ Ended
    BY <2>8 DEF Timeout, FatalAllocation, PrintsNoArgument, SystemMemory, Ended, allvars,
       tester
  <2>10. CASE DoNew
    BY <2>10 DEF DoNew, CreationFailed, Deserved
  <2>9. CASE \/ \E c \in Commands : StartCommand(c)
             \/ StartShow \/ RejectCommand \/ SetOption \/ SetLog
    BY <2>9 DEF StartCommand, StartShow, RejectCommand, SetOption, SetLog, Running
  <2> QED BY <2>1, <2>2, <2>3, <2>4, <2>5, <2>6, <2>7, <2>8, <2>9,
             <2>10
          DEF TesterNext, CommandStep
<1> QED BY <1>1, TesterInvariance, PTL DEF TesterSpec, ErrorsAreDeserved

(* A string removed under a name that differs from it within the compared    *)
(* length never passes.                                                      *)
THEOREM MismatchAlwaysReported == TesterSpec => MismatchIsReported
<1> DEFINE Mismatch ==
          /\ Running("remove") /\ cmd.op = "rh" /\ cmd.str # NULL
          /\ phase' # "remove" /\ size > 0
          /\ Prefix(text[value[head]], string_length) # Prefix(cmd.str, string_length)
<1>1. TesterInv /\ [TesterNext]_allvars => [Mismatch => ~ok']_allvars
  <2> SUFFICES ASSUME TesterInv, TesterNext, Mismatch PROVE ~ok'
    BY DEF allvars, tester
  <2>1. DoRemove
    BY DEF TesterNext, CommandStep, StartCommand, StartShow, RejectCommand, SetOption,
       SetLog, ShowStep, ShowEnd, CallFree, FreeLoop, DoFreeEnd, QuitEnd, DoNew,
       InsertStep, InsertEnd, CallReverse, ReverseLoop, DoReverseEnd, DoSize, Timeout,
       Overrun, PrintsNoArgument, SystemMemory, FatalAllocation, Ended, allvars, tester, Running, Alive
  <2>2. string_length \in Nat /\ size \in Nat /\ pc = "idle"
    <3>1. string_length \in Int /\ string_length + 1 \in Nat /\ size \in Nat /\ pc = "idle"
      BY <2>1 DEF DoRemove, QueueRemoveHead, TesterInv, TesterState, TesterTypeOK, Inv,
         TypeOK, ArgumentsOK, Running
    <3>2. q # NULL /\ head # NULL
      BY <3>1, NoQueueNoElement, HeadOwnsString, AddressAssumption DEF TesterInv, Block
    <3> QED BY <2>1, <3>1, <3>2 DEF DoRemove, EndlessCopy
  <2>3. CASE RemoveFails
    <3>1. ~ret'.ok
      BY <2>3 DEF RemoveFails, Failed
    <3> QED BY <2>1, <3>1 DEF DoRemove
  <2>4. CASE ret' = Copied(Prefix(text[value[head]], (string_length + 1) - 1),
                           string_length + 1)
    <3>1. ret'.ok /\ ret'.out = Prefix(text[value[head]], string_length)
      BY <2>2, <2>4 DEF Copied
    <3>2. ~Matches(ret'.out, cmd.str)
      BY <3>1 DEF Matches
    <3> QED BY <2>1, <3>1, <3>2 DEF DoRemove
  <2>5. string_length + 1 # 0
    BY <2>2
  <2> QED BY <2>1, <2>3, <2>4, <2>5 DEF DoRemove, QueueRemoveHead
<1> QED BY <1>1, TesterInvariance, PTL DEF TesterSpec, MismatchIsReported
=============================================================================

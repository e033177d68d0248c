------------------------------- MODULE Report -------------------------------
(* report.c: which messages are written, and what becomes of the log file.   *)
(* The state of the reporter is a record, as the heap of Harness is, because *)
(* a command reports several times within one action.  Of a message only its *)
(* level is kept.                                                            *)
EXTENDS Integers

(* "closed" is a pointer to a file that was closed, "misused" one that was   *)
(* used after that: what the program does from then on is undefined.         *)
LogFile == {"none", "open", "closed", "misused"}

Reporter == [verblevel : Int, logfile : LogFile]

Level(msg) == CASE msg = "warning" -> 2
                [] msg = "error"   -> 1
                [] msg = "fatal"   -> 0

Heard(rep, level) == level =< rep.verblevel

Used(log) == IF log = "closed" THEN "misused" ELSE log

(* report, report_noreturn and safe_report.                                  *)
Say(rep, level) ==
    IF Heard(rep, level) THEN [rep EXCEPT !.logfile = Used(@)] ELSE rep

(* report_event closes the log it has written to and keeps the pointer.      *)
ReportEvent(rep, msg) ==
    IF Heard(rep, Level(msg))
      THEN [rep EXCEPT !.logfile = IF @ = "open" THEN "closed" ELSE Used(@)]
      ELSE rep

(* A fatal event that is heard ends the program, after default_fatal_fun has *)
(* written to the log once more.                                             *)
IsFatal(rep) == Heard(rep, Level("fatal"))

DefaultFatalFun(rep) == [rep EXCEPT !.logfile = Used(@)]

SetVerblevel(rep, level) == [rep EXCEPT !.verblevel = level]

(* The log in use before is forgotten, also when the new one cannot be       *)
(* opened.                                                                   *)
SetLogfile(rep, log) == [rep EXCEPT !.logfile = log]
=============================================================================

---------------------------- MODULE Housekeeping ----------------------------
(***************************************************************************)
(* What goes on around the clock: the log file and the thread that frees   *)
(* disk space, which writes to the log. Sleeping threads count the seconds *)
(* that pass; what time it is they ask of a clock that can be set.         *)
(***************************************************************************)
EXTENDS Integers, Sequences

CONSTANTS
  Day, Month, Delay, MinWait, NoFile, NoDate, BadDate,
  Dirs,        \* directories there may be in the storage
  Start,       \* times of day at which the program is started
  MaxTime,     \* bound: the latest time
  MaxLines,    \* bound: lines written to the log
  Jumps        \* by how much the clock is set forward or back, at most once

ASSUME DayAssumption == Day \in Nat \ {0} /\ Month \in Nat \ {0}
ASSUME WaitAssumption == Delay \in Nat /\ MinWait \in 1 .. Day \div 2
ASSUME FileAssumption == NoFile \notin Nat
ASSUME BoundAssumption == Start \subseteq Nat /\ MaxTime \in Nat /\ MaxLines \in Nat /\ Jumps \subseteq Int

VARIABLES
  clock, adjusted, low, ended,
  day_, fd_, tmlast_, bytecache_, thrdCycle_, due, cached, files, lines, denied, age, setback,
  left, dirs, last

L == INSTANCE GLog
F == INSTANCE AutoFree

logvars  == <<day_, fd_, tmlast_, bytecache_, thrdCycle_, due, cached, files, lines, denied, age, setback>>
freevars == <<left, dirs, last>>

\* low: there is too little space; ended: the process has ended, and why.
vars == <<clock, adjusted, low, ended, logvars, freevars>>

Init ==
  /\ clock \in Start /\ adjusted = FALSE /\ low \in BOOLEAN /\ ended = "no"
  /\ L!Init /\ \E found \in SUBSET Dirs : F!Init(found)

\* Sleeping threads wake in time.
Second ==
  /\ clock < MaxTime
  /\ clock' = clock + 1
  /\ L!Second /\ F!Second
  /\ UNCHANGED <<adjusted, low, ended>>

SetClock ==
  /\ ~adjusted /\ adjusted' = TRUE
  /\ \E j \in Jumps : clock + j >= 0 /\ clock' = clock + j
  /\ L!ClockSet(clock')
  /\ UNCHANGED <<low, ended, freevars>>

\* Any thread has something to say.
Write ==
  /\ Len(lines) < MaxLines
  /\ L!Write
  /\ UNCHANGED <<clock, adjusted, low, ended, freevars>>

Cycle == L!Cycle /\ UNCHANGED <<clock, adjusted, low, ended, freevars>>

\* free_storage tells the log what it does; a check that finds enough space is silent.
\* Its lines, written within the same second, are modelled as one.
Check ==
  /\ F!Check(low)
  /\ IF low THEN Len(lines) < MaxLines /\ L!Write ELSE UNCHANGED logvars
  /\ UNCHANGED <<clock, adjusted, low, ended>>

CheckThrows ==
  /\ low /\ F!CheckThrows
  /\ ended' = "name"
  /\ UNCHANGED <<clock, adjusted, low, logvars>>

WriteCrashes ==
  /\ Len(lines) < MaxLines /\ L!WriteCrashes
  /\ ended' = "null"
  /\ UNCHANGED <<clock, adjusted, low, freevars>>

Exit ==
  /\ L!Exit
  /\ ended' = "exit"
  /\ UNCHANGED <<clock, adjusted, low, freevars>>

Next ==
  /\ ended = "no"
  /\ Second \/ SetClock \/ Write \/ Cycle \/ Check \/ CheckThrows \/ WriteCrashes \/ Exit

Spec == Init /\ [][Next]_vars

-----------------------------------------------------------------------------
(* Properties                                                              *)

\* Every line that found a file is in a file or about to be, once, whatever the clock
\* does and however often the file is changed.
NothingIsLost == L!NothingIsLost

\* Every line is in the file of its own date, however the clock is set, except after a
\* leap over whole months.
FiledUnderItsDay == L!FiledUnderItsDay

\* "When the date changes, the log file has to be created anew" (GLog.h:40).
NewDayNewFile == L!NewDayNewFile

\* The log is on disk two seconds after the last line, unless the clock was set back.
FlushedInTime == ended = "no" => L!FlushedInTime

\* As long as nobody sets the clock, the storage is looked at every noon, once.
EveryNoonOnce == [][~adjusted => F!EveryNoonOnce]_vars

\* "delete all data from before 4 days" (TransferAgent.cpp:103).
OldIsFreed == [][F!OldIsFreed(low)]_vars

=============================================================================

-------------------------------- MODULE GLog --------------------------------
(***************************************************************************)
(* The log file (GLog.cpp): one file a day, written through stdio's buffer *)
(* by any thread and flushed by a thread of its own when nothing has been  *)
(* written for more than a second. Everything happens under mtx_.          *)
(*                                                                         *)
(* The clock is the local time in seconds; days and months are shorter.    *)
(***************************************************************************)
EXTENDS Integers, Sequences

CONSTANTS
  Day,         \* seconds in a day
  Month,       \* days in a month
  NoFile       \* fd_ is NULL

VARIABLES
  clock,       \* the local time
  day_,        \* the day of the month of the last line
  fd_,         \* the file that is open: the day in its name
  tmlast_,     \* when the last line was written
  bytecache_,  \* there is something to flush
  thrdCycle_,  \* there is a flushing thread
  due,         \* its second is over
  cached,      \* lines in stdio's buffer of the open file
  files,       \* lines in the files, by the day in their name
  lines,       \* history: lines asked for, the number and the day of each
  denied,      \* history: numbers of those that found no file
  age,         \* history: seconds since the last line
  setback      \* history: the clock was set back since then

logvars == <<day_, fd_, tmlast_, bytecache_, thrdCycle_, due, cached, files, lines, denied, age, setback>>

Init ==
  /\ day_ = -1 /\ fd_ = NoFile /\ tmlast_ = 0 /\ bytecache_ = FALSE
  /\ thrdCycle_ = FALSE /\ due = FALSE
  /\ cached = <<>> /\ files = [d \in {} |-> <<>>]
  /\ lines = <<>> /\ denied = {} /\ age = 0 /\ setback = FALSE

Today == clock \div Day

InFile(d) == IF d \in DOMAIN files THEN files[d] ELSE <<>>

\* What the files hold once the buffer of the open one has been written out.
Flushed ==
  IF fd_ = NoFile THEN files
  ELSE [d \in DOMAIN files \cup {fd_} |-> InFile(d) \o (IF d = fd_ THEN cached ELSE <<>>)]

\* A possible slip: a file that is open is good.
StaysOpenAlways == fd_ # NoFile

\* valid_file: "day_ != date.day()" is a change of date, and closes the file.
StaysOpen == fd_ # NoFile /\ day_ = Today % Month

Line == [n |-> Len(lines) + 1, day |-> Today]

\* What every Write leaves behind.
Asked ==
  /\ day_' = Today % Month
  /\ lines' = Append(lines, Line)

Wrote == bytecache_' = TRUE /\ tmlast_' = clock /\ age' = 0 /\ setback' = FALSE

WriteOn ==
  /\ StaysOpen /\ Asked /\ Wrote
  /\ cached' = Append(cached, Line)
  /\ UNCHANGED <<fd_, thrdCycle_, due, files, denied>>

\* A possible slip: the old file is forgotten instead of closed.
WriteReopenLeak ==
  /\ ~StaysOpen /\ Asked /\ Wrote
  /\ fd_' = Today /\ cached' = <<Line>>
  /\ thrdCycle_' = TRUE
  /\ UNCHANGED <<due, files, denied>>

\* The old file is closed, a new one is opened for appending, and the flushing thread
\* is there from now on.
WriteReopen ==
  /\ ~StaysOpen /\ Asked /\ Wrote
  /\ files' = Flushed /\ fd_' = Today /\ cached' = <<Line>>
  /\ thrdCycle_' = TRUE
  /\ UNCHANGED <<due, denied>>

\* There is no directory to write to: the line is dropped.
WriteDenied ==
  /\ ~StaysOpen /\ Asked
  /\ files' = Flushed /\ fd_' = NoFile /\ cached' = <<>>
  /\ denied' = denied \cup {Line.n}
  /\ UNCHANGED <<tmlast_, bytecache_, thrdCycle_, due, age, setback>>

Write == WriteOn \/ WriteReopen \/ WriteDenied

\* fopen returns NULL, and fprintf is called with it.
WriteCrashes == ~StaysOpen /\ UNCHANGED logvars

\* A possible slip: the times are taken off the wrong way round.
CycleSwapped ==
  /\ due /\ due' = FALSE
  /\ IF bytecache_ /\ tmlast_ - clock > 1
     THEN files' = Flushed /\ cached' = <<>> /\ bytecache_' = FALSE
     ELSE UNCHANGED <<files, cached, bytecache_>>
  /\ UNCHANGED <<day_, fd_, tmlast_, thrdCycle_, lines, denied, age, setback>>

\* thread_cycle, once a second.
Cycle ==
  /\ due /\ due' = FALSE
  /\ IF bytecache_ /\ clock - tmlast_ > 1
     THEN files' = Flushed /\ cached' = <<>> /\ bytecache_' = FALSE
     ELSE UNCHANGED <<files, cached, bytecache_>>
  /\ UNCHANGED <<day_, fd_, tmlast_, thrdCycle_, lines, denied, age, setback>>

\* ~GLog: the thread ends, the file is closed.
Exit ==
  /\ thrdCycle_' = FALSE /\ due' = FALSE
  /\ files' = Flushed /\ cached' = <<>> /\ fd_' = NoFile
  /\ UNCHANGED <<day_, tmlast_, bytecache_, lines, denied, age, setback>>

\* A second has passed.
Second ==
  /\ ~due /\ due' = thrdCycle_
  /\ age' = age + 1
  /\ UNCHANGED <<day_, fd_, tmlast_, bytecache_, thrdCycle_, cached, files, lines, denied, setback>>

\* Somebody sets the clock.
ClockSet(time) ==
  /\ setback' = (setback \/ time < clock)
  /\ UNCHANGED <<day_, fd_, tmlast_, bytecache_, thrdCycle_, due, cached, files, lines, denied, age>>

-----------------------------------------------------------------------------
(* Properties                                                              *)

\* Every line that found a file is in the files or in the buffer, once.
NothingIsLost ==
  LET places == {p \in (DOMAIN files) \X (1 .. Len(lines)) : p[2] <= Len(files[p[1]])}
      at(p)  == files[p[1]][p[2]].n
      onDisk == {at(p) : p \in places}
      inside == {cached[i].n : i \in 1 .. Len(cached)}
  IN  /\ onDisk \cup inside = (1 .. Len(lines)) \ denied
      /\ onDisk \cap inside = {}
      /\ \A p, q \in places : at(p) = at(q) => p = q

\* Before line n, since the day of the month changed last, nothing was written for whole
\* months: the comparison of days takes the date for the same.
SameDayOfMonth(n) ==
  \E k \in 2 .. n :
    /\ lines[k].day # lines[k - 1].day
    /\ \A j \in k - 1 .. n : lines[j].day % Month = lines[n].day % Month

\* Every line is in the file of its own date, neither an older nor a newer one, however
\* the clock is set, except after a leap over whole months.
FiledUnderItsDay ==
  LET filed(d, s) == \A i \in 1 .. Len(s) : s[i].day = d \/ SameDayOfMonth(s[i].n)
  IN  /\ \A d \in DOMAIN files : filed(d, files[d])
      /\ fd_ # NoFile => filed(fd_, cached)

\* "When the date changes, the log file has to be created anew" (GLog.h:40).
NewDayNewFile ==
  fd_ # NoFile => \A i \in 1 .. Len(cached) : cached[i].day = fd_

\* Nothing stays in the buffer for more than two seconds of silence, unless the clock
\* was set back meanwhile.
FlushedInTime == cached # <<>> /\ ~setback => age <= 2

=============================================================================

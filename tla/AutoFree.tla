------------------------------ MODULE AutoFree ------------------------------
(***************************************************************************)
(* The thread that frees disk space (TransferAgent.cpp, thread_autofree):  *)
(* it looks at the storage a few seconds after the start and then every    *)
(* day at noon, and removes old directories when space runs out.           *)
(*                                                                         *)
(* A directory is a record: whether its name begins with G, and the date   *)
(* behind its last '_', NoDate if there is no '_', BadDate if what follows *)
(* is no date.                                                             *)
(***************************************************************************)
EXTENDS Integers

CONSTANTS
  Day,         \* seconds in a day
  Delay,       \* seconds until the first check: 5
  MinWait,     \* next_noon: a wait shorter than this is a day longer: 10
  NoDate, BadDate

VARIABLES
  clock,       \* the local time
  left,        \* seconds until the thread wakes
  dirs,        \* what is in the storage
  last         \* history: when the storage was looked at last, or never

freevars == <<left, dirs, last>>

Never == -1

Init(found) == left = Delay /\ dirs = found /\ last = Never

Noon == Day \div 2

\* A possible slip: always the noon of tomorrow.
NextNoonTomorrow == Noon - (clock % Day) + Day

\* next_noon
NextNoon ==
  LET secs == Noon - (clock % Day)
  IN  IF secs < MinWait THEN secs + Day ELSE secs

\* "int days4 = 4 * 86400", which is compared with a number of days.
days4 == 4 * 86400

\* Names free_storage does not look at any further.
Skipped(dir) == ~dir.g \/ dir.date = NoDate

\* stoi and the date throw, and nobody catches it.
Throws(dir) == ~Skipped(dir) /\ dir.date = BadDate

Old(dir) == ~Skipped(dir) /\ ~Throws(dir) /\ (clock \div Day) - dir.date > days4

\* Space is short, and every name can be read: free_storage, then back to sleep.
Check(low) ==
  /\ left = 0
  /\ low => ~\E dir \in dirs : Throws(dir)
  /\ dirs' = IF low THEN {dir \in dirs : ~Old(dir)} ELSE dirs
  /\ left' = NextNoon /\ last' = clock

\* A name cannot be read; those before it were.
CheckThrows ==
  /\ left = 0 /\ \E dir \in dirs : Throws(dir)
  /\ \E seen \in SUBSET {dir \in dirs : Old(dir)} : dirs' = dirs \ seen
  /\ UNCHANGED <<left, last>>

Second == left > 0 /\ left' = left - 1 /\ UNCHANGED <<dirs, last>>

-----------------------------------------------------------------------------
(* Properties                                                              *)

\* Between two checks there is not more than a day and the shortest wait, nor less than
\* the shortest wait, and every check but the first is at noon.
EveryNoonOnce ==
  last' # last /\ last # Never
    => clock % Day = Noon /\ clock - last \in MinWait .. Day + MinWait - 1

\* "delete all data from before 4 days" (TransferAgent.cpp:103): what is left after a
\* check that found too little space is no older.
OldIsFreed(low) ==
  low /\ last' # last
    => \A dir \in dirs' : Skipped(dir) \/ Throws(dir) \/ (clock \div Day) - dir.date <= 4

=============================================================================

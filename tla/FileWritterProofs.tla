-------------------------- MODULE FileWritterProofs --------------------------
(***************************************************************************)
(* What holds for every number of files, every limit and every failure:    *)
(* the data-process hears only of saved files, whatever the producers do;  *)
(* and, for any number of receivers, until two of them are in push_back at *)
(* once, no file is dropped and the storage does what FileStore says.      *)
(* WriterTwoReceivers.cfg shows what happens then.                         *)
(***************************************************************************)
EXTENDS FileWritter, SequenceTheorems, TLAPS

USE DEF producer, queue, monitor, output, link, ending

-----------------------------------------------------------------------------
(* The data-process                                                        *)

\* From fwrite on, the file save_first works on is on disk.
WrittenFirst == mpc \in {"register", "pop", "look_dp", "tell_dp"} => cur \in DOMAIN disk

LEMMA TellingKeeps ==
  ASSUME ToldIsSaved, WrittenFirst, [Next]_vars
  PROVE ToldIsSaved' /\ WrittenFirst'
<1>1. CASE \E p \in Producers : Producer(p)
  BY <1>1 DEF ToldIsSaved, WrittenFirst, Producer, NewFile, PushBegin, PushCommit,
       Notify
<1>2. CASE MonitorStart
  BY <1>2 DEF ToldIsSaved, WrittenFirst, MonitorStart
<1>3. CASE LoopEmpty
  BY <1>3 DEF ToldIsSaved, WrittenFirst, LoopEmpty
<1>4. CASE LoopFailed
  BY <1>4 DEF ToldIsSaved, WrittenFirst, LoopFailed
<1>5. CASE LoopSaved
  BY <1>5 DEF ToldIsSaved, WrittenFirst, LoopSaved
<1>6. CASE EnterWait
  BY <1>6 DEF ToldIsSaved, WrittenFirst, EnterWait
<1>7. CASE WakeFromSleep
  BY <1>7 DEF ToldIsSaved, WrittenFirst, WakeFromSleep
<1>8. CASE GiveUp
  BY <1>8 DEF ToldIsSaved, WrittenFirst, GiveUp
<1>9. CASE Interrupted
  BY <1>9 DEF ToldIsSaved, WrittenFirst, Interrupted
<1>10. CASE SaveFront
  BY <1>10 DEF ToldIsSaved, WrittenFirst, SaveFront, Throws
<1>11. CASE SaveDirectory
  BY <1>11 DEF ToldIsSaved, WrittenFirst, SaveDirectory
<1>12. CASE SaveDirectoryFails
  BY <1>12 DEF ToldIsSaved, WrittenFirst, SaveDirectoryFails, Failed
<1>13. CASE SaveDirectoryThrows
  BY <1>13 DEF ToldIsSaved, WrittenFirst, SaveDirectoryThrows, Throws
<1>14. CASE SaveOpenFails
  BY <1>14 DEF ToldIsSaved, WrittenFirst, SaveOpenFails, Failed
<1>15. CASE SaveWrite
  BY <1>15 DEF ToldIsSaved, WrittenFirst, SaveWrite
<1>16. CASE SaveRegister
  BY <1>16 DEF ToldIsSaved, WrittenFirst, SaveRegister
<1>17. CASE SaveRegisterThrows
  BY <1>17 DEF ToldIsSaved, WrittenFirst, SaveRegisterThrows, Throws
<1>18. CASE SavePop
  BY <1>18 DEF ToldIsSaved, WrittenFirst, SavePop
<1>19. CASE SaveLookDp
  BY <1>19 DEF ToldIsSaved, WrittenFirst, SaveLookDp
<1>20. CASE SaveTellDp
  BY <1>20 DEF ToldIsSaved, WrittenFirst, SaveTellDp, Throws
<1>21. CASE WakeSpuriously
  BY <1>21 DEF ToldIsSaved, WrittenFirst, WakeSpuriously
<1>22. CASE CoupleNetwork
  BY <1>22 DEF ToldIsSaved, WrittenFirst, CoupleNetwork
<1>23. CASE DecoupleNetowrk
  BY <1>23 DEF ToldIsSaved, WrittenFirst, DecoupleNetowrk
<1>24. CASE Destroy
  BY <1>24 DEF ToldIsSaved, WrittenFirst, Destroy
<1>25. CASE Join
  BY <1>25 DEF ToldIsSaved, WrittenFirst, Join
<1>26. CASE UNCHANGED vars
  BY <1>26 DEF ToldIsSaved, WrittenFirst, vars
<1>27. QED
  BY <1>1, <1>2, <1>3, <1>4, <1>5, <1>6, <1>7, <1>8, <1>9, <1>10, <1>11, <1>12,
       <1>13, <1>14, <1>15, <1>16, <1>17, <1>18, <1>19, <1>20, <1>21, <1>22, <1>23,
       <1>24, <1>25, <1>26 DEF Next, Monitor

\* The data-process is told, and the database is given, only files that have
\* been written (save_first), however many receivers race in NewFile.
THEOREM ToldFilesAreSaved == Spec => []ToldIsSaved
<1>1. Init => ToldIsSaved /\ WrittenFirst
  BY DEF Init, ToldIsSaved, WrittenFirst
<1>2. ToldIsSaved /\ WrittenFirst /\ [Next]_vars => ToldIsSaved' /\ WrittenFirst'
  BY TellingKeeps
<1>3. QED
  BY <1>1, <1>2, PTL DEF Spec

-----------------------------------------------------------------------------
(* The queue, until two producers are in push_back at once                 *)

\* quenf_ has an element in every cell, and push_back works on the next one.
CellsFilled ==
  \/ overlap
  \/ /\ DOMAIN cells = 1 .. last
     /\ \A p \in Producers : ppc[p] = "commit" => pslot[p] = last + 1

\* At most one producer is in push_back.
OnePush ==
  \/ overlap
  \/ \A p, q \in Producers : ppc[p] = "commit" /\ ppc[q] = "commit" => p = q

\* save_first works on the first element from front() to pop_front().
SavingHead ==
  \/ overlap
  \/ mpc \in {"directory", "open", "register", "pop"} => first < last /\ cells[first + 1] = cur

\* Nothing is cleared before the destructor does it.
NotYetCleared == lost # {} => mpc = "joined"

IInv ==
  /\ TypeOK /\ CellsFilled /\ OnePush /\ SavingHead /\ WrittenFirst /\ NotYetCleared
  /\ OnlyOverlapDrops

LEMMA NewFileKeeps ==
  ASSUME IInv, \E p \in Producers : \E f \in Files : NewFile(p, f)
  PROVE IInv'
<1>1. TypeOK'
  <2>1. PICK p \in Producers, f \in Files : NewFile(p, f)
    OBVIOUS
  <2>2. CASE running
    <3>1. ppc' = [ppc EXCEPT ![p] = "push"] /\ pfile' = [pfile EXCEPT ![p] = f]
      BY <2>1, <2>2 DEF NewFile
    <3>2. \A q \in Producers : ppc'[q] \in {"push", "commit"} => pfile'[q] \in Files
      BY <3>1 DEF IInv, TypeOK
    <3>3. QED
      BY <2>1, <2>2, <3>1, <3>2 DEF IInv, TypeOK, NewFile, MonitorPcs
  <2>3. CASE ~running
    BY <2>1, <2>3 DEF IInv, TypeOK, NewFile, MonitorPcs
  <2>4. QED
    BY <2>2, <2>3
<1>2. CellsFilled'
  BY DEF IInv, CellsFilled, TypeOK, NewFile
<1>2a. OnePush'
  BY DEF IInv, OnePush, TypeOK, NewFile
<1>3. SavingHead'
  BY DEF IInv, SavingHead, TypeOK, CellsFilled, NewFile
<1>4. WrittenFirst'
  BY DEF IInv, WrittenFirst, SavingHead, NewFile
<1>5. NotYetCleared'
  BY DEF IInv, NotYetCleared, NewFile
<1>6. OnlyOverlapDrops'
  BY DEF IInv, OnlyOverlapDrops, NothingDropped, TypeOK, CellsFilled, SavingHead, WrittenFirst,
       NewFile, Queued, Cell
<1>7. QED
  BY <1>1, <1>2, <1>2a, <1>3, <1>4, <1>5, <1>6 DEF IInv

LEMMA PushBeginKeeps ==
  ASSUME IInv, \E p \in Producers : PushBegin(p)
  PROVE IInv'
<1>0. PICK p \in Producers : PushBegin(p)
  OBVIOUS
<1>a. /\ ppc[p] = "push" /\ ppc' = [ppc EXCEPT ![p] = "commit"]
      /\ pslot' = [pslot EXCEPT ![p] = last + 1]
      /\ overlap' = (overlap \/ \E q \in Producers : ppc[q] = "commit")
      /\ UNCHANGED <<todo, pfile, accepted, queue, monitor, output, link, told, ending>>
  BY <1>0 DEF PushBegin
<1>b. \A q \in Producers : /\ ppc'[q] = IF q = p THEN "commit" ELSE ppc[q]
                           /\ pslot'[q] = IF q = p THEN last + 1 ELSE pslot[q]
  BY <1>a DEF IInv, TypeOK
<1>1. TypeOK'
  <2>1. overlap' \in BOOLEAN /\ (overlap => overlap')
    BY <1>a DEF IInv, TypeOK
  <2>2. ppc' \in [Producers -> {"idle", "push", "commit", "notify", "dead"}]
        /\ pslot' \in [Producers -> Nat]
    BY <1>a DEF IInv, TypeOK
  <2>3. \A q \in Producers : ppc'[q] \in {"push", "commit"} => pfile'[q] \in Files
    BY <1>a, <1>b DEF IInv, TypeOK
  <2>4. QED
    BY <1>a, <2>1, <2>2, <2>3 DEF IInv, TypeOK
<1>2. CellsFilled'
  BY <1>a, <1>b DEF IInv, CellsFilled
<1>2a. OnePush'
  <2> SUFFICES ASSUME ~overlap', NEW q \in Producers, NEW o \in Producers,
                      ppc'[q] = "commit", ppc'[o] = "commit"
               PROVE  q = o
    BY DEF OnePush
  <2>1. \A m \in Producers : ppc[m] # "commit"
    BY <1>a
  <2>2. q = p /\ o = p
    BY <1>b, <2>1
  <2>3. QED
    BY <2>2
<1>3. SavingHead'
  BY <1>a DEF IInv, SavingHead
<1>4. WrittenFirst'
  BY <1>a DEF IInv, WrittenFirst
<1>5. NotYetCleared'
  BY <1>a DEF IInv, NotYetCleared
<1>6. OnlyOverlapDrops'
  <2>1. CASE overlap'
    BY <2>1 DEF OnlyOverlapDrops
  <2>2. CASE ~overlap'
    <3>1. NothingDropped
      BY <1>a, <2>2 DEF IInv, OnlyOverlapDrops
    <3>2. \A f, q : pfile[q] = f /\ q \in Producers /\ ppc[q] \in {"push", "commit", "dead"}
             => pfile'[q] = f /\ ppc'[q] \in {"push", "commit", "dead"}
      BY <1>a, <1>b
    <3>3. NothingDropped'
      BY <1>a, <3>1, <3>2 DEF NothingDropped, Queued, Cell
    <3>4. QED
      BY <3>3 DEF OnlyOverlapDrops
  <2>3. QED
    BY <2>1, <2>2
<1>7. QED
  BY <1>1, <1>2, <1>2a, <1>3, <1>4, <1>5, <1>6 DEF IInv

LEMMA PushCommitKeeps ==
  ASSUME IInv, \E p \in Producers : PushCommit(p)
  PROVE IInv'
<1>0. PICK p \in Producers : PushCommit(p)
  OBVIOUS
<1>a. /\ ppc[p] = "commit" /\ ppc' = [ppc EXCEPT ![p] = "notify"]
      /\ cells' = [i \in DOMAIN cells \cup {pslot[p]} |-> IF i = pslot[p] THEN pfile[p] ELSE cells[i]]
      /\ last' \in {pslot[p], last + 1}
      /\ UNCHANGED <<todo, pfile, pslot, accepted, overlap, first, monitor, output, link, told, ending>>
  BY <1>0 DEF PushCommit
<1>b. \A q \in Producers : ppc'[q] = IF q = p THEN "notify" ELSE ppc[q]
  BY <1>a DEF IInv, TypeOK
<1>c. pfile[p] \in Files /\ pslot[p] \in Nat /\ first \in Nat /\ last \in Nat
      /\ (overlap \/ first <= last)
  BY <1>a DEF IInv, TypeOK
<1>d. ASSUME ~overlap
      PROVE  /\ last' = last + 1 /\ DOMAIN cells = 1 .. last /\ DOMAIN cells' = 1 .. last'
             /\ cells'[last + 1] = pfile[p] /\ \A i \in 1 .. last : cells'[i] = cells[i]
  <2>1. DOMAIN cells = 1 .. last /\ pslot[p] = last + 1
    BY <1>a, <1>d DEF IInv, CellsFilled
  <2>2. last' = last + 1
    BY <1>a, <2>1
  <2>3. 1 .. last' = 1 .. last \cup {last + 1} /\ last + 1 \notin 1 .. last
    BY <1>c, <2>2
  <2>4. QED
    BY <1>a, <2>1, <2>2, <2>3
<1>1. TypeOK'
  <2>1. DOMAIN cells' \subseteq Nat /\ \A i \in DOMAIN cells' : cells'[i] \in Files
    BY <1>a, <1>c DEF IInv, TypeOK
  <2>2. last' \in Nat /\ first' = first /\ (overlap' \/ first' <= last')
    BY <1>a, <1>c, <1>d
  <2>3. ppc' \in [Producers -> {"idle", "push", "commit", "notify", "dead"}]
    BY <1>a DEF IInv, TypeOK
  <2>4. \A q \in Producers : ppc'[q] \in {"push", "commit"} => pfile'[q] \in Files
    BY <1>a, <1>b DEF IInv, TypeOK
  <2>5. QED
    BY <1>a, <1>c, <2>1, <2>2, <2>3, <2>4 DEF IInv, TypeOK
<1>2. CellsFilled'
  <2> SUFFICES ASSUME ~overlap'
               PROVE  /\ DOMAIN cells' = 1 .. last'
                      /\ \A q \in Producers : ppc'[q] = "commit" => pslot'[q] = last' + 1
    BY DEF CellsFilled
  <2>1. ~overlap
    BY <1>a
  <2>2. \A q \in Producers : ppc'[q] # "commit"
    BY <1>a, <1>b, <2>1 DEF IInv, OnePush
  <2>3. QED
    BY <1>d, <2>1, <2>2
<1>2a. OnePush'
  BY <1>a, <1>b DEF IInv, OnePush
<1>3. SavingHead'
  <2> SUFFICES ASSUME ~overlap', mpc' \in {"directory", "open", "register", "pop"}
               PROVE  first' < last' /\ cells'[first' + 1] = cur'
    BY DEF SavingHead
  <2>1. ~overlap /\ mpc' = mpc /\ first' = first /\ cur' = cur
    BY <1>a
  <2>2. first < last /\ cells[first + 1] = cur
    BY <2>1 DEF IInv, SavingHead
  <2>3. first + 1 \in 1 .. last
    BY <1>c, <2>2
  <2>4. QED
    BY <1>c, <1>d, <2>1, <2>2, <2>3
<1>4. WrittenFirst'
  BY <1>a DEF IInv, WrittenFirst
<1>5. NotYetCleared'
  BY <1>a DEF IInv, NotYetCleared
<1>6. OnlyOverlapDrops'
  <2> SUFFICES ASSUME ~overlap', NEW f \in accepted'
               PROVE  \/ f \in Queued' \cup lost' \cup DOMAIN disk'
                      \/ \E q \in Producers : pfile'[q] = f /\ ppc'[q] \in {"push", "commit", "dead"}
    BY DEF OnlyOverlapDrops, NothingDropped
  <2>1. ~overlap /\ f \in accepted /\ f # NoFile
    BY <1>a, NoFileAssumption DEF IInv, TypeOK
  <2>2. \A i \in first' + 1 .. last' : Cell(i)' \in Queued' \cup {NoFile}
    BY DEF Queued
  <2>3. \A i \in first' + 1 .. last' : cells'[i] = Cell(i)'
    <3>1. \A i \in first + 1 .. last' : i \in 1 .. last'
      BY <1>c, <1>d, <2>1
    <3>2. QED
      BY <1>a, <1>d, <2>1, <3>1 DEF Cell
  <2>4. CASE f \in Queued
    <3>1. PICK i \in first + 1 .. last : f = Cell(i)
      BY <2>4 DEF Queued
    <3>2. i \in 1 .. last /\ i \in first' + 1 .. last'
      BY <1>a, <1>c, <1>d, <2>1, <3>1
    <3>3. f = cells'[i]
      BY <1>d, <2>1, <3>1, <3>2 DEF Cell
    <3>4. QED
      BY <2>1, <2>2, <2>3, <3>2, <3>3
  <2>5. CASE f \in lost \cup DOMAIN disk
    BY <1>a, <2>5
  <2>6. CASE f = pfile[p]
    <3>1. last + 1 \in first' + 1 .. last'
      BY <1>a, <1>c, <1>d, <2>1
    <3>2. f = cells'[last + 1]
      BY <1>d, <2>1, <2>6
    <3>3. QED
      BY <2>1, <2>2, <2>3, <3>1, <3>2
  <2>7. ASSUME NEW q \in Producers, q # p, pfile[q] = f, ppc[q] \in {"push", "commit", "dead"}
        PROVE  pfile'[q] = f /\ ppc'[q] \in {"push", "commit", "dead"}
    BY <1>a, <1>b, <2>7
  <2>8. QED
    BY <2>1, <2>4, <2>5, <2>6, <2>7 DEF IInv, OnlyOverlapDrops, NothingDropped
<1>7. QED
  BY <1>1, <1>2, <1>2a, <1>3, <1>4, <1>5, <1>6 DEF IInv

LEMMA NotifyKeeps == ASSUME IInv, \E p \in Producers : Notify(p) PROVE IInv'
<1>1. TypeOK'
  BY DEF IInv, TypeOK, CellsFilled, SavingHead, Notify, MonitorPcs,
       Queued, Cell
<1>2. CellsFilled'
  BY DEF IInv, CellsFilled, TypeOK, Notify
<1>2a. OnePush'
  BY DEF IInv, OnePush, TypeOK, Notify
<1>3. SavingHead'
  BY DEF IInv, SavingHead, TypeOK, CellsFilled, Notify
<1>4. WrittenFirst'
  BY DEF IInv, WrittenFirst, SavingHead, Notify
<1>5. NotYetCleared'
  BY DEF IInv, NotYetCleared, Notify
<1>6. OnlyOverlapDrops'
  BY DEF IInv, OnlyOverlapDrops, NothingDropped, TypeOK, CellsFilled, SavingHead, WrittenFirst,
       Notify, Queued, Cell
<1>7. QED
  BY <1>1, <1>2, <1>2a, <1>3, <1>4, <1>5, <1>6 DEF IInv

LEMMA MonitorStartKeeps == ASSUME IInv, MonitorStart PROVE IInv'
<1>1. TypeOK'
  BY DEF IInv, TypeOK, CellsFilled, SavingHead, MonitorStart, MonitorPcs, Queued,
       Cell
<1>2. CellsFilled'
  BY DEF IInv, CellsFilled, TypeOK, MonitorStart
<1>2a. OnePush'
  BY DEF IInv, OnePush, TypeOK, MonitorStart
<1>3. SavingHead'
  BY DEF IInv, SavingHead, TypeOK, CellsFilled, MonitorStart
<1>4. WrittenFirst'
  BY DEF IInv, WrittenFirst, SavingHead, MonitorStart
<1>5. NotYetCleared'
  BY DEF IInv, NotYetCleared, MonitorStart
<1>6. OnlyOverlapDrops'
  BY DEF IInv, OnlyOverlapDrops, NothingDropped, TypeOK, CellsFilled, SavingHead, WrittenFirst,
       MonitorStart, Queued, Cell
<1>7. QED
  BY <1>1, <1>2, <1>2a, <1>3, <1>4, <1>5, <1>6 DEF IInv

LEMMA LoopEmptyKeeps == ASSUME IInv, LoopEmpty PROVE IInv'
<1>1. TypeOK'
  BY DEF IInv, TypeOK, CellsFilled, SavingHead, LoopEmpty, size, MonitorPcs, Queued,
       Cell
<1>2. CellsFilled'
  BY DEF IInv, CellsFilled, TypeOK, LoopEmpty, size
<1>2a. OnePush'
  BY DEF IInv, OnePush, TypeOK, LoopEmpty
<1>3. SavingHead'
  BY DEF IInv, SavingHead, TypeOK, CellsFilled, LoopEmpty, size
<1>4. WrittenFirst'
  BY DEF IInv, WrittenFirst, SavingHead, LoopEmpty, size
<1>5. NotYetCleared'
  BY DEF IInv, NotYetCleared, LoopEmpty, size
<1>6. OnlyOverlapDrops'
  BY DEF IInv, OnlyOverlapDrops, NothingDropped, TypeOK, CellsFilled, SavingHead, WrittenFirst,
       LoopEmpty, size, Queued, Cell
<1>7. QED
  BY <1>1, <1>2, <1>2a, <1>3, <1>4, <1>5, <1>6 DEF IInv

LEMMA LoopFailedKeeps == ASSUME IInv, LoopFailed PROVE IInv'
<1>1. TypeOK'
  BY LimitAssumption DEF IInv, TypeOK, CellsFilled, SavingHead, LoopFailed, size,
       MonitorPcs, Queued, Cell
<1>2. CellsFilled'
  BY DEF IInv, CellsFilled, TypeOK, LoopFailed, size
<1>2a. OnePush'
  BY DEF IInv, OnePush, TypeOK, LoopFailed
<1>3. SavingHead'
  BY DEF IInv, SavingHead, TypeOK, CellsFilled, LoopFailed, size
<1>4. WrittenFirst'
  BY DEF IInv, WrittenFirst, SavingHead, LoopFailed, size
<1>5. NotYetCleared'
  BY DEF IInv, NotYetCleared, LoopFailed, size
<1>6. OnlyOverlapDrops'
  BY DEF IInv, OnlyOverlapDrops, NothingDropped, TypeOK, CellsFilled, SavingHead, WrittenFirst,
       LoopFailed, size, Queued, Cell
<1>7. QED
  BY <1>1, <1>2, <1>2a, <1>3, <1>4, <1>5, <1>6 DEF IInv

LEMMA LoopSavedKeeps == ASSUME IInv, LoopSaved PROVE IInv'
<1>1. TypeOK'
  BY LimitAssumption DEF IInv, TypeOK, CellsFilled, SavingHead, LoopSaved, size,
       MonitorPcs, Queued, Cell
<1>2. CellsFilled'
  BY DEF IInv, CellsFilled, TypeOK, LoopSaved, size
<1>2a. OnePush'
  BY DEF IInv, OnePush, TypeOK, LoopSaved
<1>3. SavingHead'
  BY DEF IInv, SavingHead, TypeOK, CellsFilled, LoopSaved, size
<1>4. WrittenFirst'
  BY DEF IInv, WrittenFirst, SavingHead, LoopSaved, size
<1>5. NotYetCleared'
  BY DEF IInv, NotYetCleared, LoopSaved, size
<1>6. OnlyOverlapDrops'
  BY DEF IInv, OnlyOverlapDrops, NothingDropped, TypeOK, CellsFilled, SavingHead, WrittenFirst,
       LoopSaved, size, Queued, Cell
<1>7. QED
  BY <1>1, <1>2, <1>2a, <1>3, <1>4, <1>5, <1>6 DEF IInv

LEMMA EnterWaitKeeps == ASSUME IInv, EnterWait PROVE IInv'
<1>1. TypeOK'
  BY DEF IInv, TypeOK, CellsFilled, SavingHead, EnterWait, MonitorPcs, Queued, Cell
<1>2. CellsFilled'
  BY DEF IInv, CellsFilled, TypeOK, EnterWait
<1>2a. OnePush'
  BY DEF IInv, OnePush, TypeOK, EnterWait
<1>3. SavingHead'
  BY DEF IInv, SavingHead, TypeOK, CellsFilled, EnterWait
<1>4. WrittenFirst'
  BY DEF IInv, WrittenFirst, SavingHead, EnterWait
<1>5. NotYetCleared'
  BY DEF IInv, NotYetCleared, EnterWait
<1>6. OnlyOverlapDrops'
  BY DEF IInv, OnlyOverlapDrops, NothingDropped, TypeOK, CellsFilled, SavingHead, WrittenFirst,
       EnterWait, Queued, Cell
<1>7. QED
  BY <1>1, <1>2, <1>2a, <1>3, <1>4, <1>5, <1>6 DEF IInv

LEMMA WakeFromSleepKeeps == ASSUME IInv, WakeFromSleep PROVE IInv'
<1>1. TypeOK'
  BY DEF IInv, TypeOK, CellsFilled, SavingHead, WakeFromSleep, MonitorPcs, Queued,
       Cell
<1>2. CellsFilled'
  BY DEF IInv, CellsFilled, TypeOK, WakeFromSleep
<1>2a. OnePush'
  BY DEF IInv, OnePush, TypeOK, WakeFromSleep
<1>3. SavingHead'
  BY DEF IInv, SavingHead, TypeOK, CellsFilled, WakeFromSleep
<1>4. WrittenFirst'
  BY DEF IInv, WrittenFirst, SavingHead, WakeFromSleep
<1>5. NotYetCleared'
  BY DEF IInv, NotYetCleared, WakeFromSleep
<1>6. OnlyOverlapDrops'
  BY DEF IInv, OnlyOverlapDrops, NothingDropped, TypeOK, CellsFilled, SavingHead, WrittenFirst,
       WakeFromSleep, Queued, Cell
<1>7. QED
  BY <1>1, <1>2, <1>2a, <1>3, <1>4, <1>5, <1>6 DEF IInv

LEMMA GiveUpKeeps == ASSUME IInv, GiveUp PROVE IInv'
<1>1. TypeOK'
  BY DEF IInv, TypeOK, CellsFilled, SavingHead, GiveUp, MonitorPcs, Queued, Cell
<1>2. CellsFilled'
  BY DEF IInv, CellsFilled, TypeOK, GiveUp
<1>2a. OnePush'
  BY DEF IInv, OnePush, TypeOK, GiveUp
<1>3. SavingHead'
  BY DEF IInv, SavingHead, TypeOK, CellsFilled, GiveUp
<1>4. WrittenFirst'
  BY DEF IInv, WrittenFirst, SavingHead, GiveUp
<1>5. NotYetCleared'
  BY DEF IInv, NotYetCleared, GiveUp
<1>6. OnlyOverlapDrops'
  BY DEF IInv, OnlyOverlapDrops, NothingDropped, TypeOK, CellsFilled, SavingHead, WrittenFirst,
       GiveUp, Queued, Cell
<1>7. QED
  BY <1>1, <1>2, <1>2a, <1>3, <1>4, <1>5, <1>6 DEF IInv

LEMMA InterruptedKeeps == ASSUME IInv, Interrupted PROVE IInv'
<1>1. TypeOK'
  BY DEF IInv, TypeOK, CellsFilled, SavingHead, Interrupted, MonitorPcs, Queued,
       Cell
<1>2. CellsFilled'
  BY DEF IInv, CellsFilled, TypeOK, Interrupted
<1>2a. OnePush'
  BY DEF IInv, OnePush, TypeOK, Interrupted
<1>3. SavingHead'
  BY DEF IInv, SavingHead, TypeOK, CellsFilled, Interrupted
<1>4. WrittenFirst'
  BY DEF IInv, WrittenFirst, SavingHead, Interrupted
<1>5. NotYetCleared'
  BY DEF IInv, NotYetCleared, Interrupted
<1>6. OnlyOverlapDrops'
  BY DEF IInv, OnlyOverlapDrops, NothingDropped, TypeOK, CellsFilled, SavingHead, WrittenFirst,
       Interrupted, Queued, Cell
<1>7. QED
  BY <1>1, <1>2, <1>2a, <1>3, <1>4, <1>5, <1>6 DEF IInv

LEMMA SaveFrontKeeps == ASSUME IInv, SaveFront PROVE IInv'
<1>1. TypeOK'
  BY DEF IInv, TypeOK, CellsFilled, SavingHead, SaveFront, Throws, size, MonitorPcs,
       Queued, Cell
<1>2. CellsFilled'
  BY DEF IInv, CellsFilled, TypeOK, SaveFront, Throws, size
<1>2a. OnePush'
  BY DEF IInv, OnePush, TypeOK, SaveFront, Throws
<1>3. SavingHead'
  BY DEF IInv, SavingHead, TypeOK, CellsFilled, SaveFront, Throws, size, Cell
<1>4. WrittenFirst'
  BY DEF IInv, WrittenFirst, SavingHead, SaveFront, Throws, size
<1>5. NotYetCleared'
  BY DEF IInv, NotYetCleared, SaveFront, Throws, size
<1>6. OnlyOverlapDrops'
  BY DEF IInv, OnlyOverlapDrops, NothingDropped, TypeOK, CellsFilled, SavingHead, WrittenFirst,
       SaveFront, Throws, size, Queued, Cell
<1>7. QED
  BY <1>1, <1>2, <1>2a, <1>3, <1>4, <1>5, <1>6 DEF IInv

LEMMA SaveDirectoryKeeps == ASSUME IInv, SaveDirectory PROVE IInv'
<1>1. TypeOK'
  BY DEF IInv, TypeOK, CellsFilled, SavingHead, SaveDirectory, MonitorPcs, Queued,
       Cell
<1>2. CellsFilled'
  BY DEF IInv, CellsFilled, TypeOK, SaveDirectory
<1>2a. OnePush'
  BY DEF IInv, OnePush, TypeOK, SaveDirectory
<1>3. SavingHead'
  BY DEF IInv, SavingHead, TypeOK, CellsFilled, SaveDirectory
<1>4. WrittenFirst'
  BY DEF IInv, WrittenFirst, SavingHead, SaveDirectory
<1>5. NotYetCleared'
  BY DEF IInv, NotYetCleared, SaveDirectory
<1>6. OnlyOverlapDrops'
  BY DEF IInv, OnlyOverlapDrops, NothingDropped, TypeOK, CellsFilled, SavingHead, WrittenFirst,
       SaveDirectory, Queued, Cell
<1>7. QED
  BY <1>1, <1>2, <1>2a, <1>3, <1>4, <1>5, <1>6 DEF IInv

LEMMA SaveDirectoryFailsKeeps == ASSUME IInv, SaveDirectoryFails PROVE IInv'
<1>1. TypeOK'
  BY DEF IInv, TypeOK, CellsFilled, SavingHead, SaveDirectoryFails, Failed,
       MonitorPcs, Queued, Cell
<1>2. CellsFilled'
  BY DEF IInv, CellsFilled, TypeOK, SaveDirectoryFails, Failed
<1>2a. OnePush'
  BY DEF IInv, OnePush, TypeOK, SaveDirectoryFails
<1>3. SavingHead'
  BY DEF IInv, SavingHead, TypeOK, CellsFilled, SaveDirectoryFails, Failed
<1>4. WrittenFirst'
  BY DEF IInv, WrittenFirst, SavingHead, SaveDirectoryFails, Failed
<1>5. NotYetCleared'
  BY DEF IInv, NotYetCleared, SaveDirectoryFails, Failed
<1>6. OnlyOverlapDrops'
  BY DEF IInv, OnlyOverlapDrops, NothingDropped, TypeOK, CellsFilled, SavingHead, WrittenFirst,
       SaveDirectoryFails, Failed, Queued, Cell
<1>7. QED
  BY <1>1, <1>2, <1>2a, <1>3, <1>4, <1>5, <1>6 DEF IInv

LEMMA SaveDirectoryThrowsKeeps == ASSUME IInv, SaveDirectoryThrows PROVE IInv'
<1>1. TypeOK'
  BY DEF IInv, TypeOK, CellsFilled, SavingHead, SaveDirectoryThrows, Throws,
       MonitorPcs, Queued, Cell
<1>2. CellsFilled'
  BY DEF IInv, CellsFilled, TypeOK, SaveDirectoryThrows, Throws
<1>2a. OnePush'
  BY DEF IInv, OnePush, TypeOK, SaveDirectoryThrows, Throws
<1>3. SavingHead'
  BY DEF IInv, SavingHead, TypeOK, CellsFilled, SaveDirectoryThrows, Throws
<1>4. WrittenFirst'
  BY DEF IInv, WrittenFirst, SavingHead, SaveDirectoryThrows, Throws
<1>5. NotYetCleared'
  BY DEF IInv, NotYetCleared, SaveDirectoryThrows, Throws
<1>6. OnlyOverlapDrops'
  BY DEF IInv, OnlyOverlapDrops, NothingDropped, TypeOK, CellsFilled, SavingHead, WrittenFirst,
       SaveDirectoryThrows, Throws, Queued, Cell
<1>7. QED
  BY <1>1, <1>2, <1>2a, <1>3, <1>4, <1>5, <1>6 DEF IInv

LEMMA SaveOpenFailsKeeps == ASSUME IInv, SaveOpenFails PROVE IInv'
<1>1. TypeOK'
  BY DEF IInv, TypeOK, CellsFilled, SavingHead, SaveOpenFails, Failed, MonitorPcs,
       Queued, Cell
<1>2. CellsFilled'
  BY DEF IInv, CellsFilled, TypeOK, SaveOpenFails, Failed
<1>2a. OnePush'
  BY DEF IInv, OnePush, TypeOK, SaveOpenFails
<1>3. SavingHead'
  BY DEF IInv, SavingHead, TypeOK, CellsFilled, SaveOpenFails, Failed
<1>4. WrittenFirst'
  BY DEF IInv, WrittenFirst, SavingHead, SaveOpenFails, Failed
<1>5. NotYetCleared'
  BY DEF IInv, NotYetCleared, SaveOpenFails, Failed
<1>6. OnlyOverlapDrops'
  BY DEF IInv, OnlyOverlapDrops, NothingDropped, TypeOK, CellsFilled, SavingHead, WrittenFirst,
       SaveOpenFails, Failed, Queued, Cell
<1>7. QED
  BY <1>1, <1>2, <1>2a, <1>3, <1>4, <1>5, <1>6 DEF IInv

LEMMA SaveWriteKeeps == ASSUME IInv, SaveWrite PROVE IInv'
<1>1. TypeOK'
  BY DEF IInv, TypeOK, CellsFilled, SavingHead, SaveWrite, MonitorPcs, Queued, Cell
<1>2. CellsFilled'
  BY DEF IInv, CellsFilled, TypeOK, SaveWrite
<1>2a. OnePush'
  BY DEF IInv, OnePush, TypeOK, SaveWrite
<1>3. SavingHead'
  BY DEF IInv, SavingHead, TypeOK, CellsFilled, SaveWrite
<1>4. WrittenFirst'
  BY DEF IInv, WrittenFirst, SavingHead, SaveWrite
<1>5. NotYetCleared'
  BY DEF IInv, NotYetCleared, SaveWrite
<1>6. OnlyOverlapDrops'
  BY DEF IInv, OnlyOverlapDrops, NothingDropped, TypeOK, CellsFilled, SavingHead, WrittenFirst,
       SaveWrite, Queued, Cell
<1>7. QED
  BY <1>1, <1>2, <1>2a, <1>3, <1>4, <1>5, <1>6 DEF IInv

LEMMA SaveRegisterKeeps == ASSUME IInv, SaveRegister PROVE IInv'
<1>1. TypeOK'
  BY DEF IInv, TypeOK, CellsFilled, SavingHead, SaveRegister, MonitorPcs, Queued,
       Cell
<1>2. CellsFilled'
  BY DEF IInv, CellsFilled, TypeOK, SaveRegister
<1>2a. OnePush'
  BY DEF IInv, OnePush, TypeOK, SaveRegister
<1>3. SavingHead'
  BY DEF IInv, SavingHead, TypeOK, CellsFilled, SaveRegister
<1>4. WrittenFirst'
  BY DEF IInv, WrittenFirst, SavingHead, SaveRegister
<1>5. NotYetCleared'
  BY DEF IInv, NotYetCleared, SaveRegister
<1>6. OnlyOverlapDrops'
  BY DEF IInv, OnlyOverlapDrops, NothingDropped, TypeOK, CellsFilled, SavingHead, WrittenFirst,
       SaveRegister, Queued, Cell
<1>7. QED
  BY <1>1, <1>2, <1>2a, <1>3, <1>4, <1>5, <1>6 DEF IInv

LEMMA SaveRegisterThrowsKeeps == ASSUME IInv, SaveRegisterThrows PROVE IInv'
<1>1. TypeOK'
  BY DEF IInv, TypeOK, CellsFilled, SavingHead, SaveRegisterThrows, Throws,
       MonitorPcs, Queued, Cell
<1>2. CellsFilled'
  BY DEF IInv, CellsFilled, TypeOK, SaveRegisterThrows, Throws
<1>2a. OnePush'
  BY DEF IInv, OnePush, TypeOK, SaveRegisterThrows, Throws
<1>3. SavingHead'
  BY DEF IInv, SavingHead, TypeOK, CellsFilled, SaveRegisterThrows, Throws
<1>4. WrittenFirst'
  BY DEF IInv, WrittenFirst, SavingHead, SaveRegisterThrows, Throws
<1>5. NotYetCleared'
  BY DEF IInv, NotYetCleared, SaveRegisterThrows, Throws
<1>6. OnlyOverlapDrops'
  BY DEF IInv, OnlyOverlapDrops, NothingDropped, TypeOK, CellsFilled, SavingHead, WrittenFirst,
       SaveRegisterThrows, Throws, Queued, Cell
<1>7. QED
  BY <1>1, <1>2, <1>2a, <1>3, <1>4, <1>5, <1>6 DEF IInv

LEMMA SavePopKeeps == ASSUME IInv, SavePop PROVE IInv'
<1>1. TypeOK'
  BY DEF IInv, TypeOK, CellsFilled, SavingHead, SavePop, MonitorPcs, Queued, Cell
<1>2. CellsFilled'
  BY DEF IInv, CellsFilled, TypeOK, SavePop
<1>2a. OnePush'
  BY DEF IInv, OnePush, TypeOK, SavePop
<1>3. SavingHead'
  BY DEF IInv, SavingHead, TypeOK, CellsFilled, SavePop
<1>4. WrittenFirst'
  BY DEF IInv, WrittenFirst, SavingHead, SavePop
<1>5. NotYetCleared'
  BY DEF IInv, NotYetCleared, SavePop
<1>6. OnlyOverlapDrops'
  BY DEF IInv, OnlyOverlapDrops, NothingDropped, TypeOK, CellsFilled, SavingHead, WrittenFirst,
       SavePop, Queued, Cell
<1>7. QED
  BY <1>1, <1>2, <1>2a, <1>3, <1>4, <1>5, <1>6 DEF IInv

LEMMA SaveLookDpKeeps == ASSUME IInv, SaveLookDp PROVE IInv'
<1>1. TypeOK'
  BY DEF IInv, TypeOK, CellsFilled, SavingHead, SaveLookDp, MonitorPcs, Queued, Cell
<1>2. CellsFilled'
  BY DEF IInv, CellsFilled, TypeOK, SaveLookDp
<1>2a. OnePush'
  BY DEF IInv, OnePush, TypeOK, SaveLookDp
<1>3. SavingHead'
  BY DEF IInv, SavingHead, TypeOK, CellsFilled, SaveLookDp
<1>4. WrittenFirst'
  BY DEF IInv, WrittenFirst, SavingHead, SaveLookDp
<1>5. NotYetCleared'
  BY DEF IInv, NotYetCleared, SaveLookDp
<1>6. OnlyOverlapDrops'
  BY DEF IInv, OnlyOverlapDrops, NothingDropped, TypeOK, CellsFilled, SavingHead, WrittenFirst,
       SaveLookDp, Queued, Cell
<1>7. QED
  BY <1>1, <1>2, <1>2a, <1>3, <1>4, <1>5, <1>6 DEF IInv

LEMMA SaveTellDpKeeps == ASSUME IInv, SaveTellDp PROVE IInv'
<1>1. TypeOK'
  BY DEF IInv, TypeOK, CellsFilled, SavingHead, SaveTellDp, Throws, MonitorPcs,
       Queued, Cell
<1>2. CellsFilled'
  BY DEF IInv, CellsFilled, TypeOK, SaveTellDp, Throws
<1>2a. OnePush'
  BY DEF IInv, OnePush, TypeOK, SaveTellDp, Throws
<1>3. SavingHead'
  BY DEF IInv, SavingHead, TypeOK, CellsFilled, SaveTellDp, Throws
<1>4. WrittenFirst'
  BY DEF IInv, WrittenFirst, SavingHead, SaveTellDp, Throws
<1>5. NotYetCleared'
  BY DEF IInv, NotYetCleared, SaveTellDp, Throws
<1>6. OnlyOverlapDrops'
  BY DEF IInv, OnlyOverlapDrops, NothingDropped, TypeOK, CellsFilled, SavingHead, WrittenFirst,
       SaveTellDp, Throws, Queued, Cell
<1>7. QED
  BY <1>1, <1>2, <1>2a, <1>3, <1>4, <1>5, <1>6 DEF IInv

LEMMA WakeSpuriouslyKeeps == ASSUME IInv, WakeSpuriously PROVE IInv'
<1>1. TypeOK'
  BY DEF IInv, TypeOK, CellsFilled, SavingHead, WakeSpuriously, MonitorPcs, Queued,
       Cell
<1>2. CellsFilled'
  BY DEF IInv, CellsFilled, TypeOK, WakeSpuriously
<1>2a. OnePush'
  BY DEF IInv, OnePush, TypeOK, WakeSpuriously
<1>3. SavingHead'
  BY DEF IInv, SavingHead, TypeOK, CellsFilled, WakeSpuriously
<1>4. WrittenFirst'
  BY DEF IInv, WrittenFirst, SavingHead, WakeSpuriously
<1>5. NotYetCleared'
  BY DEF IInv, NotYetCleared, WakeSpuriously
<1>6. OnlyOverlapDrops'
  BY DEF IInv, OnlyOverlapDrops, NothingDropped, TypeOK, CellsFilled, SavingHead, WrittenFirst,
       WakeSpuriously, Queued, Cell
<1>7. QED
  BY <1>1, <1>2, <1>2a, <1>3, <1>4, <1>5, <1>6 DEF IInv

LEMMA CoupleNetworkKeeps == ASSUME IInv, CoupleNetwork PROVE IInv'
<1>1. TypeOK'
  BY DEF IInv, TypeOK, CellsFilled, SavingHead, CoupleNetwork, MonitorPcs, Queued,
       Cell
<1>2. CellsFilled'
  BY DEF IInv, CellsFilled, TypeOK, CoupleNetwork
<1>2a. OnePush'
  BY DEF IInv, OnePush, TypeOK, CoupleNetwork
<1>3. SavingHead'
  BY DEF IInv, SavingHead, TypeOK, CellsFilled, CoupleNetwork
<1>4. WrittenFirst'
  BY DEF IInv, WrittenFirst, SavingHead, CoupleNetwork
<1>5. NotYetCleared'
  BY DEF IInv, NotYetCleared, CoupleNetwork
<1>6. OnlyOverlapDrops'
  BY DEF IInv, OnlyOverlapDrops, NothingDropped, TypeOK, CellsFilled, SavingHead, WrittenFirst,
       CoupleNetwork, Queued, Cell
<1>7. QED
  BY <1>1, <1>2, <1>2a, <1>3, <1>4, <1>5, <1>6 DEF IInv

LEMMA DecoupleNetowrkKeeps == ASSUME IInv, DecoupleNetowrk PROVE IInv'
<1>1. TypeOK'
  BY DEF IInv, TypeOK, CellsFilled, SavingHead, DecoupleNetowrk, MonitorPcs, Queued,
       Cell
<1>2. CellsFilled'
  BY DEF IInv, CellsFilled, TypeOK, DecoupleNetowrk
<1>2a. OnePush'
  BY DEF IInv, OnePush, TypeOK, DecoupleNetowrk
<1>3. SavingHead'
  BY DEF IInv, SavingHead, TypeOK, CellsFilled, DecoupleNetowrk
<1>4. WrittenFirst'
  BY DEF IInv, WrittenFirst, SavingHead, DecoupleNetowrk
<1>5. NotYetCleared'
  BY DEF IInv, NotYetCleared, DecoupleNetowrk
<1>6. OnlyOverlapDrops'
  BY DEF IInv, OnlyOverlapDrops, NothingDropped, TypeOK, CellsFilled, SavingHead, WrittenFirst,
       DecoupleNetowrk, Queued, Cell
<1>7. QED
  BY <1>1, <1>2, <1>2a, <1>3, <1>4, <1>5, <1>6 DEF IInv

LEMMA DestroyKeeps == ASSUME IInv, Destroy PROVE IInv'
<1>1. TypeOK'
  BY DEF IInv, TypeOK, CellsFilled, SavingHead, Destroy, MonitorPcs, Queued, Cell
<1>2. CellsFilled'
  BY DEF IInv, CellsFilled, TypeOK, Destroy
<1>2a. OnePush'
  BY DEF IInv, OnePush, TypeOK, Destroy
<1>3. SavingHead'
  BY DEF IInv, SavingHead, TypeOK, CellsFilled, Destroy
<1>4. WrittenFirst'
  BY DEF IInv, WrittenFirst, SavingHead, Destroy
<1>5. NotYetCleared'
  BY DEF IInv, NotYetCleared, Destroy
<1>6. OnlyOverlapDrops'
  BY DEF IInv, OnlyOverlapDrops, NothingDropped, TypeOK, CellsFilled, SavingHead, WrittenFirst,
       Destroy, Queued, Cell
<1>7. QED
  BY <1>1, <1>2, <1>2a, <1>3, <1>4, <1>5, <1>6 DEF IInv

LEMMA JoinKeeps == ASSUME IInv, Join PROVE IInv'
<1>1. TypeOK'
  <2>1. Queued \subseteq Files
    BY DEF IInv, TypeOK, CellsFilled, Queued, Cell
  <2>2. first' \in Nat /\ last' \in Nat /\ first' <= last'
    BY DEF IInv, TypeOK, Join
  <2>3. UNCHANGED <<todo, ppc, pfile, pslot, accepted, overlap, cells, rslt, errcnt, cur, disk, db, dp, told,
                    interrupted>>
    BY DEF Join
  <2>4. lost' \subseteq Files /\ mpc' = "joined" /\ running' = FALSE
    BY <2>1 DEF Join
  <2>5. QED
    BY <2>2, <2>3, <2>4 DEF IInv, TypeOK, MonitorPcs
<1>2. CellsFilled'
  BY DEF IInv, CellsFilled, TypeOK, Join
<1>2a. OnePush'
  BY DEF IInv, OnePush, TypeOK, Join
<1>3. SavingHead'
  BY DEF IInv, SavingHead, TypeOK, CellsFilled, Join
<1>4. WrittenFirst'
  BY DEF IInv, WrittenFirst, SavingHead, Join
<1>5. NotYetCleared'
  BY DEF IInv, NotYetCleared, Join
<1>6. OnlyOverlapDrops'
  BY DEF IInv, OnlyOverlapDrops, NothingDropped, TypeOK, CellsFilled, SavingHead, WrittenFirst, Join,
       Queued, Cell, NotYetCleared
<1>7. QED
  BY <1>1, <1>2, <1>2a, <1>3, <1>4, <1>5, <1>6 DEF IInv

LEMMA InitIInv == Init => IInv
<1> SUFFICES ASSUME Init PROVE IInv
  OBVIOUS
<1>1. cells = <<>> /\ DOMAIN cells = {}
  BY DEF Init
<1>2. disk = <<>> /\ DOMAIN disk = {}
  BY DEF Init
<1>3. TypeOK
  <2>1. DOMAIN cells \subseteq Nat /\ \A i \in DOMAIN cells : cells[i] \in Files
    BY <1>1
  <2>2. DOMAIN disk \subseteq Files
    BY <1>2
  <2>3. errcnt \in 0 .. ErrLimit /\ first <= last /\ first \in Nat /\ last \in Nat
    BY LimitAssumption DEF Init
  <2>4. /\ ppc \in [Producers -> {"idle", "push", "commit", "notify", "dead"}]
        /\ pfile \in [Producers -> Files \cup {NoFile}] /\ pslot \in [Producers -> Nat]
        /\ \A p \in Producers : ppc[p] \in {"push", "commit"} => pfile[p] \in Files
    BY DEF Init
  <2>5. QED
    BY <2>1, <2>2, <2>3, <2>4 DEF Init, TypeOK, MonitorPcs
<1>4. CellsFilled /\ OnePush
  BY <1>1 DEF Init, CellsFilled, OnePush
<1>5. SavingHead /\ WrittenFirst /\ NotYetCleared /\ OnlyOverlapDrops
  BY DEF Init, SavingHead, WrittenFirst, NotYetCleared, OnlyOverlapDrops, NothingDropped
<1>6. QED
  BY <1>3, <1>4, <1>5 DEF IInv

LEMMA NextIInv == ASSUME IInv, [Next]_vars PROVE IInv'
<1>1. CASE \E p \in Producers : Producer(p)
  BY <1>1, NewFileKeeps, PushBeginKeeps, PushCommitKeeps, NotifyKeeps DEF Producer
<1>2. CASE Monitor
  BY <1>2, MonitorStartKeeps, LoopEmptyKeeps, LoopFailedKeeps, LoopSavedKeeps,
       EnterWaitKeeps, WakeFromSleepKeeps, GiveUpKeeps, InterruptedKeeps,
       SaveFrontKeeps, SaveDirectoryKeeps, SaveDirectoryFailsKeeps,
       SaveDirectoryThrowsKeeps, SaveOpenFailsKeeps, SaveWriteKeeps,
       SaveRegisterKeeps, SaveRegisterThrowsKeeps, SavePopKeeps, SaveLookDpKeeps,
       SaveTellDpKeeps DEF Monitor
<1>3. CASE WakeSpuriously \/ CoupleNetwork \/ DecoupleNetowrk \/ Destroy \/ Join
  BY <1>3, WakeSpuriouslyKeeps, CoupleNetworkKeeps, DecoupleNetowrkKeeps,
       DestroyKeeps, JoinKeeps
<1>4. CASE UNCHANGED vars
  BY <1>4 DEF vars, IInv, TypeOK, CellsFilled, OnePush, SavingHead, WrittenFirst,
       NotYetCleared, OnlyOverlapDrops, NothingDropped, Queued, Cell
<1>5. QED
  BY <1>1, <1>2, <1>3, <1>4 DEF Next

\* The monitor and the message threads of any number of receivers keep the
\* pointers well formed and, apart from two push_back at once, the queue.
THEOREM WriterTypeCorrect == Spec => []TypeOK
<1>1. IInv /\ [Next]_vars => IInv'
  BY NextIInv
<1>2. IInv => TypeOK
  BY DEF IInv
<1>3. QED
  BY <1>1, <1>2, InitIInv, PTL DEF Spec

\* However many receivers hand files over, every file NewFile has accepted stays
\* in the queue until it is on disk, whatever fails and however often, unless two
\* receivers have been in push_back at once.
THEOREM NoFileIsDropped == Spec => []OnlyOverlapDrops
<1>1. IInv /\ [Next]_vars => IInv'
  BY NextIInv
<1>2. IInv => OnlyOverlapDrops
  BY DEF IInv
<1>3. QED
  BY <1>1, <1>2, InitIInv, PTL DEF Spec

-----------------------------------------------------------------------------
(***************************************************************************)
(* The threads of FileWritter together do what FileStore allows, for any   *)
(* receivers, files, failures, limits and data-process connections, until  *)
(* two receivers are in push_back at once. Most steps are invisible there; *)
(* push_back, fwrite, pop_front, the notification and the destructor are   *)
(* its five actions.                                                       *)
(***************************************************************************)

Step == [Store!Next]_(Store!store)

Entries == [name : Files, data : Files]

LEMMA Distance ==
  ASSUME NEW a \in Nat, NEW b \in Nat, a <= b
  PROVE b - a \in Nat /\ \A i \in 1 .. b - a : a + i \in 1 .. b
OBVIOUS

LEMMA FunctionIsSeq ==
  ASSUME NEW n \in Nat, NEW S, NEW s \in [1 .. n -> S]
  PROVE s \in Seq(S) /\ Len(s) = n
OBVIOUS

LEMMA WaitingProperties ==
  ASSUME ~overlap, IInv
  PROVE /\ Waiting \in Seq(Entries) /\ Len(Waiting) = last - first
        /\ \A i \in 1 .. last - first :
             Waiting[i] = [name |-> cells[first + i], data |-> cells[first + i]]
        /\ \A i \in 1 .. last - first : first + i \in DOMAIN cells /\ cells[first + i] \in Files
<1>1. first \in Nat /\ last \in Nat /\ first <= last /\ last - first \in Nat
  BY DEF IInv, TypeOK
<1>2. \A i \in 1 .. last - first : first + i \in DOMAIN cells /\ cells[first + i] \in Files
  BY <1>1 DEF IInv, TypeOK, CellsFilled
<1>3. Waiting = [i \in 1 .. last - first |-> [name |-> cells[first + i], data |-> cells[first + i]]]
  BY <1>1, <1>2 DEF Waiting, size, Cell
<1>4. Waiting \in [1 .. last - first -> Entries]
  BY <1>2, <1>3 DEF Entries
<1>5. Waiting \in Seq(Entries)
  BY <1>1, <1>4
<1>6. Len(Waiting) = last - first
  BY <1>1, <1>3, <1>5
<1>7. QED
  BY <1>2, <1>3, <1>5, <1>6

LEMMA WaitingNext ==
  ASSUME ~overlap', IInv'
  PROVE /\ Waiting' \in Seq(Entries) /\ Len(Waiting') = last' - first'
        /\ \A i \in 1 .. last' - first' :
             Waiting'[i] = [name |-> cells'[first' + i], data |-> cells'[first' + i]]
<1>0. TypeOK' /\ CellsFilled'
  BY DEF IInv
<1>1. first' \in Nat /\ last' \in Nat /\ first' <= last' /\ last' - first' \in Nat
  <2>1. first' \in Nat
    BY <1>0 DEF TypeOK
  <2>2. last' \in Nat
    BY <1>0 DEF TypeOK
  <2>3. first' <= last'
    BY <1>0 DEF TypeOK
  <2>4. QED
    BY <2>1, <2>2, <2>3, Distance
<1>2. \A i \in 1 .. last' - first' : first' + i \in DOMAIN cells' /\ cells'[first' + i] \in Files
  <2>1. DOMAIN cells' = 1 .. last'
    BY <1>0 DEF CellsFilled
  <2>2. \A i \in DOMAIN cells' : cells'[i] \in Files
    BY <1>0 DEF TypeOK
  <2>3. QED
    BY <1>1, <2>1, <2>2, Distance
<1>3. Waiting' = [i \in 1 .. last' - first' |->
                    [name |-> cells'[first' + i], data |-> cells'[first' + i]]]
  BY <1>1, <1>2 DEF Waiting, size, Cell
<1>4. Waiting' \in [1 .. last' - first' -> Entries]
  BY <1>2, <1>3 DEF Entries
<1>5. QED
  BY <1>1, <1>3, <1>4, FunctionIsSeq

LEMMA Invisible ==
  ASSUME UNCHANGED <<cells, first, last, disk, told, lost>>
  PROVE Step
BY DEF Step, Store!store, Waiting, size, Cell

LEMMA PushIsPut ==
  ASSUME ~overlap, ~overlap', IInv, IInv', \E p \in Producers : PushCommit(p)
  PROVE Store!Put
<1>1. PICK p \in Producers : PushCommit(p)
  OBVIOUS
<1>2. /\ first' = first /\ last' = last + 1
      /\ \A i \in 1 .. last : cells'[i] = cells[i]
      /\ UNCHANGED <<disk, told, lost>>
  BY <1>1 DEF PushCommit, IInv, TypeOK, CellsFilled
<1>3. first \in Nat /\ last \in Nat /\ first <= last
  BY DEF IInv, TypeOK
<1>4. /\ Waiting' \in Seq(Entries) /\ Len(Waiting') = last' - first'
      /\ \A i \in 1 .. last' - first' :
           Waiting'[i] = [name |-> cells'[first' + i], data |-> cells'[first' + i]]
  BY WaitingNext
<1>5. Len(Waiting') = Len(Waiting) + 1
  BY <1>2, <1>3, <1>4, WaitingProperties
<1>6. \A i \in 1 .. Len(Waiting) : Waiting'[i] = Waiting[i]
  <2> SUFFICES ASSUME NEW i \in 1 .. Len(Waiting)
               PROVE Waiting'[i] = Waiting[i]
    OBVIOUS
  <2>1. i \in 1 .. last - first /\ i \in 1 .. last' - first' /\ first + i \in 1 .. last
    BY <1>2, <1>3, WaitingProperties
  <2>2. QED
    BY <2>1, <1>2, <1>4, WaitingProperties
<1>7. Waiting'[Len(Waiting')] \in Entries
  BY <1>4, <1>5, WaitingProperties, LenProperties, ElementOfSeq
<1>8. [f \in DOMAIN disk' |-> f] = [f \in DOMAIN disk |-> f]
  BY <1>2
<1>9. QED
  BY <1>2, <1>5, <1>6, <1>7, <1>8 DEF Store!Put, Store!Entries, Entries

LEMMA WriteIsStore ==
  ASSUME ~overlap, IInv, SaveWrite
  PROVE Store!Store
<1>1. first < last /\ cells[first + 1] = cur /\ first \in Nat /\ last \in Nat
  BY DEF IInv, SavingHead, SaveWrite, TypeOK
<1>2. Waiting # <<>> /\ Head(Waiting) = [name |-> cur, data |-> cur]
  <2>1. Waiting \in Seq(Entries) /\ Len(Waiting) = last - first /\ 1 \in 1 .. last - first
    BY <1>1, WaitingProperties
  <2>2. Waiting[1] = [name |-> cur, data |-> cur]
    BY <1>1, <2>1, WaitingProperties
  <2>3. QED
    BY <1>1, <2>1, <2>2
<1>3. DOMAIN disk' = DOMAIN disk \cup {cur}
  BY DEF SaveWrite
<1>4. [f \in DOMAIN disk' |-> f] =
        [n \in DOMAIN [f \in DOMAIN disk |-> f] \cup {Head(Waiting).name} |->
           IF n = Head(Waiting).name THEN Head(Waiting).data ELSE [f \in DOMAIN disk |-> f][n]]
  BY <1>2, <1>3
<1>5. Waiting' = Waiting /\ UNCHANGED <<told, lost>>
  BY DEF SaveWrite, Waiting, size, Cell
<1>6. QED
  BY <1>2, <1>4, <1>5 DEF Store!Store

LEMMA PopIsLeave ==
  ASSUME ~overlap, ~overlap', IInv, IInv', SavePop
  PROVE Store!Leave
<1>1. /\ first < last /\ cells[first + 1] = cur /\ cur \in DOMAIN disk
      /\ first \in Nat /\ last \in Nat
  BY DEF IInv, SavingHead, WrittenFirst, SavePop, TypeOK
<1>2. first' = first + 1 /\ last' = last /\ cells' = cells /\ disk' = disk
  BY DEF SavePop
<1>3. /\ Waiting \in Seq(Entries) /\ Len(Waiting) = last - first /\ Waiting # <<>>
      /\ Head(Waiting) = [name |-> cur, data |-> cur]
  <2>1. Waiting \in Seq(Entries) /\ Len(Waiting) = last - first /\ 1 \in 1 .. last - first
    BY <1>1, WaitingProperties
  <2>2. Waiting[1] = [name |-> cur, data |-> cur]
    BY <1>1, <2>1, WaitingProperties
  <2>3. QED
    BY <1>1, <2>1, <2>2
<1>4. /\ Waiting' \in Seq(Entries) /\ Len(Waiting') = last' - first'
      /\ \A i \in 1 .. last' - first' :
           Waiting'[i] = [name |-> cells'[first' + i], data |-> cells'[first' + i]]
  BY WaitingNext
<1>5. /\ Tail(Waiting) \in Seq(Entries) /\ Len(Tail(Waiting)) = Len(Waiting) - 1
      /\ \A i \in 1 .. Len(Tail(Waiting)) : Tail(Waiting)[i] = Waiting[i + 1]
  BY <1>3, HeadTailProperties
<1>6. \A i \in 1 .. Len(Waiting') : Waiting'[i] = Tail(Waiting)[i]
  <2> SUFFICES ASSUME NEW i \in 1 .. Len(Waiting')
               PROVE Waiting'[i] = Tail(Waiting)[i]
    OBVIOUS
  <2>1. i \in 1 .. last' - first' /\ i + 1 \in 1 .. last - first /\ i \in 1 .. Len(Tail(Waiting))
        /\ (first + 1) + i = first + (i + 1)
    BY <1>1, <1>2, <1>3, <1>4, <1>5
  <2>2. Waiting'[i] = [name |-> cells[first + (i + 1)], data |-> cells[first + (i + 1)]]
    BY <2>1, <1>2, <1>4
  <2>3. Waiting[i + 1] = [name |-> cells[first + (i + 1)], data |-> cells[first + (i + 1)]]
    BY <2>1, WaitingProperties
  <2>4. QED
    BY <2>1, <2>2, <2>3, <1>5
<1>7. Waiting' = Tail(Waiting)
  BY <1>1, <1>2, <1>3, <1>4, <1>5, <1>6, SeqEqual
<1>8. UNCHANGED <<told, lost>>
  BY DEF SavePop
<1>9. QED
  BY <1>1, <1>2, <1>3, <1>7, <1>8 DEF Store!Leave

LEMMA TellIsTell ==
  ASSUME ~overlap, IInv, SaveTellDp
  PROVE Step
<1>1. CASE dp
  <2>1. told' = told \cup {cur} /\ cur \in DOMAIN disk
    BY <1>1 DEF SaveTellDp, IInv, WrittenFirst
  <2>2. UNCHANGED <<cells, first, last, disk, lost>>
    BY DEF SaveTellDp
  <2>3. Store!Tell
    BY <2>1, <2>2 DEF Store!Tell, Waiting, size, Cell
  <2>4. QED
    BY <2>3 DEF Step, Store!Next
<1>2. CASE ~dp
  BY <1>2, Invisible DEF SaveTellDp
<1>3. QED
  BY <1>1, <1>2

LEMMA JoinIsGiveUp ==
  ASSUME ~overlap, IInv, Join
  PROVE Store!GiveUp
<1>1. first \in Nat /\ last \in Nat /\ first <= last /\ first' = last /\ last' = last
  BY DEF IInv, TypeOK, Join
<1>2. Waiting' = <<>>
  BY <1>1 DEF Waiting, size
<1>3. lost' = {Cell(i) : i \in first + 1 .. last}
  <2>1. DOMAIN cells = 1 .. last /\ \A i \in DOMAIN cells : cells[i] \in Files
    BY DEF IInv, TypeOK, CellsFilled
  <2>2. \A i \in first + 1 .. last : i \in 1 .. last
    BY <1>1
  <2>3. \A i \in first + 1 .. last : Cell(i) # NoFile
    BY <2>1, <2>2, NoFileAssumption DEF Cell
  <2>4. lost' = {Cell(i) : i \in first + 1 .. last} \ {NoFile}
    BY DEF Join, Queued
  <2>5. QED
    BY <2>3, <2>4
<1>4. \A i \in 1 .. last - first : Waiting[i].name = Cell(first + i)
  BY DEF Waiting, size
<1>5. Len(Waiting) = last - first
  BY WaitingProperties
<1>6. {Cell(i) : i \in first + 1 .. last} = {Waiting[i].name : i \in 1 .. Len(Waiting)}
  <2>1. ASSUME NEW i \in first + 1 .. last
        PROVE Cell(i) \in {Waiting[j].name : j \in 1 .. Len(Waiting)}
    <3>1. i - first \in 1 .. last - first /\ first + (i - first) = i
      BY <1>1
    <3>2. QED
      BY <3>1, <1>4, <1>5
  <2>2. ASSUME NEW i \in 1 .. Len(Waiting)
        PROVE Waiting[i].name \in {Cell(j) : j \in first + 1 .. last}
    <3>1. i \in 1 .. last - first /\ first + i \in first + 1 .. last
      BY <1>1, <1>5
    <3>2. QED
      BY <3>1, <1>4
  <2>3. QED
    BY <2>1, <2>2
<1>7. UNCHANGED <<disk, told>>
  BY DEF Join
<1>8. QED
  BY <1>2, <1>3, <1>6, <1>7 DEF Store!GiveUp

LEMMA MonitorStep ==
  ASSUME ~overlap, ~overlap', IInv, IInv', Monitor
  PROVE Step
<1>1. CASE SaveWrite
  BY <1>1, WriteIsStore DEF Step, Store!Next
<1>2. CASE SavePop
  BY <1>2, PopIsLeave DEF Step, Store!Next
<1>3. CASE SaveTellDp
  BY <1>3, TellIsTell
<1>4. CASE MonitorStart \/ LoopEmpty \/ LoopFailed \/ LoopSaved
  BY <1>4, Invisible DEF MonitorStart, LoopEmpty, LoopFailed, LoopSaved
<1>5. CASE EnterWait \/ WakeFromSleep \/ GiveUp \/ Interrupted
  BY <1>5, Invisible DEF EnterWait, WakeFromSleep, GiveUp, Interrupted
<1>6. CASE SaveFront \/ SaveDirectory \/ SaveDirectoryFails \/ SaveDirectoryThrows
  BY <1>6, Invisible DEF SaveFront, SaveDirectory, SaveDirectoryFails, SaveDirectoryThrows
<1>7. CASE SaveOpenFails \/ SaveRegister \/ SaveRegisterThrows \/ SaveLookDp
  BY <1>7, Invisible DEF SaveOpenFails, SaveRegister, SaveRegisterThrows, SaveLookDp
<1>8. QED
  BY <1>1, <1>2, <1>3, <1>4, <1>5, <1>6, <1>7 DEF Monitor

LEMMA OverlapStays == ASSUME IInv, [Next]_vars, overlap PROVE overlap'
<1>1. CASE \E p \in Producers : Producer(p)
  BY <1>1 DEF Producer, NewFile, PushBegin, PushCommit, Notify
<1>2. CASE Monitor
  <2>1. CASE MonitorStart \/ LoopEmpty \/ LoopFailed \/ LoopSaved \/ EnterWait
             \/ WakeFromSleep \/ GiveUp \/ Interrupted
    BY <2>1 DEF MonitorStart, LoopEmpty, LoopFailed, LoopSaved, EnterWait, WakeFromSleep,
         GiveUp, Interrupted
  <2>2. CASE SaveFront \/ SaveDirectory \/ SaveDirectoryFails \/ SaveDirectoryThrows
             \/ SaveOpenFails \/ SaveWrite
    BY <2>2 DEF SaveFront, SaveDirectory, SaveDirectoryFails, SaveDirectoryThrows,
         SaveOpenFails, SaveWrite
  <2>3. CASE SaveRegister \/ SaveRegisterThrows \/ SavePop \/ SaveLookDp \/ SaveTellDp
    BY <2>3 DEF SaveRegister, SaveRegisterThrows, SavePop, SaveLookDp, SaveTellDp
  <2>4. QED
    BY <1>2, <2>1, <2>2, <2>3 DEF Monitor
<1>3. CASE WakeSpuriously \/ CoupleNetwork \/ DecoupleNetowrk \/ Destroy \/ Join
  BY <1>3 DEF WakeSpuriously, CoupleNetwork, DecoupleNetowrk, Destroy, Join
<1>4. CASE UNCHANGED vars
  BY <1>4 DEF vars
<1>5. QED
  BY <1>1, <1>2, <1>3, <1>4 DEF Next

LEMMA EveryStep ==
  ASSUME ~overlap', IInv, IInv', [Next]_vars
  PROVE Step
<1>0. ~overlap
  BY OverlapStays
<1>1. CASE \E p \in Producers : PushCommit(p)
  BY <1>0, <1>1, PushIsPut DEF Step, Store!Next
<1>2. CASE \E p \in Producers : (\E f \in Files : NewFile(p, f)) \/ PushBegin(p) \/ Notify(p)
  BY <1>2, Invisible DEF NewFile, PushBegin, Notify
<1>3. CASE Monitor
  BY <1>0, <1>3, MonitorStep
<1>4. CASE Join
  BY <1>0, <1>4, JoinIsGiveUp DEF Step, Store!Next
<1>5. CASE WakeSpuriously \/ CoupleNetwork \/ DecoupleNetowrk \/ Destroy
  BY <1>5, Invisible DEF WakeSpuriously, CoupleNetwork, DecoupleNetowrk, Destroy
<1>6. CASE UNCHANGED vars
  BY <1>6, Invisible DEF vars
<1>7. QED
  BY <1>1, <1>2, <1>3, <1>4, <1>5, <1>6 DEF Next, Producer

LEMMA InitIsInit == Init => Store!Init
<1> SUFFICES ASSUME Init PROVE Store!Init
  OBVIOUS
<1>1. Waiting = <<>>
  BY DEF Init, Waiting, size
<1>2. [f \in DOMAIN disk |-> f] = <<>>
  BY DEF Init
<1>3. QED
  BY <1>1, <1>2 DEF Init, Store!Init

\* Whatever receivers, directories, files, the database and the data-process do,
\* until two receivers are in push_back at once the storage only does what FileStore
\* says: files are written in the order in which NewFile got them, each before it
\* leaves the queue, and nothing is told of or given up otherwise.
THEOREM StorageImplements == Spec => IsFileStore
<1>1. IInv /\ [Next]_vars => IInv'
  BY NextIInv
<1>2. IInv /\ IInv' /\ [Next]_vars => [overlap' \/ Store!Next]_(Store!store)
  BY EveryStep DEF Step
<1>3. QED
  BY <1>1, <1>2, InitIInv, InitIsInit, PTL DEF Spec, IsFileStore

=============================================================================

----------------------------- MODULE FileWritter -----------------------------
(***************************************************************************)
(* FileWritter (FileWritter.cpp): the queue of received files, the monitor *)
(* thread that writes them to disk, the message threads that call NewFile, *)
(* and the data-process connection that is told of every saved file.       *)
(*                                                                         *)
(* quenf_, running_ and tcpc_dp_ are shared without a lock: the mutex that *)
(* cvfile_ waits with is local to the monitor. Each read and write of them *)
(* is a step of its own.                                                   *)
(***************************************************************************)
EXTENDS Integers, Sequences

CONSTANTS
  Files,       \* the files that get handed over, each once
  Producers,   \* the message threads of the FileReceivers
  ErrLimit,    \* failures after which thread_monitor gives up: 5
  UseDB,       \* SetDatabase has created dbt_
  NestedRoot,  \* <root>/<root> exists, so a directory can be created in it
  MayFail,     \* directories and files may fail to be created
  Spurious,    \* cvfile_.wait may return without a notification
  MaxCouplings,\* bound: data-process connections
  MayDestroy,  \* the FileWritter may be destroyed
  NoFile       \* a null nfileptr

ASSUME LimitAssumption == ErrLimit \in Nat \ {0}
ASSUME NoFileAssumption == NoFile \notin Files

VARIABLES
  todo,       \* files nobody has handed over yet
  ppc,        \* where each producer is in NewFile
  pfile,      \* NewFile: nfptr
  pslot,      \* NewFile: the cell push_back constructs in
  accepted,   \* history: files for which running_ was set
  overlap,    \* history: two producers have been in push_back at once
  running,    \* running_
  cells,      \* the memory of quenf_, from its first element ever
  first,      \* quenf_.begin(): elements popped so far
  last,       \* quenf_.end(): elements committed so far
  mpc,        \* where the monitor thread is
  rslt,       \* thread_monitor: rslt
  errcnt,     \* thread_monitor: errcnt
  cur,        \* save_first: ptr
  nested,     \* how many times ptr->subpath has been prefixed with the root
  disk,       \* files written, and how many roots their path begins with
  db,         \* files registered in the database
  dp,         \* tcpc_dp_ is not null
  couplings,  \* data-process connections so far
  told,       \* files the data-process has been told about
  interrupted,\* ~FileWritter has interrupted the monitor thread
  fails,      \* history: save_first failures, all and in a row
  lost        \* files cleared by ~FileWritter

producer == <<todo, ppc, pfile, pslot, accepted, overlap>>
queue    == <<cells, first, last>>
monitor  == <<running, mpc, rslt, errcnt, cur, fails>>
output   == <<nested, disk, db>>
link     == <<dp, couplings>>
ending   == <<interrupted, lost>>
vars     == <<producer, queue, monitor, output, link, told, ending>>

-----------------------------------------------------------------------------
size == last - first

\* The files of quenf_; NoFile stands for a cell nothing was constructed in.
Cell(i) == IF i \in DOMAIN cells THEN cells[i] ELSE NoFile
Queued  == {Cell(i) : i \in first + 1 .. last} \ {NoFile}

Init ==
  /\ todo = Files /\ ppc = [p \in Producers |-> "idle"]
  /\ pfile = [p \in Producers |-> NoFile] /\ pslot = [p \in Producers |-> 0]
  /\ accepted = {} /\ overlap = FALSE
  /\ running = FALSE /\ mpc = "start" /\ rslt = TRUE /\ errcnt = 0 /\ cur = NoFile
  /\ fails = [all |-> 0, inrow |-> 0]
  /\ cells = <<>> /\ first = 0 /\ last = 0
  /\ nested = [f \in Files |-> 0] /\ disk = <<>> /\ db = {}
  /\ dp = FALSE /\ couplings = 0 /\ told = {}
  /\ interrupted = FALSE /\ lost = {}

-----------------------------------------------------------------------------
(* NewFile, in the message thread of a FileReceiver                        *)

\* "if (running_)": otherwise the file is turned away.
NewFile(p, f) ==
  /\ ppc[p] = "idle" /\ f \in todo /\ ~interrupted
  /\ todo' = todo \ {f}
  /\ IF running
     THEN /\ ppc' = [ppc EXCEPT ![p] = "push"]
          /\ pfile' = [pfile EXCEPT ![p] = f]
          /\ accepted' = accepted \cup {f}
     ELSE UNCHANGED <<ppc, pfile, accepted>>
  /\ UNCHANGED <<pslot, overlap, queue, monitor, output, link, told, ending>>

\* push_back takes the cell at end(),
PushBegin(p) ==
  /\ ppc[p] = "push"
  /\ pslot' = [pslot EXCEPT ![p] = last + 1]
  /\ ppc' = [ppc EXCEPT ![p] = "commit"]
  /\ overlap' = (overlap \/ \E q \in Producers : ppc[q] = "commit")
  /\ UNCHANGED <<todo, pfile, accepted, queue, monitor, output, link, told, ending>>

\* constructs the element there and advances end(), either the end() it has
\* read before or, if the compiler reads it again, the one of this moment.
PushCommit(p) ==
  /\ ppc[p] = "commit"
  /\ cells' = [i \in DOMAIN cells \cup {pslot[p]} |->
                 IF i = pslot[p] THEN pfile[p] ELSE cells[i]]
  /\ last' \in {pslot[p], last + 1}
  /\ ppc' = [ppc EXCEPT ![p] = "notify"]
  /\ UNCHANGED <<todo, pfile, pslot, accepted, overlap, first, monitor, output, link, told, ending>>

\* notify_one wakes the monitor only if it is waiting already.
Notify(p) ==
  /\ ppc[p] = "notify"
  /\ ppc' = [ppc EXCEPT ![p] = "idle"]
  /\ mpc' = IF mpc = "waiting" THEN "save" ELSE mpc
  /\ UNCHANGED <<todo, pfile, pslot, accepted, overlap, queue, running, rslt, errcnt, cur, fails,
                 output, link, told, ending>>

Producer(p) ==
  (\E f \in Files : NewFile(p, f)) \/ PushBegin(p) \/ PushCommit(p) \/ Notify(p)

-----------------------------------------------------------------------------
(* thread_monitor                                                          *)

MonitorStart ==
  /\ mpc = "start"
  /\ running' = TRUE /\ mpc' = "loop"
  /\ UNCHANGED <<producer, queue, rslt, errcnt, cur, fails, output, link, told, ending>>

\* A possible slip: the monitor waits as long as there is only one file.
LoopEmptyLate ==
  /\ mpc = "loop" /\ errcnt < ErrLimit /\ size <= 1
  /\ mpc' = "enter_wait"
  /\ UNCHANGED <<producer, queue, running, rslt, errcnt, cur, fails, output, link, told, ending>>

\* "while (errcnt < 5)", then the queue is looked at.
LoopEmpty ==
  /\ mpc = "loop" /\ errcnt < ErrLimit /\ size = 0
  /\ mpc' = "enter_wait"
  /\ UNCHANGED <<producer, queue, running, rslt, errcnt, cur, fails, output, link, told, ending>>

\* A possible slip: "while (errcnt <= 5)".
LoopFailedOnceMore ==
  /\ mpc = "loop" /\ errcnt <= ErrLimit /\ size # 0 /\ ~rslt
  /\ errcnt' = errcnt + 1 /\ mpc' = "sleep"
  /\ UNCHANGED <<producer, queue, running, rslt, cur, fails, output, link, told, ending>>

LoopFailed ==
  /\ mpc = "loop" /\ errcnt < ErrLimit /\ size # 0 /\ ~rslt
  /\ errcnt' = errcnt + 1 /\ mpc' = "sleep"
  /\ UNCHANGED <<producer, queue, running, rslt, cur, fails, output, link, told, ending>>

LoopSaved ==
  /\ mpc = "loop" /\ errcnt < ErrLimit /\ size # 0 /\ rslt
  /\ errcnt' = 0 /\ mpc' = "save"
  /\ UNCHANGED <<producer, queue, running, rslt, cur, fails, output, link, told, ending>>

\* cvfile_.wait: from here on the thread is on the condition's list.
EnterWait ==
  /\ mpc = "enter_wait" /\ ~interrupted
  /\ mpc' = "waiting"
  /\ UNCHANGED <<producer, queue, running, rslt, errcnt, cur, fails, output, link, told, ending>>

WakeSpuriously ==
  /\ Spurious /\ mpc = "waiting"
  /\ mpc' = "save"
  /\ UNCHANGED <<producer, queue, running, rslt, errcnt, cur, fails, output, link, told, ending>>

\* sleep_for(1 minute) is over.
WakeFromSleep ==
  /\ mpc = "sleep"
  /\ mpc' = "save"
  /\ UNCHANGED <<producer, queue, running, rslt, errcnt, cur, fails, output, link, told, ending>>

GiveUp ==
  /\ mpc = "loop" /\ errcnt >= ErrLimit
  /\ running' = FALSE /\ mpc' = "done"
  /\ UNCHANGED <<producer, queue, rslt, errcnt, cur, fails, output, link, told, ending>>

\* A possible slip: a condition variable whose wait cannot be interrupted.
InterruptedAsleep ==
  /\ interrupted /\ mpc = "sleep"
  /\ mpc' = "done"
  /\ UNCHANGED <<producer, queue, running, rslt, errcnt, cur, fails, output, link, told, ending>>

\* wait and sleep_for throw thread_interrupted, which ends the thread.
Interrupted ==
  /\ interrupted /\ mpc \in {"enter_wait", "waiting", "sleep"}
  /\ mpc' = "done"
  /\ UNCHANGED <<producer, queue, running, rslt, errcnt, cur, fails, output, link, told, ending>>

-----------------------------------------------------------------------------
(* save_first                                                              *)

\* A failed save returns false to the loop.
Failed ==
  /\ rslt' = FALSE /\ mpc' = "loop"
  /\ fails' = [all |-> IF fails.all < ErrLimit THEN fails.all + 1 ELSE fails.all,
               inrow |-> fails.inrow + 1]

\* An exception that no one catches, or undefined behaviour: the program ends.
Throws == mpc' = "dead" /\ ppc' = [p \in Producers |-> "dead"]

\* front() of an empty deque, or of a cell nothing was constructed in, is
\* undefined. Otherwise the root goes in front of subpath, in the FileInfo too.
SaveFront ==
  /\ mpc = "save"
  /\ IF size <= 0 \/ Cell(first + 1) = NoFile
     THEN Throws /\ UNCHANGED <<cur, nested>>
     ELSE /\ cur' = Cell(first + 1) /\ mpc' = "directory"
          /\ nested' = [nested EXCEPT ![cur'] = @ + 1]
          /\ UNCHANGED ppc
  /\ UNCHANGED <<todo, pfile, pslot, accepted, overlap, queue, running, rslt, errcnt, fails,
                 disk, db, link, told, ending>>

\* The directory exists or can be created only if its parent exists.
Reachable == nested[cur] = 1 \/ NestedRoot

SaveDirectory ==
  /\ mpc = "directory" /\ Reachable
  /\ mpc' = "open"
  /\ UNCHANGED <<producer, queue, running, rslt, errcnt, cur, fails, output, link, told, ending>>

\* create_directory returns false when someone else has just created it, and
\* throws filesystem_error on any other failure.
SaveDirectoryFails ==
  /\ mpc = "directory" /\ MayFail
  /\ Failed
  /\ UNCHANGED <<producer, queue, running, errcnt, cur, output, link, told, ending>>

SaveDirectoryThrows ==
  /\ mpc = "directory" /\ (MayFail \/ ~Reachable)
  /\ Throws
  /\ UNCHANGED <<todo, pfile, pslot, accepted, overlap, queue, running, rslt, errcnt, cur, fails,
                 output, link, told, ending>>

\* A possible slip: pop_front stands before the test of fopen.
SaveOpenFailsPopped ==
  /\ mpc = "open" /\ MayFail
  /\ Failed /\ first' = first + 1
  /\ UNCHANGED <<producer, cells, last, running, errcnt, cur, output, link, told, ending>>

\* A possible slip: the data-process is notified after the test of fopen.
SaveOpenFailsTold ==
  /\ mpc = "open" /\ MayFail
  /\ rslt' = FALSE /\ mpc' = "look_dp"
  /\ fails' = [all |-> IF fails.all < ErrLimit THEN fails.all + 1 ELSE fails.all,
               inrow |-> fails.inrow + 1]
  /\ UNCHANGED <<producer, queue, running, errcnt, cur, output, link, told, ending>>

SaveOpenFails ==
  /\ mpc = "open" /\ MayFail
  /\ Failed
  /\ UNCHANGED <<producer, queue, running, errcnt, cur, output, link, told, ending>>

\* fopen, fwrite and fclose; what fwrite and fclose return is not looked at, so
\* a file that was cut on a full disk counts as written.
SaveWrite ==
  /\ mpc = "open"
  /\ disk' = [f \in DOMAIN disk \cup {cur} |-> IF f = cur THEN nested[cur] ELSE disk[f]]
  /\ mpc' = IF UseDB THEN "register" ELSE "pop"
  /\ UNCHANGED <<producer, queue, running, rslt, errcnt, cur, fails, nested, db, link, told, ending>>

\* dbt_->RegImageFile, whose result is ignored;
SaveRegister ==
  /\ mpc = "register"
  /\ db' \in {db, db \cup {cur}}
  /\ mpc' = "pop"
  /\ UNCHANGED <<producer, queue, running, rslt, errcnt, cur, fails, nested, disk, link, told, ending>>

\* from_iso_extended_string throws on a tmobs that is no time.
SaveRegisterThrows ==
  /\ mpc = "register" /\ MayFail
  /\ Throws
  /\ UNCHANGED <<todo, pfile, pslot, accepted, overlap, queue, running, rslt, errcnt, cur, fails,
                 output, link, told, ending>>

SavePop ==
  /\ mpc = "pop"
  /\ first' = first + 1
  /\ rslt' = TRUE /\ fails' = [fails EXCEPT !.inrow = 0]
  /\ mpc' = "look_dp"
  /\ UNCHANGED <<producer, cells, last, running, errcnt, cur, output, link, told, ending>>

\* "if (tcpc_dp_.use_count())"
SaveLookDp ==
  /\ mpc = "look_dp"
  /\ mpc' = IF dp THEN "tell_dp" ELSE "loop"
  /\ UNCHANGED <<producer, queue, running, rslt, errcnt, cur, fails, output, link, told, ending>>

\* tcpc_dp_->Write: a null pointer if the link was dropped in between.
SaveTellDp ==
  /\ mpc = "tell_dp"
  /\ IF dp THEN told' = told \cup {cur} /\ mpc' = "loop" /\ UNCHANGED ppc
           ELSE Throws /\ UNCHANGED told
  /\ UNCHANGED <<todo, pfile, pslot, accepted, overlap, queue, running, rslt, errcnt, cur, fails,
                 output, link, ending>>

Monitor ==
  \/ MonitorStart \/ LoopEmpty \/ LoopFailed \/ LoopSaved
  \/ EnterWait \/ WakeFromSleep \/ GiveUp \/ Interrupted
  \/ SaveFront \/ SaveDirectory \/ SaveDirectoryFails \/ SaveDirectoryThrows
  \/ SaveOpenFails \/ SaveWrite \/ SaveRegister \/ SaveRegisterThrows
  \/ SavePop \/ SaveLookDp \/ SaveTellDp

-----------------------------------------------------------------------------
(* The threads that own the data-process link and the FileWritter          *)

CoupleNetwork ==
  /\ mpc \notin {"dead", "joined"} /\ couplings < MaxCouplings
  /\ dp' = TRUE /\ couplings' = couplings + 1
  /\ UNCHANGED <<producer, queue, monitor, output, told, ending>>

DecoupleNetowrk ==
  /\ mpc \notin {"dead", "joined"} /\ dp
  /\ dp' = FALSE
  /\ UNCHANGED <<producer, queue, monitor, output, couplings, told, ending>>

\* ~FileWritter runs when the last FileReceiver that could call NewFile is
\* gone: interrupt the monitor thread,
Destroy ==
  /\ MayDestroy /\ ~interrupted
  /\ \A p \in Producers : ppc[p] = "idle"
  /\ interrupted' = TRUE
  /\ UNCHANGED <<producer, queue, monitor, output, link, told, lost>>

\* join it, and clear what it has left in the queue.
Join ==
  /\ interrupted /\ mpc = "done"
  /\ running' = FALSE /\ mpc' = "joined"
  /\ lost' = Queued /\ first' = last
  /\ UNCHANGED <<producer, cells, last, rslt, errcnt, cur, fails, output, link, told,
                 interrupted>>

Next ==
  \/ \E p \in Producers : Producer(p)
  \/ Monitor \/ WakeSpuriously
  \/ CoupleNetwork \/ DecoupleNetowrk
  \/ Destroy \/ Join

Spec == Init /\ [][Next]_vars

\* The threads run; nothing makes the condition wake up spuriously, a
\* data-process connect or the program end.
Fairness == WF_vars(Monitor) /\ WF_vars(Join) /\ \A p \in Producers : WF_vars(Producer(p))

FairSpec == Spec /\ Fairness

-----------------------------------------------------------------------------
(* Properties                                                              *)

MonitorPcs == {"start", "loop", "enter_wait", "waiting", "sleep", "save", "directory", "open",
               "register", "pop", "look_dp", "tell_dp", "done", "joined", "dead"}

\* The pointers that NewFile and save_first hold while they use them are not
\* null, errcnt stays within the limit of the loop and, unless two receivers were
\* in push_back at once, the end of the queue is never before its beginning.
TypeOK ==
  /\ todo \subseteq Files /\ accepted \subseteq Files /\ overlap \in BOOLEAN
  /\ ppc \in [Producers -> {"idle", "push", "commit", "notify", "dead"}]
  /\ pfile \in [Producers -> Files \cup {NoFile}]
  /\ \A p \in Producers : ppc[p] \in {"push", "commit"} => pfile[p] \in Files
  /\ pslot \in [Producers -> Nat]
  /\ first \in Nat /\ last \in Nat /\ (overlap \/ first <= last)
  /\ DOMAIN cells \subseteq Nat /\ \A i \in DOMAIN cells : cells[i] \in Files
  /\ running \in BOOLEAN /\ mpc \in MonitorPcs /\ rslt \in BOOLEAN
  /\ errcnt \in 0 .. ErrLimit
  /\ mpc \in {"directory", "open", "register", "pop", "look_dp", "tell_dp"} => cur \in Files
  /\ DOMAIN disk \subseteq Files /\ db \subseteq Files /\ told \subseteq Files
  /\ dp \in BOOLEAN /\ interrupted \in BOOLEAN /\ lost \subseteq Files

\* A file whose NewFile has returned is in the queue or on disk, until the
\* destructor counts it among the unsaved files.
NothingDropped ==
  \A f \in accepted : \/ f \in Queued \cup lost \cup DOMAIN disk
                      \/ \E p \in Producers : pfile[p] = f /\ ppc[p] \in {"push", "commit", "dead"}

\* The receivers of all connections call NewFile: save_first pops nothing that it
\* has not written, whatever fails and however often it is retried, and push_back
\* loses nothing as long as no two receivers are in it at once.
OnlyOverlapDrops == overlap \/ NothingDropped

\* The data-process is told only of files that are on disk, and registration
\* never runs ahead of the file.
ToldIsSaved == told \cup db \subseteq DOMAIN disk

\* The monitor looks at the queue before it waits, or a notification is on its way.
Noticing ==
  mpc \notin {"enter_wait", "waiting"} \/ (mpc = "waiting" /\ \E p \in Producers : ppc[p] = "notify")

\* The monitor may leave files behind: the destructor has interrupted it, or
\* save_first has failed ErrLimit times.
MayLeave == mpc \in {"done", "joined"} /\ (interrupted \/ fails.all >= ErrLimit)

\* A queued file is stored if the monitor is not about to wait when it is pushed,
\* and with the next file otherwise: no file is passed over, and before ErrLimit
\* failures the monitor does not give up.
NoticedIsSaved ==
  \A f \in Files :
    (f \in Queued /\ Noticing) ~> (f \in DOMAIN disk \/ MayLeave \/ mpc = "dead" \/ overlap)

\* ~FileWritter returns: an interrupted monitor always comes to a point where
\* it notices, and join does not block for ever.
DestructorReturns == interrupted ~> mpc \in {"joined", "dead"}

\* "Monitor thread: check whether a file waits to be stored, and store it":
\* every file that is queued is stored, unless the monitor ends.
QueuedIsSaved ==
  \A f \in Files : f \in Queued ~> (f \in DOMAIN disk \/ mpc \in {"done", "joined", "dead"})

\* "When the queue is empty, wait for a new file": save_first runs only with a
\* file to save.
SavesSomething == mpc = "save" => size > 0

\* "Saved successfully, clear the count": the monitor gives up only after
\* failures in a row.
CountsInARow == mpc = "done" /\ ~interrupted => fails.inrow >= ErrLimit

\* subpath is the "name of the subdirectory": every file is stored in that
\* directory under the root, also when the first attempt has failed.
SavedInPlace == \A f \in DOMAIN disk : disk[f] = 1

-----------------------------------------------------------------------------
(* What it promises                                                        *)

Waiting == [i \in 1 .. size |-> [name |-> Cell(first + i), data |-> Cell(first + i)]]

Store ==
  INSTANCE FileStore
  WITH Names <- Files, Contents <- Files, pending <- Waiting,
       stored <- [f \in DOMAIN disk |-> f]

\* The threads of FileWritter together do nothing but what FileStore allows, until two
\* receivers are in push_back at once: files are written in the order in which they
\* were handed over, none leaves the queue before it is written, whatever fails and is
\* retried, until the destructor gives up the rest.
IsFileStore == Store!Init /\ [][overlap' \/ Store!Next]_(Store!store)

=============================================================================

------------------------------ MODULE FileStore ------------------------------
(***************************************************************************)
(* What the storage of the server promises, whichever threads are involved *)
(* (FileWritter.h): files wait in the order in which they were handed      *)
(* over, unchanged; the first one is written before it leaves the queue;   *)
(* the data-process is told only of files that are stored; a file that     *)
(* leaves the queue otherwise is counted as lost, with all the others.     *)
(***************************************************************************)
EXTENDS Integers, Sequences

CONSTANTS Names, Contents

VARIABLES
  pending,   \* files handed over and not yet out of the queue
  stored,    \* what is on disk: name -> content
  told,      \* names the data-process was told
  lost       \* names of the files given up at the end

store == <<pending, stored, told, lost>>

Entries == [name : Names, data : Contents]

Init == pending = <<>> /\ stored = <<>> /\ told = {} /\ lost = {}

\* A file is handed over.
Put ==
  /\ Len(pending') = Len(pending) + 1
  /\ \A i \in 1 .. Len(pending) : pending'[i] = pending[i]
  /\ pending'[Len(pending')] \in Entries
  /\ UNCHANGED <<stored, told, lost>>

\* The first file is written, in place of one of the same name, and may leave at once
\* or later.
Store ==
  /\ pending # <<>>
  /\ stored' = [n \in DOMAIN stored \cup {Head(pending).name} |->
                  IF n = Head(pending).name THEN Head(pending).data ELSE stored[n]]
  /\ pending' \in {pending, Tail(pending)}
  /\ UNCHANGED <<told, lost>>

\* The first file leaves: it is stored.
Leave ==
  /\ pending # <<>> /\ Head(pending).name \in DOMAIN stored
  /\ stored[Head(pending).name] = Head(pending).data
  /\ pending' = Tail(pending)
  /\ UNCHANGED <<stored, told, lost>>

Tell ==
  /\ \E n \in DOMAIN stored : told' = told \cup {n}
  /\ UNCHANGED <<pending, stored, lost>>

\* The server ends with files it has not stored.
GiveUp ==
  /\ pending' = <<>>
  /\ lost' = {pending[i].name : i \in 1 .. Len(pending)}
  /\ UNCHANGED <<stored, told>>

Next == Put \/ Store \/ Leave \/ Tell \/ GiveUp

Spec == Init /\ [][Next]_store

=============================================================================

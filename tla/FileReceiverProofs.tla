------------------------- MODULE FileReceiverProofs -------------------------
(***************************************************************************)
(* First what holds for any traffic: type correctness, the safety of the   *)
(* writer's buffers and the order of the messages. From that, that a       *)
(* session implements FileStore. Last, with a client that keeps to the     *)
(* protocol, that what is stored is what was sent.                         *)
(*                                                                         *)
(* IInv strengthens the first results until every step preserves it:       *)
(*   - QueuedAreFull is why DataArrive cannot touch a queued file: it only *)
(*     writes at offsets from rcvsize on, and those lie past filesize;     *)
(*   - DataHasBuffer and CloseIsLast are why no handler meets a null       *)
(*     pointer: the io thread posts NETWORK_CLOSE last and then stops.     *)
(***************************************************************************)
EXTENDS FileReceiver, TLAPS, SequenceTheorems

\* While the client transfers a file it knows which.
ClientHasFile == cli \in {"wait_ready", "sending", "wait_done"} => cfile \in Files

\* save_first works on a queue that is not empty.
SavingFirst == wpc = "save" => fwq # <<>> /\ saving \in Buffers

\* Lookup finds newlines only in a buffer that has been filled.
LookupHasBytes == pos # 0 => rbuf # <<>>

\* Before the first fileinfo, nothing can ask for fileptr_.
DataHasBuffer ==
  fileptr = NoBuf =>
    /\ state = "WAITING"
    /\ mpc \notin {"complete", "notify", "write", "settle"}
    /\ iopc \notin {"data", "post_complete"}
    /\ \A i \in 1 .. Len(mq) : mq[i] # "RECEIVE_COMPLETE"

\* A file that is queued has all its bytes, so DataArrive writes past them.
QueuedAreFull == fileptr \in Held => brcv[fileptr] >= bsize[fileptr]

\* NETWORK_CLOSE is the last message of a session.
CloseIsLast ==
  /\ \A i \in 1 .. Len(mq) :
        mq[i] = "NETWORK_CLOSE" => i = Len(mq) /\ iopc \in {"done", "dead"}
  /\ mpc = "close" => mq = <<>> /\ iopc \in {"done", "dead"}
  /\ ~tcpptr => mq = <<>> /\ iopc \in {"done", "dead"} /\ mpc \in {"receive", "dead"}

IInv ==
  /\ TypeOK /\ ClientHasFile /\ SavingFirst /\ LookupHasBytes
  /\ DataHasBuffer /\ QueuedAreFull /\ CloseIsLast /\ NoNullPointer

-----------------------------------------------------------------------------
(* Streams                                                                 *)

\* A stream of one element is empty when that is taken from it.
LEMMA OneElement ==
  ASSUME NEW S, NEW s \in Seq(S), Len(s) = 1
  PROVE  s # <<>> /\ Tail(s) = <<>> /\ Head(s) = s[1]
<1>1. s # <<>>
  OBVIOUS
<1>2. Head(s) = s[1]
  BY <1>1
<1>3. Tail(s) \in Seq(S) /\ Len(Tail(s)) = 0
  BY <1>1
<1>4. \A t \in Seq(S) : Len(t) = 0 => t = <<>>
  OBVIOUS
<1>5. QED
  BY <1>1, <1>2, <1>3, <1>4

LEMMA NoneAfterFirst == 2 .. 1 = {}
  OBVIOUS

USE SizeAssumption, BufferAssumption, FileAssumption, PackAssumption, QueueAssumption
USE DEF client, net, io, msg, bufs, writer

-----------------------------------------------------------------------------
(* Sequences                                                               *)

\* Cutting a stream after n units leaves two streams.
LEMMA CutTypes ==
  ASSUME NEW S, NEW s \in Seq(S), NEW n \in Nat, n >= 1, n <= Len(s)
  PROVE  /\ SubSeq(s, 1, n) \in Seq(S) /\ SubSeq(s, 1, n) # <<>>
         /\ SubSeq(s, n + 1, Len(s)) \in Seq(S)
  OBVIOUS

\* What a queue holds after a push and after a pop.
LEMMA RangeOfAppend ==
  ASSUME NEW S, NEW s \in Seq(S), NEW e \in S
  PROVE  RangeOf(Append(s, e)) \subseteq RangeOf(s) \cup {e}
  BY DEF RangeOf

LEMMA RangeOfPop ==
  ASSUME NEW S, NEW s \in Seq(S), s # <<>>
  PROVE  Head(s) \in RangeOf(s) /\ Head(s) \in S /\ RangeOf(Tail(s)) \subseteq RangeOf(s)
  BY DEF RangeOf

LEMMA RangeOfType ==
  ASSUME NEW S, NEW s \in Seq(S)
  PROVE  RangeOf(s) \subseteq S
  BY DEF RangeOf

-----------------------------------------------------------------------------
(* Every step preserves IInv                                               *)

LEMMA ClientOfferKeeps == ASSUME IInv, \E f \in Files : ClientOffer(f) PROVE IInv'
<1>0. PICK f \in Files : ClientOffer(f)
  OBVIOUS
<1>1. ControlTypeOK' /\ BufferTypeOK' /\ DiskTypeOK' /\ SavingFirst' /\
     LookupHasBytes' /\ DataHasBuffer' /\ QueuedAreFull' /\ CloseIsLast' /\
     NoNullPointer'
  BY <1>0 DEF IInv, TypeOK, ControlTypeOK, BufferTypeOK, DiskTypeOK, SavingFirst,
       LookupHasBytes, DataHasBuffer, QueuedAreFull, CloseIsLast, NoNullPointer,
       ClientOffer, Held, RangeOf
<1>2. ClientTypeOK'
  BY <1>0 DEF IInv, TypeOK, ClientTypeOK, ClientOffer
<1>3. StreamTypeOK'
  BY <1>0 DEF IInv, TypeOK, StreamTypeOK, ClientOffer, Units, InfoBody, Newline
<1>4. ClientHasFile'
  BY <1>0 DEF IInv, ClientHasFile, ClientOffer
<1>5. QED
  BY <1>1, <1>2, <1>3, <1>4 DEF IInv, TypeOK

LEMMA ClientHeartbeatKeeps == ASSUME IInv, ClientHeartbeat PROVE IInv'
<1>1. ControlTypeOK' /\ BufferTypeOK' /\ DiskTypeOK' /\ ClientHasFile' /\
     SavingFirst' /\ LookupHasBytes' /\ DataHasBuffer' /\ QueuedAreFull' /\
     CloseIsLast' /\ NoNullPointer'
  BY DEF IInv, TypeOK, ControlTypeOK, BufferTypeOK, DiskTypeOK, ClientHasFile,
       SavingFirst, LookupHasBytes, DataHasBuffer, QueuedAreFull, CloseIsLast,
       NoNullPointer, ClientHeartbeat, Held, RangeOf
<1>2. ClientTypeOK'
  BY DEF IInv, TypeOK, ClientTypeOK, ClientHeartbeat
<1>3. StreamTypeOK'
  BY DEF IInv, TypeOK, StreamTypeOK, ClientHeartbeat, Units, StatBody, Newline
<1>4. QED
  BY <1>1, <1>2, <1>3 DEF IInv, TypeOK

LEMMA ClientSendDataKeeps == ASSUME IInv, ClientSendData PROVE IInv'
<1>1. ControlTypeOK' /\ BufferTypeOK' /\ DiskTypeOK' /\ SavingFirst' /\
     LookupHasBytes' /\ DataHasBuffer' /\ QueuedAreFull' /\ CloseIsLast' /\
     NoNullPointer'
  BY DEF IInv, TypeOK, ControlTypeOK, BufferTypeOK, DiskTypeOK, SavingFirst,
       LookupHasBytes, DataHasBuffer, QueuedAreFull, CloseIsLast, NoNullPointer,
       ClientSendData, Held, RangeOf
<1>2. ClientTypeOK'
  BY DEF IInv, TypeOK, ClientTypeOK, ClientSendData
<1>3. StreamTypeOK'
  BY DEF IInv, TypeOK, StreamTypeOK, ClientSendData, Units, Data, ClientHasFile,
       ClientTypeOK
<1>4. ClientHasFile'
  BY DEF IInv, ClientHasFile, ClientSendData
<1>5. QED
  BY <1>1, <1>2, <1>3, <1>4 DEF IInv, TypeOK

LEMMA ClientReceiveKeeps == ASSUME IInv, ClientReceive PROVE IInv'
<1>1. ControlTypeOK' /\ BufferTypeOK' /\ DiskTypeOK' /\ SavingFirst' /\
     LookupHasBytes' /\ DataHasBuffer' /\ QueuedAreFull' /\ CloseIsLast' /\
     NoNullPointer'
  BY DEF IInv, TypeOK, ControlTypeOK, BufferTypeOK, DiskTypeOK, SavingFirst,
       LookupHasBytes, DataHasBuffer, QueuedAreFull, CloseIsLast, NoNullPointer,
       ClientReceive, Held, RangeOf
<1>2. ClientTypeOK'
  BY DEF IInv, TypeOK, ClientTypeOK, ClientReceive, ClientHasFile
<1>3. StreamTypeOK'
  BY DEF IInv, TypeOK, StreamTypeOK, ClientReceive, States
<1>4. ClientHasFile'
  BY DEF IInv, ClientHasFile, ClientReceive
<1>5. QED
  BY <1>1, <1>2, <1>3, <1>4 DEF IInv, TypeOK

LEMMA ClientCloseKeeps == ASSUME IInv, ClientClose PROVE IInv'
<1>1. StreamTypeOK' /\ ControlTypeOK' /\ BufferTypeOK' /\ DiskTypeOK'
  BY DEF IInv, TypeOK, StreamTypeOK, ControlTypeOK, BufferTypeOK, DiskTypeOK,
       ClientClose
<1>2. SavingFirst' /\ LookupHasBytes' /\ DataHasBuffer' /\ QueuedAreFull' /\
     CloseIsLast' /\ NoNullPointer'
  BY DEF IInv, SavingFirst, LookupHasBytes, DataHasBuffer, QueuedAreFull,
       CloseIsLast, NoNullPointer, ClientClose, Held, RangeOf
<1>3. ClientTypeOK'
  BY DEF IInv, TypeOK, ClientTypeOK, ClientClose
<1>4. ClientHasFile'
  BY DEF IInv, ClientHasFile, ClientClose
<1>5. QED
  BY <1>1, <1>2, <1>3, <1>4 DEF IInv, TypeOK

LEMMA IoReadKeeps == ASSUME IInv, \E n \in 1 .. PackSize : IoRead(n) PROVE IInv'
<1>0. PICK n \in 1 .. PackSize : IoRead(n)
  OBVIOUS
<1>1. ClientTypeOK' /\ BufferTypeOK' /\ DiskTypeOK' /\ ClientHasFile' /\
     SavingFirst' /\ QueuedAreFull' /\ NoNullPointer'
  BY <1>0 DEF IInv, TypeOK, ClientTypeOK, BufferTypeOK, DiskTypeOK, ClientHasFile,
       SavingFirst, QueuedAreFull, NoNullPointer, IoRead, Held, RangeOf
<1>2. StreamTypeOK'
  BY <1>0, CutTypes DEF IInv, TypeOK, StreamTypeOK, IoRead, Units
<1>3. ControlTypeOK'
  BY <1>0 DEF IInv, TypeOK, ControlTypeOK, IoRead, IoPcs, PostPcs
<1>4. LookupHasBytes'
  <2>1. c2s \in Seq(Units) /\ n \in Nat /\ n >= 1 /\ n <= Len(c2s)
    BY <1>0 DEF IInv, TypeOK, StreamTypeOK, IoRead
  <2>2. SubSeq(c2s, 1, n) # <<>>
    BY <2>1, CutTypes
  <2>3. QED
    BY <1>0, <2>2 DEF LookupHasBytes, IoRead
<1>5. DataHasBuffer'
  BY <1>0 DEF IInv, TypeOK, DataHasBuffer, IoRead, ControlTypeOK, StreamTypeOK
<1>6. CloseIsLast'
  BY <1>0 DEF IInv, TypeOK, CloseIsLast, IoRead, ControlTypeOK, StreamTypeOK
<1>7. QED
  BY <1>1, <1>2, <1>3, <1>4, <1>5, <1>6 DEF IInv, TypeOK

LEMMA IoErrorKeeps == ASSUME IInv, IoError PROVE IInv'
<1>1. ClientTypeOK' /\ StreamTypeOK' /\ BufferTypeOK' /\ DiskTypeOK'
  BY DEF IInv, TypeOK, ClientTypeOK, StreamTypeOK, BufferTypeOK, DiskTypeOK, IoError
<1>2. ClientHasFile' /\ SavingFirst' /\ LookupHasBytes' /\ QueuedAreFull' /\
     NoNullPointer'
  BY DEF IInv, ClientHasFile, SavingFirst, LookupHasBytes, QueuedAreFull,
       NoNullPointer, IoError, Held, RangeOf
<1>3. ControlTypeOK'
  BY DEF IInv, TypeOK, ControlTypeOK, IoError, IoPcs, PostPcs
<1>4. DataHasBuffer'
  BY DEF IInv, TypeOK, DataHasBuffer, IoError, ControlTypeOK, StreamTypeOK
<1>5. CloseIsLast'
  BY DEF IInv, TypeOK, CloseIsLast, IoError, ControlTypeOK, StreamTypeOK
<1>6. QED
  BY <1>1, <1>2, <1>3, <1>4, <1>5 DEF IInv, TypeOK

LEMMA IoCheckReadyKeeps == ASSUME IInv, IoCheckReady PROVE IInv'
<1>1. ClientTypeOK' /\ StreamTypeOK' /\ BufferTypeOK' /\ DiskTypeOK'
  BY DEF IInv, TypeOK, ClientTypeOK, StreamTypeOK, BufferTypeOK, DiskTypeOK,
       IoCheckReady
<1>2. ClientHasFile' /\ SavingFirst' /\ LookupHasBytes' /\ QueuedAreFull' /\
     NoNullPointer'
  BY DEF IInv, ClientHasFile, SavingFirst, LookupHasBytes, QueuedAreFull,
       NoNullPointer, IoCheckReady, Held, RangeOf
<1>3. ControlTypeOK'
  BY DEF IInv, TypeOK, ControlTypeOK, IoCheckReady, IoPcs, PostPcs
<1>4. DataHasBuffer'
  BY DEF IInv, TypeOK, DataHasBuffer, IoCheckReady, ControlTypeOK, StreamTypeOK
<1>5. CloseIsLast'
  BY DEF IInv, TypeOK, CloseIsLast, IoCheckReady, ControlTypeOK, StreamTypeOK
<1>6. QED
  BY <1>1, <1>2, <1>3, <1>4, <1>5 DEF IInv, TypeOK

LEMMA IoCheckWaitingKeeps == ASSUME IInv, IoCheckWaiting PROVE IInv'
<1>1. ClientTypeOK' /\ StreamTypeOK' /\ BufferTypeOK' /\ DiskTypeOK'
  BY DEF IInv, TypeOK, ClientTypeOK, StreamTypeOK, BufferTypeOK, DiskTypeOK,
       IoCheckWaiting
<1>2. ClientHasFile' /\ SavingFirst' /\ LookupHasBytes' /\ QueuedAreFull' /\
     NoNullPointer'
  BY DEF IInv, ClientHasFile, SavingFirst, LookupHasBytes, QueuedAreFull,
       NoNullPointer, IoCheckWaiting, Held, RangeOf
<1>3. ControlTypeOK'
  BY DEF IInv, TypeOK, ControlTypeOK, IoCheckWaiting, IoPcs, PostPcs
<1>4. DataHasBuffer'
  BY DEF IInv, TypeOK, DataHasBuffer, IoCheckWaiting, ControlTypeOK, StreamTypeOK
<1>5. CloseIsLast'
  BY DEF IInv, TypeOK, CloseIsLast, IoCheckWaiting, ControlTypeOK, StreamTypeOK
<1>6. QED
  BY <1>1, <1>2, <1>3, <1>4, <1>5 DEF IInv, TypeOK

LEMMA IoDataKeeps == ASSUME IInv, IoData PROVE IInv'
<1>1. ClientTypeOK' /\ StreamTypeOK' /\ DiskTypeOK' /\ ClientHasFile' /\
     LookupHasBytes'
  BY DEF IInv, TypeOK, ClientTypeOK, StreamTypeOK, DiskTypeOK, ClientHasFile,
       LookupHasBytes, IoData
<1>2. ControlTypeOK'
  BY DEF IInv, TypeOK, ControlTypeOK, IoData, Terminate, Lines, IoPcs, PostPcs,
       MsgPcs, DataArrive, Garbage
<1>3. BufferTypeOK'
  <2>1. CASE fileptr = NoBuf \/ ~tcpptr
    BY <2>1 DEF IInv, TypeOK, BufferTypeOK, IoData
  <2>2. CASE ~(fileptr = NoBuf \/ ~tcpptr)
    <3>1. fileptr \in Buffers /\ DataArrive(fileptr) /\ rbuf \in Seq(Units)
      BY <2>2 DEF IInv, TypeOK, BufferTypeOK, StreamTypeOK, IoData
    <3>2. brcv[fileptr] \in Nat /\ bsize[fileptr] \in Nat
      BY <3>1 DEF IInv, TypeOK, BufferTypeOK
    <3>3. brcv' \in [Buffers -> Nat]
      BY <3>1, <3>2 DEF IInv, TypeOK, BufferTypeOK, DataArrive
    <3>4. /\ bdata' = [b \in Buffers |-> bdata'[b]]
          /\ \A b \in Buffers \ {fileptr} : bdata'[b] = bdata[b]
      BY <3>1 DEF IInv, TypeOK, BufferTypeOK, DataArrive
    <3>5. bdata'[fileptr] \in [1 .. bsize[fileptr] -> Units]
      <4>1. bdata'[fileptr] =
              [i \in 1 .. bsize[fileptr] |->
                 IF i > brcv[fileptr] /\ i <= brcv[fileptr] + Len(rbuf)
                 THEN rbuf[i - brcv[fileptr]] ELSE bdata[fileptr][i]]
        BY <3>1 DEF IInv, TypeOK, BufferTypeOK, DataArrive
      <4>2. \A i \in 1 .. bsize[fileptr] :
              (i > brcv[fileptr] /\ i <= brcv[fileptr] + Len(rbuf))
                => rbuf[i - brcv[fileptr]] \in Units
        BY <3>1, <3>2
      <4>3. \A i \in 1 .. bsize[fileptr] : bdata[fileptr][i] \in Units
        BY <3>1 DEF IInv, TypeOK, BufferTypeOK
      <4>4. QED
        BY <4>1, <4>2, <4>3
    <3>6. UNCHANGED <<fileptr, saving, fwq, bname, bsize>>
      BY DEF IoData
    <3>7. \A b \in Buffers : bdata'[b] \in [1 .. bsize'[b] -> Units]
      BY <3>4, <3>5, <3>6 DEF IInv, TypeOK, BufferTypeOK
    <3>8. QED
      BY <3>3, <3>4, <3>6, <3>7 DEF IInv, TypeOK, BufferTypeOK
  <2>3. QED
    BY <2>1, <2>2
<1>4. SavingFirst'
  BY DEF IInv, SavingFirst, IoData, Terminate
<1>5. DataHasBuffer'
  BY DEF IInv, TypeOK, DataHasBuffer, IoData, ControlTypeOK, StreamTypeOK,
       Terminate, DataArrive
<1>6. QueuedAreFull'
  BY RangeOfType DEF IInv, TypeOK, QueuedAreFull, IoData, BufferTypeOK, Terminate,
       DataArrive, StreamTypeOK, Held
<1>7. CloseIsLast'
  BY DEF IInv, TypeOK, CloseIsLast, IoData, ControlTypeOK, StreamTypeOK, Terminate,
       DataArrive
<1>8. NoNullPointer'
  BY DEF IInv, NoNullPointer, IoData, Terminate, CloseIsLast, DataHasBuffer
<1>9. QED
  BY <1>1, <1>2, <1>3, <1>4, <1>5, <1>6, <1>7, <1>8 DEF IInv, TypeOK

LEMMA IoPostKeeps == ASSUME IInv, IoPost PROVE IInv'
<1>1. ClientTypeOK' /\ BufferTypeOK' /\ DiskTypeOK' /\ ClientHasFile' /\
     SavingFirst' /\ LookupHasBytes' /\ QueuedAreFull' /\ NoNullPointer'
  BY DEF IInv, TypeOK, ClientTypeOK, BufferTypeOK, DiskTypeOK, ClientHasFile,
       SavingFirst, LookupHasBytes, QueuedAreFull, NoNullPointer, IoPost, Held,
       RangeOf
<1>2. StreamTypeOK'
  BY DEF IInv, TypeOK, StreamTypeOK, IoPost, Messages, Posted, PostPcs
<1>3. ControlTypeOK'
  BY DEF IInv, TypeOK, ControlTypeOK, IoPost, IoPcs, PostPcs
<1>4. DataHasBuffer'
  BY DEF IInv, TypeOK, DataHasBuffer, IoPost, ControlTypeOK, StreamTypeOK, Posted,
       PostPcs
<1>5. CloseIsLast'
  BY DEF IInv, TypeOK, CloseIsLast, IoPost, ControlTypeOK, StreamTypeOK, Posted,
       PostPcs
<1>6. QED
  BY <1>1, <1>2, <1>3, <1>4, <1>5 DEF IInv, TypeOK

LEMMA IoRearmKeeps == ASSUME IInv, IoRearm PROVE IInv'
<1>1. ClientTypeOK' /\ StreamTypeOK' /\ BufferTypeOK' /\ DiskTypeOK'
  BY DEF IInv, TypeOK, ClientTypeOK, StreamTypeOK, BufferTypeOK, DiskTypeOK, IoRearm
<1>2. ClientHasFile' /\ SavingFirst' /\ LookupHasBytes' /\ QueuedAreFull' /\
     NoNullPointer'
  BY DEF IInv, ClientHasFile, SavingFirst, LookupHasBytes, QueuedAreFull,
       NoNullPointer, IoRearm, Held, RangeOf
<1>3. ControlTypeOK'
  BY DEF IInv, TypeOK, ControlTypeOK, IoRearm, IoPcs, PostPcs
<1>4. DataHasBuffer'
  BY DEF IInv, TypeOK, DataHasBuffer, IoRearm, ControlTypeOK, StreamTypeOK
<1>5. CloseIsLast'
  BY DEF IInv, TypeOK, CloseIsLast, IoRearm, ControlTypeOK, StreamTypeOK
<1>6. QED
  BY <1>1, <1>2, <1>3, <1>4, <1>5 DEF IInv, TypeOK

LEMMA MsgReceiveKeeps == ASSUME IInv, MsgReceive PROVE IInv'
<1>1. ClientTypeOK' /\ BufferTypeOK' /\ DiskTypeOK' /\ ClientHasFile' /\
     LookupHasBytes' /\ QueuedAreFull'
  BY DEF IInv, TypeOK, ClientTypeOK, BufferTypeOK, DiskTypeOK, ClientHasFile,
       LookupHasBytes, QueuedAreFull, MsgReceive, Held, RangeOf
<1>2. StreamTypeOK'
  BY DEF IInv, TypeOK, StreamTypeOK, MsgReceive, Messages, Terminate
<1>3. ControlTypeOK'
  <2>1. Head(mq) \in Messages
    BY RangeOfPop DEF IInv, TypeOK, StreamTypeOK, MsgReceive
  <2>2. Handler(Head(mq)) \in {"lookup", "complete", "close"}
    BY <2>1 DEF Handler, Messages
  <2>3. QED
    BY <2>2 DEF IInv, TypeOK, ControlTypeOK, MsgReceive, Terminate, IoPcs, MsgPcs
<1>4. SavingFirst'
  BY DEF IInv, SavingFirst, MsgReceive, Terminate
<1>5. DataHasBuffer'
  <2>1. /\ mq \in Seq(Messages) /\ mq # <<>> /\ Head(mq) = mq[1]
        /\ Len(mq') = Len(mq) - 1 /\ Len(mq) \in Nat
        /\ \A i \in 1 .. Len(mq') : mq'[i] = mq[i + 1] /\ i + 1 \in 1 .. Len(mq)
    BY DEF IInv, TypeOK, StreamTypeOK, MsgReceive
  <2>2. fileptr = NoBuf => Head(mq) # "RECEIVE_COMPLETE"
    BY <2>1 DEF IInv, DataHasBuffer
  <2>3. Head(mq) \in Messages
    BY <2>1, RangeOfPop
  <2>4. Handler(Head(mq)) = "complete" <=> Head(mq) = "RECEIVE_COMPLETE"
    BY <2>3 DEF Handler, Messages
  <2>5. Handler(Head(mq)) \in {"lookup", "complete", "close"}
    BY <2>3 DEF Handler, Messages
  <2>6. QED
    BY <2>1, <2>2, <2>4, <2>5 DEF IInv, DataHasBuffer, MsgReceive, Terminate
<1>6. CloseIsLast'
  <2>1. /\ mq \in Seq(Messages) /\ mq # <<>> /\ Head(mq) = mq[1]
        /\ Len(mq') = Len(mq) - 1 /\ Len(mq) \in Nat /\ mq' \in Seq(Messages)
        /\ \A i \in 1 .. Len(mq') : mq'[i] = mq[i + 1] /\ i + 1 \in 1 .. Len(mq)
    BY DEF IInv, TypeOK, StreamTypeOK, MsgReceive
  <2>2. Head(mq) = "NETWORK_CLOSE" => mq' = <<>> /\ iopc \in {"done", "dead"}
    BY <2>1 DEF IInv, CloseIsLast
  <2>3. tcpptr
    BY <2>1 DEF IInv, CloseIsLast
  <2>4. Head(mq) \in Messages
    BY <2>1, RangeOfPop
  <2>5. Handler(Head(mq)) = "close" => Head(mq) = "NETWORK_CLOSE"
    BY <2>4 DEF Handler, Messages
  <2>6. iopc' = iopc /\ tcpptr' = tcpptr /\ mpc' = Handler(Head(mq))
    BY <2>3 DEF MsgReceive
  <2>7. QED
    BY <2>1, <2>2, <2>3, <2>5, <2>6 DEF IInv, CloseIsLast
<1>7. NoNullPointer'
  BY DEF IInv, NoNullPointer, MsgReceive, Terminate, CloseIsLast
<1>8. QED
  BY <1>1, <1>2, <1>3, <1>4, <1>5, <1>6, <1>7 DEF IInv, TypeOK

LEMMA MsgLookupKeeps == ASSUME IInv, \E p \in 0 .. PackSize : MsgLookup(p) PROVE IInv'
<1>0. PICK p \in 0 .. PackSize : MsgLookup(p)
  OBVIOUS
<1>1. ClientTypeOK' /\ BufferTypeOK' /\ DiskTypeOK' /\ ClientHasFile' /\
     SavingFirst' /\ QueuedAreFull' /\ NoNullPointer'
  BY <1>0 DEF IInv, TypeOK, ClientTypeOK, BufferTypeOK, DiskTypeOK, ClientHasFile,
       SavingFirst, QueuedAreFull, NoNullPointer, MsgLookup, Held, RangeOf
<1>2. StreamTypeOK'
  BY <1>0 DEF IInv, TypeOK, StreamTypeOK, MsgLookup
<1>3. ControlTypeOK'
  BY <1>0 DEF IInv, TypeOK, ControlTypeOK, MsgLookup, MsgPcs
<1>4. LookupHasBytes'
  BY <1>0 DEF IInv, LookupHasBytes, MsgLookup, Newlines, TypeOK, StreamTypeOK
<1>5. DataHasBuffer'
  BY <1>0 DEF IInv, TypeOK, DataHasBuffer, MsgLookup, ControlTypeOK, StreamTypeOK
<1>6. CloseIsLast'
  BY <1>0 DEF IInv, TypeOK, CloseIsLast, MsgLookup, ControlTypeOK, StreamTypeOK
<1>7. QED
  BY <1>1, <1>2, <1>3, <1>4, <1>5, <1>6 DEF IInv, TypeOK

LEMMA MsgReadKeeps == ASSUME IInv, MsgRead PROVE IInv'
<1>1. ClientTypeOK' /\ StreamTypeOK' /\ BufferTypeOK' /\ DiskTypeOK'
  BY DEF IInv, TypeOK, ClientTypeOK, StreamTypeOK, BufferTypeOK, DiskTypeOK, MsgRead
<1>2. ClientHasFile' /\ SavingFirst' /\ LookupHasBytes' /\ QueuedAreFull' /\
     NoNullPointer'
  BY DEF IInv, ClientHasFile, SavingFirst, LookupHasBytes, QueuedAreFull,
       NoNullPointer, MsgRead, Held, RangeOf
<1>3. ControlTypeOK'
  BY DEF IInv, TypeOK, ControlTypeOK, MsgRead, Lines, MsgPcs, LineRead,
       StreamTypeOK, LookupHasBytes, Info, Stat, Garbage, NoSize, Units, StatBody,
       Newline, Junk
<1>4. DataHasBuffer'
  BY DEF IInv, TypeOK, DataHasBuffer, MsgRead, ControlTypeOK, StreamTypeOK
<1>5. CloseIsLast'
  BY DEF IInv, TypeOK, CloseIsLast, MsgRead, ControlTypeOK, StreamTypeOK
<1>6. QED
  BY <1>1, <1>2, <1>3, <1>4, <1>5 DEF IInv, TypeOK

LEMMA MsgFileInfoKeeps == ASSUME IInv, \E b \in Buffers : MsgFileInfo(b) PROVE IInv'
<1>0. PICK b \in Buffers : MsgFileInfo(b)
  OBVIOUS
<1>1. ClientTypeOK' /\ StreamTypeOK' /\ DiskTypeOK' /\ ClientHasFile' /\
     SavingFirst' /\ LookupHasBytes' /\ NoNullPointer'
  BY <1>0 DEF IInv, TypeOK, ClientTypeOK, StreamTypeOK, DiskTypeOK, ClientHasFile,
       SavingFirst, LookupHasBytes, NoNullPointer, MsgFileInfo
<1>2. ControlTypeOK'
  BY <1>0 DEF IInv, TypeOK, ControlTypeOK, MsgFileInfo, MsgPcs, States
<1>3. BufferTypeOK'
  <2> DEFINE f == fbuf.f
             n == fbuf.size
  <2>1. f \in Files /\ n \in Nat /\ TakeBuffer(b, f, n)
    BY <1>0 DEF IInv, TypeOK, ControlTypeOK, MsgFileInfo, Lines, Stat, Garbage,
         NoSize
  <2> HIDE DEF f, n
  <2>2. UNCHANGED <<saving, fwq>>
    BY <1>0 DEF MsgFileInfo
  <2>3. /\ fileptr' = b /\ bname' \in [Buffers -> Files \cup {NoFile}]
        /\ bsize' \in [Buffers -> Nat] /\ brcv' \in [Buffers -> Nat]
        /\ bsize' = [bsize EXCEPT ![b] = n]
    BY <1>0, <2>1 DEF IInv, TypeOK, BufferTypeOK, TakeBuffer
  <2>4. CASE NeedsNew(n)
    <3>1. bdata' = [bdata EXCEPT ![b] = [i \in 1 .. n |-> Junk]]
      BY <2>1, <2>4 DEF TakeBuffer
    <3>2. [i \in 1 .. n |-> Junk] \in [1 .. n -> Units]
      BY DEF Units
    <3>3. /\ bdata' = [c \in Buffers |-> bdata'[c]]
          /\ bdata'[b] = [i \in 1 .. n |-> Junk] /\ bsize'[b] = n
          /\ \A c \in Buffers \ {b} : bdata'[c] = bdata[c] /\ bsize'[c] = bsize[c]
      BY <1>0, <2>3, <3>1 DEF IInv, TypeOK, BufferTypeOK
    <3>4. \A c \in Buffers : bdata'[c] \in [1 .. bsize'[c] -> Units]
      BY <3>2, <3>3 DEF IInv, TypeOK, BufferTypeOK
    <3>5. QED
      BY <1>0, <2>2, <2>3, <3>3, <3>4 DEF IInv, TypeOK, BufferTypeOK
  <2>5. CASE ~NeedsNew(n)
    <3>1. bdata' = bdata /\ b = fileptr /\ bsize[b] = n
      BY <2>1, <2>5 DEF TakeBuffer, NeedsNew
    <3>2. bsize' = bsize
      BY <1>0, <2>3, <3>1 DEF IInv, TypeOK, BufferTypeOK
    <3>3. QED
      BY <1>0, <2>2, <2>3, <3>1, <3>2 DEF IInv, TypeOK, BufferTypeOK
  <2>6. QED
    BY <2>4, <2>5
<1>4. DataHasBuffer'
  BY <1>0 DEF IInv, TypeOK, DataHasBuffer, MsgFileInfo, ControlTypeOK, StreamTypeOK,
       TakeBuffer
<1>5. QueuedAreFull'
  BY <1>0, RangeOfType DEF IInv, TypeOK, QueuedAreFull, MsgFileInfo, BufferTypeOK,
       TakeBuffer, NeedsNew, InUse, ControlTypeOK, Lines, Held
<1>6. CloseIsLast'
  BY <1>0 DEF IInv, TypeOK, CloseIsLast, MsgFileInfo, ControlTypeOK, StreamTypeOK
<1>7. QED
  BY <1>1, <1>2, <1>3, <1>4, <1>5, <1>6 DEF IInv, TypeOK

LEMMA MsgFileStatKeeps == ASSUME IInv, MsgFileStat PROVE IInv'
<1>1. ClientTypeOK' /\ StreamTypeOK' /\ BufferTypeOK' /\ DiskTypeOK'
  BY DEF IInv, TypeOK, ClientTypeOK, StreamTypeOK, BufferTypeOK, DiskTypeOK,
       MsgFileStat
<1>2. ClientHasFile' /\ SavingFirst' /\ LookupHasBytes' /\ QueuedAreFull' /\
     NoNullPointer'
  BY DEF IInv, ClientHasFile, SavingFirst, LookupHasBytes, QueuedAreFull,
       NoNullPointer, MsgFileStat, Held, RangeOf
<1>3. ControlTypeOK'
  BY DEF IInv, TypeOK, ControlTypeOK, MsgFileStat, MsgPcs
<1>4. DataHasBuffer'
  BY DEF IInv, TypeOK, DataHasBuffer, MsgFileStat, ControlTypeOK, StreamTypeOK
<1>5. CloseIsLast'
  BY DEF IInv, TypeOK, CloseIsLast, MsgFileStat, ControlTypeOK, StreamTypeOK
<1>6. QED
  BY <1>1, <1>2, <1>3, <1>4, <1>5 DEF IInv, TypeOK

LEMMA MsgWrongKeeps == ASSUME IInv, MsgWrong PROVE IInv'
<1>1. ClientTypeOK' /\ BufferTypeOK' /\ DiskTypeOK' /\ ClientHasFile' /\
     SavingFirst' /\ LookupHasBytes' /\ QueuedAreFull' /\ NoNullPointer'
  BY DEF IInv, TypeOK, ClientTypeOK, BufferTypeOK, DiskTypeOK, ClientHasFile,
       SavingFirst, LookupHasBytes, QueuedAreFull, NoNullPointer, MsgWrong, Held,
       RangeOf
<1>2. StreamTypeOK'
  BY DEF IInv, TypeOK, StreamTypeOK, MsgWrong
<1>3. ControlTypeOK'
  BY DEF IInv, TypeOK, ControlTypeOK, MsgWrong, MsgPcs
<1>4. DataHasBuffer'
  BY DEF IInv, TypeOK, DataHasBuffer, MsgWrong, ControlTypeOK, StreamTypeOK
<1>5. CloseIsLast'
  BY DEF IInv, TypeOK, CloseIsLast, MsgWrong, ControlTypeOK, StreamTypeOK
<1>6. QED
  BY <1>1, <1>2, <1>3, <1>4, <1>5 DEF IInv, TypeOK

LEMMA MsgBadSizeKeeps == ASSUME IInv, MsgBadSize PROVE IInv'
<1>1. ClientTypeOK' /\ StreamTypeOK' /\ BufferTypeOK' /\ DiskTypeOK'
  BY DEF IInv, TypeOK, ClientTypeOK, StreamTypeOK, BufferTypeOK, DiskTypeOK,
       MsgBadSize
<1>2. ClientHasFile' /\ LookupHasBytes' /\ QueuedAreFull'
  BY DEF IInv, ClientHasFile, LookupHasBytes, QueuedAreFull, MsgBadSize, Held,
       RangeOf
<1>3. ControlTypeOK'
  BY DEF IInv, TypeOK, ControlTypeOK, MsgBadSize, Terminate, IoPcs, PostPcs, MsgPcs
<1>4. SavingFirst'
  BY DEF IInv, SavingFirst, MsgBadSize, Terminate
<1>5. DataHasBuffer'
  BY DEF IInv, TypeOK, DataHasBuffer, MsgBadSize, ControlTypeOK, StreamTypeOK,
       Terminate
<1>6. CloseIsLast'
  BY DEF IInv, TypeOK, CloseIsLast, MsgBadSize, ControlTypeOK, StreamTypeOK,
       Terminate
<1>7. NoNullPointer'
  BY DEF IInv, NoNullPointer, MsgBadSize, Terminate
<1>8. QED
  BY <1>1, <1>2, <1>3, <1>4, <1>5, <1>6, <1>7 DEF IInv, TypeOK

LEMMA MsgCompleteKeeps == ASSUME IInv, MsgComplete PROVE IInv'
<1>1. ClientTypeOK' /\ StreamTypeOK' /\ ClientHasFile' /\ LookupHasBytes' /\
     NoNullPointer'
  BY DEF IInv, TypeOK, ClientTypeOK, StreamTypeOK, ClientHasFile, LookupHasBytes,
       NoNullPointer, MsgComplete
<1>2. ControlTypeOK'
  BY DEF IInv, TypeOK, ControlTypeOK, MsgComplete, MsgPcs, States
<1>3. BufferTypeOK'
  <2>1. fileptr \in Buffers /\ fwq \in Seq(Buffers)
    BY DEF IInv, TypeOK, BufferTypeOK, DataHasBuffer, MsgComplete
  <2>2. fwq' = fwq \/ fwq' = Append(fwq, fileptr)
    BY DEF MsgComplete
  <2>3. Append(fwq, fileptr) \in Seq(Buffers)
    BY <2>1
  <2>4. fwq' \in Seq(Buffers)
    BY <2>1, <2>2, <2>3
  <2>5. QED
    BY <2>4 DEF IInv, TypeOK, BufferTypeOK, MsgComplete
<1>4. DiskTypeOK'
  BY DEF IInv, TypeOK, DiskTypeOK, MsgComplete, DataHasBuffer, BufferTypeOK
<1>5. SavingFirst'
  BY DEF IInv, SavingFirst, MsgComplete
<1>6. DataHasBuffer'
  BY DEF IInv, TypeOK, DataHasBuffer, MsgComplete, ControlTypeOK, StreamTypeOK
<1>7. QueuedAreFull'
  BY RangeOfAppend, RangeOfType DEF IInv, TypeOK, QueuedAreFull, MsgComplete,
       BufferTypeOK, DataHasBuffer, Held
<1>8. CloseIsLast'
  BY DEF IInv, TypeOK, CloseIsLast, MsgComplete, ControlTypeOK, StreamTypeOK
<1>9. QED
  BY <1>1, <1>2, <1>3, <1>4, <1>5, <1>6, <1>7, <1>8 DEF IInv, TypeOK

LEMMA MsgNotifyKeeps == ASSUME IInv, MsgNotify PROVE IInv'
<1>1. ClientTypeOK' /\ StreamTypeOK' /\ BufferTypeOK' /\ DiskTypeOK'
  BY DEF IInv, TypeOK, ClientTypeOK, StreamTypeOK, BufferTypeOK, DiskTypeOK,
       MsgNotify
<1>2. ClientHasFile' /\ SavingFirst' /\ LookupHasBytes' /\ QueuedAreFull' /\
     NoNullPointer'
  BY DEF IInv, ClientHasFile, SavingFirst, LookupHasBytes, QueuedAreFull,
       NoNullPointer, MsgNotify, Held, RangeOf
<1>3. ControlTypeOK'
  BY DEF IInv, TypeOK, ControlTypeOK, MsgNotify, MsgPcs, States
<1>4. DataHasBuffer'
  BY DEF IInv, TypeOK, DataHasBuffer, MsgNotify, ControlTypeOK, StreamTypeOK
<1>5. CloseIsLast'
  BY DEF IInv, TypeOK, CloseIsLast, MsgNotify, ControlTypeOK, StreamTypeOK
<1>6. QED
  BY <1>1, <1>2, <1>3, <1>4, <1>5 DEF IInv, TypeOK

LEMMA MsgWriteKeeps == ASSUME IInv, MsgWrite PROVE IInv'
<1>1. ClientTypeOK' /\ BufferTypeOK' /\ DiskTypeOK' /\ ClientHasFile' /\
     SavingFirst' /\ LookupHasBytes' /\ QueuedAreFull' /\ NoNullPointer'
  BY DEF IInv, TypeOK, ClientTypeOK, BufferTypeOK, DiskTypeOK, ClientHasFile,
       SavingFirst, LookupHasBytes, QueuedAreFull, NoNullPointer, MsgWrite, Held,
       RangeOf
<1>2. StreamTypeOK'
  BY DEF IInv, TypeOK, StreamTypeOK, MsgWrite, States, ControlTypeOK
<1>3. ControlTypeOK'
  BY DEF IInv, TypeOK, ControlTypeOK, MsgWrite, MsgPcs, AfterWrite
<1>4. DataHasBuffer'
  BY DEF IInv, TypeOK, DataHasBuffer, MsgWrite, ControlTypeOK, StreamTypeOK,
       AfterWrite
<1>5. CloseIsLast'
  BY DEF IInv, TypeOK, CloseIsLast, MsgWrite, ControlTypeOK, StreamTypeOK,
       AfterWrite
<1>6. QED
  BY <1>1, <1>2, <1>3, <1>4, <1>5 DEF IInv, TypeOK

LEMMA MsgWriteThrowsKeeps == ASSUME IInv, MsgWriteThrows PROVE IInv'
<1>1. ClientTypeOK' /\ StreamTypeOK' /\ BufferTypeOK' /\ DiskTypeOK'
  BY DEF IInv, TypeOK, ClientTypeOK, StreamTypeOK, BufferTypeOK, DiskTypeOK,
       MsgWriteThrows
<1>2. ClientHasFile' /\ LookupHasBytes' /\ QueuedAreFull'
  BY DEF IInv, ClientHasFile, LookupHasBytes, QueuedAreFull, MsgWriteThrows, Held,
       RangeOf
<1>3. ControlTypeOK'
  BY DEF IInv, TypeOK, ControlTypeOK, MsgWriteThrows, Terminate, IoPcs, PostPcs,
       MsgPcs
<1>4. SavingFirst'
  BY DEF IInv, SavingFirst, MsgWriteThrows, Terminate
<1>5. DataHasBuffer'
  BY DEF IInv, TypeOK, DataHasBuffer, MsgWriteThrows, ControlTypeOK, StreamTypeOK,
       Terminate
<1>6. CloseIsLast'
  BY DEF IInv, TypeOK, CloseIsLast, MsgWriteThrows, ControlTypeOK, StreamTypeOK,
       Terminate
<1>7. NoNullPointer'
  BY DEF IInv, NoNullPointer, MsgWriteThrows, Terminate
<1>8. QED
  BY <1>1, <1>2, <1>3, <1>4, <1>5, <1>6, <1>7 DEF IInv, TypeOK

LEMMA MsgSettleKeeps == ASSUME IInv, MsgSettle PROVE IInv'
<1>1. ClientTypeOK' /\ StreamTypeOK' /\ BufferTypeOK' /\ DiskTypeOK'
  BY DEF IInv, TypeOK, ClientTypeOK, StreamTypeOK, BufferTypeOK, DiskTypeOK,
       MsgSettle
<1>2. ClientHasFile' /\ SavingFirst' /\ LookupHasBytes' /\ QueuedAreFull' /\
     NoNullPointer'
  BY DEF IInv, ClientHasFile, SavingFirst, LookupHasBytes, QueuedAreFull,
       NoNullPointer, MsgSettle, Held, RangeOf
<1>3. ControlTypeOK'
  BY DEF IInv, TypeOK, ControlTypeOK, MsgSettle, MsgPcs, States
<1>4. DataHasBuffer'
  BY DEF IInv, TypeOK, DataHasBuffer, MsgSettle, ControlTypeOK, StreamTypeOK
<1>5. CloseIsLast'
  BY DEF IInv, TypeOK, CloseIsLast, MsgSettle, ControlTypeOK, StreamTypeOK
<1>6. QED
  BY <1>1, <1>2, <1>3, <1>4, <1>5 DEF IInv, TypeOK

LEMMA MsgCloseKeeps == ASSUME IInv, MsgClose PROVE IInv'
<1>1. ClientTypeOK' /\ BufferTypeOK' /\ DiskTypeOK' /\ ClientHasFile' /\
     SavingFirst' /\ LookupHasBytes' /\ QueuedAreFull' /\ NoNullPointer'
  BY DEF IInv, TypeOK, ClientTypeOK, BufferTypeOK, DiskTypeOK, ClientHasFile,
       SavingFirst, LookupHasBytes, QueuedAreFull, NoNullPointer, MsgClose, Held,
       RangeOf
<1>2. StreamTypeOK'
  BY DEF IInv, TypeOK, StreamTypeOK, MsgClose
<1>3. ControlTypeOK'
  BY DEF IInv, TypeOK, ControlTypeOK, MsgClose, MsgPcs
<1>4. DataHasBuffer'
  BY DEF IInv, TypeOK, DataHasBuffer, MsgClose, ControlTypeOK, StreamTypeOK
<1>5. CloseIsLast'
  BY DEF IInv, TypeOK, CloseIsLast, MsgClose, ControlTypeOK, StreamTypeOK
<1>6. QED
  BY <1>1, <1>2, <1>3, <1>4, <1>5 DEF IInv, TypeOK

LEMMA WriterStartKeeps == ASSUME IInv, WriterStart PROVE IInv'
<1>1. ClientTypeOK' /\ StreamTypeOK' /\ BufferTypeOK' /\ DiskTypeOK'
  BY DEF IInv, TypeOK, ClientTypeOK, StreamTypeOK, BufferTypeOK, DiskTypeOK,
       WriterStart
<1>2. ClientHasFile' /\ LookupHasBytes' /\ DataHasBuffer' /\ QueuedAreFull' /\
     CloseIsLast' /\ NoNullPointer'
  BY DEF IInv, ClientHasFile, LookupHasBytes, DataHasBuffer, QueuedAreFull,
       CloseIsLast, NoNullPointer, WriterStart, Held, RangeOf
<1>3. ControlTypeOK'
  BY DEF IInv, TypeOK, ControlTypeOK, WriterStart
<1>4. SavingFirst'
  BY DEF IInv, SavingFirst, WriterStart
<1>5. QED
  BY <1>1, <1>2, <1>3, <1>4 DEF IInv, TypeOK

LEMMA SaveBeginKeeps == ASSUME IInv, SaveBegin PROVE IInv'
<1>1. ClientTypeOK' /\ StreamTypeOK' /\ DiskTypeOK' /\ ClientHasFile' /\
     LookupHasBytes' /\ DataHasBuffer' /\ CloseIsLast' /\ NoNullPointer'
  BY DEF IInv, TypeOK, ClientTypeOK, StreamTypeOK, DiskTypeOK, ClientHasFile,
       LookupHasBytes, DataHasBuffer, CloseIsLast, NoNullPointer, SaveBegin
<1>2. ControlTypeOK'
  BY DEF IInv, TypeOK, ControlTypeOK, SaveBegin
<1>3. BufferTypeOK'
  BY RangeOfPop DEF IInv, TypeOK, BufferTypeOK, SaveBegin
<1>4. SavingFirst'
  BY RangeOfPop DEF IInv, SavingFirst, SaveBegin, TypeOK, BufferTypeOK
<1>5. QueuedAreFull'
  BY RangeOfPop DEF IInv, TypeOK, QueuedAreFull, SaveBegin, BufferTypeOK, Held
<1>6. QED
  BY <1>1, <1>2, <1>3, <1>4, <1>5 DEF IInv, TypeOK

LEMMA SaveWriteKeeps == ASSUME IInv, SaveWrite PROVE IInv'
<1>1. ClientTypeOK' /\ StreamTypeOK' /\ ClientHasFile' /\ LookupHasBytes' /\
     DataHasBuffer' /\ CloseIsLast' /\ NoNullPointer'
  BY DEF IInv, TypeOK, ClientTypeOK, StreamTypeOK, ClientHasFile, LookupHasBytes,
       DataHasBuffer, CloseIsLast, NoNullPointer, SaveWrite
<1>2. ControlTypeOK'
  BY DEF IInv, TypeOK, ControlTypeOK, SaveWrite
<1>3. BufferTypeOK'
  BY DEF IInv, TypeOK, BufferTypeOK, SaveWrite, SavingFirst
<1>4. DiskTypeOK'
  BY DEF IInv, TypeOK, DiskTypeOK, SaveWrite, SavingFirst, BufferTypeOK
<1>5. SavingFirst'
  BY DEF IInv, SavingFirst, SaveWrite
<1>6. QueuedAreFull'
  BY RangeOfPop DEF IInv, TypeOK, QueuedAreFull, SaveWrite, BufferTypeOK,
       SavingFirst, Held
<1>7. QED
  BY <1>1, <1>2, <1>3, <1>4, <1>5, <1>6 DEF IInv, TypeOK

LEMMA SaveFailKeeps == ASSUME IInv, SaveFail PROVE IInv'
<1>1. ClientTypeOK' /\ StreamTypeOK' /\ BufferTypeOK' /\ DiskTypeOK'
  BY DEF IInv, TypeOK, ClientTypeOK, StreamTypeOK, BufferTypeOK, DiskTypeOK,
       SaveFail
<1>2. ClientHasFile' /\ LookupHasBytes' /\ DataHasBuffer' /\ QueuedAreFull' /\
     CloseIsLast' /\ NoNullPointer'
  BY DEF IInv, ClientHasFile, LookupHasBytes, DataHasBuffer, QueuedAreFull,
       CloseIsLast, NoNullPointer, SaveFail, Held, RangeOf
<1>3. ControlTypeOK'
  BY DEF IInv, TypeOK, ControlTypeOK, SaveFail
<1>4. SavingFirst'
  BY DEF IInv, SavingFirst, SaveFail
<1>5. QED
  BY <1>1, <1>2, <1>3, <1>4 DEF IInv, TypeOK

LEMMA SaveEndKeeps == ASSUME IInv, SaveEnd PROVE IInv'
<1>1. ClientTypeOK' /\ StreamTypeOK' /\ DiskTypeOK' /\ ClientHasFile' /\
     LookupHasBytes' /\ DataHasBuffer' /\ CloseIsLast' /\ NoNullPointer'
  BY DEF IInv, TypeOK, ClientTypeOK, StreamTypeOK, DiskTypeOK, ClientHasFile,
       LookupHasBytes, DataHasBuffer, CloseIsLast, NoNullPointer, SaveEnd
<1>2. ControlTypeOK'
  BY DEF IInv, TypeOK, ControlTypeOK, SaveEnd
<1>3. BufferTypeOK'
  BY DEF IInv, TypeOK, BufferTypeOK, SaveEnd
<1>4. SavingFirst'
  BY DEF IInv, SavingFirst, SaveEnd
<1>5. QueuedAreFull'
  BY DEF IInv, TypeOK, QueuedAreFull, SaveEnd, BufferTypeOK, Held
<1>6. QED
  BY <1>1, <1>2, <1>3, <1>4, <1>5 DEF IInv, TypeOK

LEMMA InitIInv == Init => IInv
<1> SUFFICES ASSUME Init PROVE IInv
  OBVIOUS
<1>1. ClientTypeOK /\ StreamTypeOK /\ DiskTypeOK
  BY DEF Init, ClientTypeOK, StreamTypeOK, DiskTypeOK
<1>2. ControlTypeOK
  BY DEF Init, ControlTypeOK, IoPcs, MsgPcs, Lines, States, Garbage
<1>3. BufferTypeOK
  <2>1. <<>> \in [1 .. 0 -> Units]
    OBVIOUS
  <2>2. \A b \in Buffers : bdata[b] = <<>> /\ bsize[b] = 0
    BY DEF Init
  <2>3. \A b \in Buffers : bdata[b] \in [1 .. bsize[b] -> Units]
    BY <2>1, <2>2
  <2>4. QED
    BY <2>3 DEF Init, BufferTypeOK
<1>4. ClientHasFile /\ SavingFirst /\ LookupHasBytes /\ DataHasBuffer /\ CloseIsLast
  BY DEF Init, ClientHasFile, SavingFirst, LookupHasBytes, DataHasBuffer,
       CloseIsLast
<1>5. QueuedAreFull /\ NoNullPointer
  BY DEF Init, QueuedAreFull, Held, RangeOf, NoNullPointer
<1>6. QED
  BY <1>1, <1>2, <1>3, <1>4, <1>5 DEF IInv, TypeOK

LEMMA NextIInv == IInv /\ [Next]_vars => IInv'
<1> SUFFICES ASSUME IInv, [Next]_vars PROVE IInv'
  OBVIOUS
<1>1. CASE Client
  BY <1>1, ClientOfferKeeps, ClientHeartbeatKeeps, ClientSendDataKeeps,
     ClientReceiveKeeps, ClientCloseKeeps DEF Client
<1>2. CASE Io
  BY <1>2, IoReadKeeps, IoErrorKeeps, IoCheckReadyKeeps, IoCheckWaitingKeeps,
     IoDataKeeps, IoPostKeeps, IoRearmKeeps DEF Io
<1>3. CASE Msg
  BY <1>3, MsgReceiveKeeps, MsgLookupKeeps, MsgReadKeeps, MsgFileInfoKeeps,
     MsgFileStatKeeps, MsgWrongKeeps, MsgBadSizeKeeps, MsgCompleteKeeps,
     MsgNotifyKeeps, MsgWriteKeeps, MsgWriteThrowsKeeps, MsgSettleKeeps,
     MsgCloseKeeps DEF Msg
<1>4. CASE Writer
  BY <1>4, WriterStartKeeps, SaveBeginKeeps, SaveWriteKeeps, SaveFailKeeps,
     SaveEndKeeps DEF Writer
<1>5. CASE UNCHANGED vars
  <2> USE <1>5 DEF vars
  <2>1. ClientTypeOK' /\ StreamTypeOK' /\ DiskTypeOK'
    BY DEF IInv, TypeOK, ClientTypeOK, StreamTypeOK, DiskTypeOK
  <2>2. ControlTypeOK' /\ BufferTypeOK'
    BY DEF IInv, TypeOK, ControlTypeOK, BufferTypeOK
  <2>3. /\ ClientHasFile' /\ SavingFirst' /\ LookupHasBytes' /\ DataHasBuffer'
        /\ QueuedAreFull' /\ CloseIsLast' /\ NoNullPointer'
    BY DEF IInv, ClientHasFile, SavingFirst, LookupHasBytes, DataHasBuffer,
           QueuedAreFull, Held, RangeOf, CloseIsLast, NoNullPointer
  <2>4. QED
    BY <2>1, <2>2, <2>3 DEF IInv, TypeOK
<1>6. QED
  BY <1>1, <1>2, <1>3, <1>4, <1>5 DEF Next

\* IInv holds in every reachable state of a session (FileReceiver.cpp).
THEOREM Invariance == Spec => []IInv
  BY InitIInv, NextIInv, PTL DEF Spec

-----------------------------------------------------------------------------
(* The results                                                             *)

\* Every variable of a session keeps its type, whatever the client sends.
THEOREM TypeCorrect == Spec => []TypeOK
<1>1. IInv => TypeOK
  BY DEF IInv
<1>2. QED
  BY <1>1, Invariance, PTL

\* on_network_close is the last handler of a session, and data is never
\* received without a FileInfo: no handler of FileReceiver dereferences null.
THEOREM NullSafety == Spec => []NoNullPointer
<1>1. IInv => NoNullPointer
  BY DEF IInv
<1>2. QED
  BY <1>1, Invariance, PTL

\* A step changes nothing of a file that NewFile has queued and save_first has
\* not finished with.
LEMMA StepKeepsQueued ==
  ASSUME IInv, [Next]_vars, NEW b \in Held
  PROVE  bname'[b] = bname[b] /\ bsize'[b] = bsize[b] /\ bdata'[b] = bdata[b]
<1>0. b \in Buffers /\ b # NoBuf
  BY RangeOfType DEF IInv, TypeOK, BufferTypeOK, Held
<1>1. CASE Client
  BY <1>1 DEF Client, ClientOffer, ClientHeartbeat, ClientSendData, ClientReceive,
       ClientClose
<1>2. CASE IoData
  <2>1. CASE fileptr = NoBuf \/ ~tcpptr \/ b # fileptr
    BY <1>0, <1>2, <2>1 DEF IInv, TypeOK, BufferTypeOK, IoData, DataArrive
  <2>2. CASE fileptr # NoBuf /\ tcpptr /\ b = fileptr
    <3>1. brcv[b] >= bsize[b] /\ brcv[b] \in Nat /\ bsize[b] \in Nat
      BY <1>0, <2>2 DEF IInv, TypeOK, BufferTypeOK, QueuedAreFull
    <3>2. bdata'[b] = [i \in 1 .. bsize[b] |->
                         IF i > brcv[b] /\ i <= brcv[b] + Len(rbuf)
                         THEN rbuf[i - brcv[b]] ELSE bdata[b][i]]
      BY <1>0, <1>2, <2>2 DEF IInv, TypeOK, BufferTypeOK, IoData, DataArrive
    <3>3. \A i \in 1 .. bsize[b] : ~(i > brcv[b])
      BY <3>1
    <3>4. bdata'[b] = [i \in 1 .. bsize[b] |-> bdata[b][i]]
      BY <3>2, <3>3
    <3>5. bdata[b] = [i \in 1 .. bsize[b] |-> bdata[b][i]]
      BY <1>0 DEF IInv, TypeOK, BufferTypeOK
    <3>6. QED
      BY <1>2, <3>4, <3>5 DEF IoData
  <2>3. QED
    BY <2>1, <2>2
<1>3. CASE Io /\ ~IoData
  BY <1>3 DEF Io, IoRead, IoError, IoCheckReady, IoCheckWaiting, IoPost, IoRearm
<1>4. CASE \E c \in Buffers : MsgFileInfo(c)
  <2>1. PICK c \in Buffers : MsgFileInfo(c)
    BY <1>4
  <2>2. c # b
    BY <2>1, <1>0 DEF MsgFileInfo, TakeBuffer, NeedsNew, InUse
  <2>3. QED
    BY <1>0, <2>1, <2>2 DEF IInv, TypeOK, BufferTypeOK, MsgFileInfo, TakeBuffer
<1>5. CASE Msg /\ ~(\E c \in Buffers : MsgFileInfo(c))
  BY <1>5 DEF Msg, MsgReceive, MsgLookup, MsgRead, MsgFileStat, MsgWrong,
       MsgBadSize,
     MsgComplete, MsgNotify, MsgWrite, MsgWriteThrows, MsgSettle, MsgClose
<1>6. CASE Writer
  BY <1>6 DEF Writer, WriterStart, SaveBegin, SaveWrite, SaveFail, SaveEnd
<1>7. CASE UNCHANGED vars
  BY <1>7 DEF vars
<1>8. QED
  BY <1>1, <1>2, <1>3, <1>4, <1>5, <1>6, <1>7 DEF Next

\* Whatever a client sends and whenever, a queued file stays as it was queued.
THEOREM QueuedFilesAreSafe == Spec => QueuedUntouched
<1>1. IInv /\ [Next]_vars => [KeepQueued]_vars
  BY StepKeepsQueued DEF KeepQueued
<1>2. QED
  BY <1>1, Invariance, PTL DEF Spec, QueuedUntouched

-----------------------------------------------------------------------------
(***************************************************************************)
(* A session does what FileStore allows with the files it hands over, for  *)
(* any traffic: what NewFile has queued is a pointer the session goes on   *)
(* using, and still each file is written as it was when it was queued.     *)
(* This rests on IInv: no step changes a queued file.                      *)
(***************************************************************************)

Step == [Store!Next]_(Store!store)

\* save_first has the front of the queue.
SavingHead == wpc = "save" => fwq # <<>> /\ saving = Head(fwq)

LEMMA SavingHeadKeeps ==
  ASSUME IInv, SavingHead, [Next]_vars
  PROVE SavingHead'
<1>1. CASE Client
  BY <1>1 DEF Client, ClientOffer, ClientHeartbeat, ClientSendData, ClientReceive,
       ClientClose, SavingHead
<1>2. CASE Io
  BY <1>2 DEF Io, IoRead, IoError, IoCheckReady, IoCheckWaiting, IoData, DataArrive, IoPost,
       IoRearm, Terminate, SavingHead
<1>3. CASE MsgComplete
  <2>1. fileptr \in Buffers /\ fwq \in Seq(Buffers)
    BY <1>3 DEF IInv, TypeOK, BufferTypeOK, DataHasBuffer, MsgComplete
  <2>2. Append(fwq, fileptr) # <<>> /\ (fwq # <<>> => Head(Append(fwq, fileptr)) = Head(fwq))
    BY <2>1
  <2>3. fwq' \in {fwq, Append(fwq, fileptr)} /\ UNCHANGED <<wpc, saving>>
    BY <1>3 DEF MsgComplete
  <2>4. QED
    BY <2>2, <2>3 DEF SavingHead
<1>4. CASE Msg /\ ~MsgComplete
  BY <1>4 DEF Msg, MsgReceive, MsgLookup, MsgRead, MsgFileInfo, MsgFileStat, MsgWrong,
       MsgBadSize, MsgNotify, MsgWrite, MsgWriteThrows, MsgSettle, MsgClose, Terminate,
       SavingHead
<1>5. CASE Writer
  BY <1>5 DEF Writer, WriterStart, SaveBegin, SaveWrite, SaveFail, SaveEnd, SavingHead
<1>6. CASE UNCHANGED vars
  BY <1>6 DEF vars, SavingHead
<1>7. QED
  BY <1>1, <1>2, <1>3, <1>4, <1>5, <1>6 DEF Next

Entries == [name : Files \cup {NoFile}, data : Seq(Units)]

LEMMA BufferIsEntry ==
  ASSUME IInv, NEW b \in Buffers
  PROVE [name |-> bname[b], data |-> bdata[b]] \in Entries
<1>1. bname[b] \in Files \cup {NoFile} /\ bsize[b] \in Nat
  BY DEF IInv, TypeOK, BufferTypeOK
<1>2. bdata[b] \in [1 .. bsize[b] -> Units]
  BY DEF IInv, TypeOK, BufferTypeOK
<1>3. bdata[b] \in Seq(Units)
  BY <1>1, <1>2
<1>4. QED
  BY <1>1, <1>3 DEF Entries

LEMMA WaitingProperties ==
  ASSUME IInv
  PROVE /\ fwq \in Seq(Buffers) /\ Waiting \in Seq(Entries) /\ Len(Waiting) = Len(fwq)
        /\ \A i \in 1 .. Len(fwq) :
             Waiting[i] = [name |-> bname[fwq[i]], data |-> bdata[fwq[i]]]
<1>1. fwq \in Seq(Buffers) /\ Len(fwq) \in Nat
  BY DEF IInv, TypeOK, BufferTypeOK
<1>2. \A i \in 1 .. Len(fwq) : fwq[i] \in Buffers
  BY <1>1
<1>3. Waiting \in [1 .. Len(fwq) -> Entries]
  BY <1>2, BufferIsEntry DEF Waiting
<1>4. \A i \in 1 .. Len(fwq) : Waiting[i] = [name |-> bname[fwq[i]], data |-> bdata[fwq[i]]]
  BY DEF Waiting
<1>5. Waiting \in Seq(Entries) /\ Len(Waiting) = Len(fwq)
  BY <1>1, <1>3
<1>6. QED
  BY <1>1, <1>4, <1>5

\* The files of the queue stay what they are, whatever happens to the queue.
LEMMA SameFiles ==
  ASSUME IInv, [Next]_vars, NEW i \in 1 .. Len(fwq)
  PROVE [name |-> bname'[fwq[i]], data |-> bdata'[fwq[i]]] = Waiting[i]
<1>1. fwq[i] \in Held
  BY DEF Held, RangeOf
<1>2. QED
  BY <1>1, StepKeepsQueued, WaitingProperties

LEMMA Invisible ==
  ASSUME IInv, [Next]_vars, UNCHANGED <<fwq, disk>>
  PROVE Step
<1>1. Waiting' = [i \in 1 .. Len(fwq) |-> [name |-> bname'[fwq[i]], data |-> bdata'[fwq[i]]]]
  BY DEF Waiting
<1>2. Waiting' = [i \in 1 .. Len(fwq) |-> Waiting[i]]
  BY <1>1, SameFiles
<1>3. Waiting = [i \in 1 .. Len(fwq) |-> Waiting[i]]
  BY DEF Waiting
<1>4. QED
  BY <1>2, <1>3 DEF Step, Store!store

LEMMA CompleteIsPut ==
  ASSUME IInv, [Next]_vars, MsgComplete, fwq' = Append(fwq, fileptr)
  PROVE Store!Put
<1>1. fileptr \in Buffers /\ fwq \in Seq(Buffers) /\ Len(fwq) \in Nat
  BY DEF IInv, TypeOK, BufferTypeOK, DataHasBuffer, MsgComplete
<1>2. /\ Len(fwq') = Len(fwq) + 1 /\ \A i \in 1 .. Len(fwq) : fwq'[i] = fwq[i]
      /\ fwq'[Len(fwq) + 1] = fileptr
  BY <1>1
<1>3. UNCHANGED <<bname, bdata, disk>>
  BY DEF MsgComplete
<1>4. Waiting' = [i \in 1 .. Len(fwq) + 1 |-> [name |-> bname[fwq'[i]], data |-> bdata[fwq'[i]]]]
  BY <1>2, <1>3 DEF Waiting
<1>5. Waiting' \in [1 .. Len(fwq) + 1 -> Entries]
  <2>1. \A i \in 1 .. Len(fwq) + 1 : fwq'[i] \in Buffers
    BY <1>1, <1>2
  <2>2. QED
    BY <1>4, <2>1, BufferIsEntry
<1>6. Len(Waiting') = Len(Waiting) + 1 /\ Len(Waiting) = Len(fwq)
  BY <1>1, <1>5, WaitingProperties
<1>7. \A i \in 1 .. Len(Waiting) : Waiting'[i] = Waiting[i]
  BY <1>1, <1>2, <1>4, <1>6, WaitingProperties
<1>8. Waiting'[Len(Waiting')] \in Entries
  BY <1>1, <1>5, <1>6
<1>9. QED
  BY <1>3, <1>6, <1>7, <1>8 DEF Store!Put, Store!Entries, Entries

LEMMA WriteIsStore ==
  ASSUME IInv, SavingHead, SaveWrite
  PROVE Store!Store
<1>1. /\ fwq # <<>> /\ saving = Head(fwq) /\ fwq \in Seq(Buffers) /\ Len(fwq) \in Nat
      /\ Len(fwq) >= 1 /\ fwq[1] = Head(fwq)
  BY DEF SavingHead, SaveWrite, IInv, TypeOK, BufferTypeOK
<1>2. /\ Waiting \in Seq(Entries) /\ Waiting # <<>>
      /\ Head(Waiting) = [name |-> bname[saving], data |-> bdata[saving]]
  <2>1. 1 \in 1 .. Len(fwq) /\ Waiting[1] = [name |-> bname[saving], data |-> bdata[saving]]
    BY <1>1, WaitingProperties
  <2>2. QED
    BY <1>1, <2>1, WaitingProperties
<1>3. disk' = [n \in DOMAIN disk \cup {Head(Waiting).name} |->
                 IF n = Head(Waiting).name THEN Head(Waiting).data ELSE disk[n]]
  BY <1>2 DEF SaveWrite
<1>4. fwq' = Tail(fwq) /\ UNCHANGED <<bname, bdata>>
  BY DEF SaveWrite
<1>5. /\ Tail(fwq) \in Seq(Buffers) /\ Len(Tail(fwq)) = Len(fwq) - 1
      /\ \A i \in 1 .. Len(Tail(fwq)) : Tail(fwq)[i] = fwq[i + 1]
  BY <1>1, HeadTailProperties
<1>6. Waiting' = [i \in 1 .. Len(fwq) - 1 |-> [name |-> bname[fwq[i + 1]], data |-> bdata[fwq[i + 1]]]]
  BY <1>4, <1>5 DEF Waiting
<1>7. Waiting' \in Seq(Entries) /\ Len(Waiting') = Len(fwq) - 1
  <2>1. Len(fwq) - 1 \in Nat /\ \A i \in 1 .. Len(fwq) - 1 : fwq[i + 1] \in Buffers
    BY <1>1
  <2>2. Waiting' \in [1 .. Len(fwq) - 1 -> Entries]
    BY <1>6, <2>1, BufferIsEntry
  <2>3. QED
    BY <2>1, <2>2
<1>8. /\ Tail(Waiting) \in Seq(Entries) /\ Len(Tail(Waiting)) = Len(fwq) - 1
      /\ \A i \in 1 .. Len(fwq) - 1 : Tail(Waiting)[i] = Waiting[i + 1]
  BY <1>2, WaitingProperties, HeadTailProperties
<1>9. \A i \in 1 .. Len(fwq) - 1 : Waiting'[i] = Tail(Waiting)[i]
  <2> SUFFICES ASSUME NEW i \in 1 .. Len(fwq) - 1
               PROVE Waiting'[i] = Tail(Waiting)[i]
    OBVIOUS
  <2>1. i + 1 \in 1 .. Len(fwq)
    BY <1>1
  <2>2. QED
    BY <2>1, <1>6, <1>8, WaitingProperties
<1>10. Waiting' = Tail(Waiting)
  BY <1>7, <1>8, <1>9, SeqEqual
<1>11. QED
  BY <1>2, <1>3, <1>10 DEF Store!Store

LEMMA EveryStep ==
  ASSUME IInv, SavingHead, [Next]_vars
  PROVE Step
<1>1. CASE MsgComplete
  <2>1. CASE fwq' = Append(fwq, fileptr)
    BY <1>1, <2>1, CompleteIsPut DEF Step, Store!Next
  <2>2. CASE fwq' = fwq
    BY <1>1, <2>2, Invisible DEF MsgComplete
  <2>3. QED
    BY <1>1, <2>1, <2>2 DEF MsgComplete
<1>2. CASE SaveWrite
  BY <1>2, WriteIsStore DEF Step, Store!Next
<1>3. CASE Client
  BY <1>3, Invisible DEF Client, ClientOffer, ClientHeartbeat, ClientSendData, ClientReceive,
       ClientClose
<1>4. CASE Io
  BY <1>4, Invisible DEF Io, IoRead, IoError, IoCheckReady, IoCheckWaiting, IoData, IoPost,
       IoRearm
<1>5. CASE Msg /\ ~MsgComplete
  BY <1>5, Invisible DEF Msg, MsgReceive, MsgLookup, MsgRead, MsgFileInfo, MsgFileStat,
       MsgWrong, MsgBadSize, MsgNotify, MsgWrite, MsgWriteThrows, MsgSettle, MsgClose
<1>6. CASE Writer /\ ~SaveWrite
  BY <1>6, Invisible DEF Writer, WriterStart, SaveBegin, SaveFail, SaveEnd
<1>7. CASE UNCHANGED vars
  BY <1>7, Invisible DEF vars
<1>8. QED
  BY <1>1, <1>2, <1>3, <1>4, <1>5, <1>6, <1>7 DEF Next

LEMMA InitIsInit == Init => Store!Init /\ SavingHead
<1> SUFFICES ASSUME Init PROVE Store!Init /\ SavingHead
  OBVIOUS
<1>1. Waiting = <<>>
  BY DEF Init, Waiting
<1>2. QED
  BY <1>1 DEF Init, Store!Init, SavingHead

\* Whatever the client sends and when, every file the session has handed over is
\* written as it was handed over, in that order (FileReceiver.cpp:88-98, 119-120).
THEOREM SessionImplements == Spec => IsFileStore
<1>1. IInv /\ SavingHead /\ [Next]_vars => SavingHead'
  BY SavingHeadKeeps
<1>2. IInv /\ SavingHead /\ [Next]_vars => [Store!Next]_(Store!store)
  BY EveryStep DEF Step
<1>3. QED
  BY <1>1, <1>2, InitIsInit, Invariance, PTL DEF Spec, IsFileStore, Store!Spec

-----------------------------------------------------------------------------
(***************************************************************************)
(* With a client that keeps to the protocol and sends no heartbeats, what  *)
(* is stored is what was sent and what was acknowledged is kept, for every *)
(* set of files, every size, every cut TCP may make and every moment at    *)
(* which the client may hang up.                                           *)
(*                                                                         *)
(* The two server threads share their state without a lock. It is the      *)
(* client's waiting for READY and COMPLETE that keeps them apart: Phases   *)
(* lists the nine situations a session can be in, and each step is shown   *)
(* to lead from one of them to one of them.                                *)
(***************************************************************************)

-----------------------------------------------------------------------------
(* The files                                                               *)

\* An exception or a signal takes all threads of the process along.
DeadIsDead == crashed # "no" => iopc = "dead" /\ mpc = "dead" /\ wpc = "dead"

\* What save_first holds is the front of the queue until it has written it.
WriterHolds ==
  /\ wpc \in {"save", "failed"} => fwq # <<>> /\ saving = Head(fwq)
  /\ wpc = "saved" => bname[saving] \in DOMAIN disk
  /\ wpc \in {"start", "loop", "done"} => saving = NoBuf

\* A file the writer has is complete.
HeldIntact == \A b \in Held : bname[b] \in Files /\ bdata[b] = Content(bname[b])

\* The files that have not been forgotten.
KeptFiles == rejected \cup DOMAIN disk \cup {bname[b] : b \in Held}

AckedAreKept == crashed = "no" => acked \subseteq KeptFiles

FilesInv == DeadIsDead /\ WriterHolds /\ HeldIntact /\ SavedIntact /\ NoOverrun /\ AckedAreKept

-----------------------------------------------------------------------------
(* The phases of a session                                                 *)

\* No message waits for the message thread but that the connection has ended.
NoMessages == \A i \in 1 .. Len(mq) : mq[i] = "NETWORK_CLOSE"

OneMessage(m) == mq # <<>> /\ mq[1] = m /\ \A i \in 2 .. Len(mq) : mq[i] = "NETWORK_CLOSE"

\* The io thread waits for bytes that cannot come before the server answers.
Calm ==
  /\ iopc \in {"reading", "rearm", "post_close", "done"}
  /\ cli # "closed" => open /\ iopc \in {"reading", "rearm"}

IsLine(s, f) == Len(s) = 2 /\ s[1] = InfoBody(f) /\ s[2] = Newline

\* state_ when no transfer is going on.
Settled == state = IF mpc = "settle" THEN "COMPLETE" ELSE "WAITING"

\* The client has offered a file and has not been answered.
ExpectsReady ==
  cli \in {"wait_ready", "closed"} /\ s2c = <<>> /\ csent = 0 /\ cfile \in Files

\* Nothing is under way but, perhaps, the answer to a complete file.
Quiet ==
  /\ c2s = <<>> /\ NoMessages /\ Calm /\ fbuf = Garbage
  /\ mpc \in {"receive", "settle", "close"} /\ Settled
  /\ \/ s2c = <<>> /\ cli \in {"idle", "wait_ready", "closed"}
     \/ /\ Len(s2c) = 1 /\ s2c[1] = "COMPLETE" /\ cli \in {"wait_done", "closed"}
        /\ cfile \in KeptFiles

\* The fileinfo line is under way;
Offered ==
  /\ ExpectsReady /\ IsLine(c2s, cfile)
  /\ NoMessages /\ open /\ iopc \in {"reading", "rearm"} /\ fbuf = Garbage
  /\ mpc \in {"receive", "settle"} /\ Settled

\* TCP has cut it in two, and neither part can be understood;
Broken ==
  /\ ExpectsReady
  /\ \/ c2s = <<>> /\ Len(rbuf) = 1 /\ rbuf[1] \in {InfoBody(cfile), Newline}
     \/ Len(c2s) = 1 /\ c2s[1] = Newline /\ Len(rbuf) = 1 /\ rbuf[1] = InfoBody(cfile)
  /\ iopc \in {"reading", "callback", "check_waiting", "post_receive", "rearm", "post_close", "done"}
  /\ \A i \in 1 .. Len(mq) : mq[i] \in {"NETWORK_RECEIVE", "NETWORK_CLOSE"}
  /\ fbuf = Garbage
  /\ mpc \in {"receive", "settle", "lookup", "read", "resolve", "close"} /\ Settled
  /\ mpc = "read" => pos = 0 \/ (pos = 1 /\ rbuf[1] = Newline)

\* the io thread has the line in its hands;
OfferRead ==
  /\ ExpectsReady /\ c2s = <<>> /\ IsLine(rbuf, cfile)
  /\ iopc \in {"callback", "check_waiting", "post_receive"} /\ open
  /\ NoMessages /\ fbuf = Garbage
  /\ mpc \in {"receive", "settle"} /\ Settled

\* it has told the message thread, which has not begun with it;
OfferQueued ==
  /\ ExpectsReady /\ c2s = <<>> /\ IsLine(rbuf, cfile)
  /\ Calm /\ OneMessage("NETWORK_RECEIVE")
  /\ mpc \in {"receive", "settle"} /\ Settled

\* on_network_receive is at work, and the receive buffer is not touched.
OfferHandled ==
  /\ ExpectsReady /\ c2s = <<>> /\ IsLine(rbuf, cfile)
  /\ Calm /\ NoMessages
  /\ mpc \in {"lookup", "read", "resolve"} /\ state = "WAITING"
  /\ mpc = "read" => pos = 2 /\ seen = rbuf
  /\ mpc = "resolve" => fbuf = Info(cfile, FileSize[cfile])

\* fileptr_ has the name and the size of the file the client transfers.
Described ==
  /\ fileptr \in Buffers /\ cfile \in Files
  /\ bname[fileptr] = cfile /\ bsize[fileptr] = FileSize[cfile]

\* READY is about to be sent.
Accepting ==
  /\ ExpectsReady /\ c2s = <<>> /\ Described /\ fileptr \notin Held /\ brcv[fileptr] = 0
  /\ Calm /\ NoMessages
  /\ mpc \in {"notify", "write"} /\ status = "READY"
  /\ state = IF mpc = "notify" THEN "WAITING" ELSE "READY"

\* What the io thread has read and DataArrive has not stored yet.
InHand == IF iopc \in {"callback", "data"} THEN Len(rbuf) ELSE 0

\* READY has been sent: what is stored, what is in the io thread's hands and
\* what is under way are the first csent units of the file.
Receiving ==
  /\ Described /\ fileptr \notin Held
  /\ NoMessages /\ state = "READY" /\ mpc \in {"receive", "close"}
  /\ iopc \in {"reading", "rearm", "callback", "data", "post_close", "post_complete", "done"}
  /\ cli # "closed" => open /\ iopc \notin {"post_close", "done"}
  /\ csent = brcv[fileptr] + InHand + Len(c2s) /\ csent <= FileSize[cfile]
  /\ \A i \in 1 .. brcv[fileptr] : bdata[fileptr][i] = Data(cfile, i)
  /\ iopc \in {"callback", "data"} =>
       rbuf # <<>> /\ \A i \in 1 .. Len(rbuf) : rbuf[i] = Data(cfile, brcv[fileptr] + i)
  /\ \A i \in 1 .. Len(c2s) : c2s[i] = Data(cfile, brcv[fileptr] + InHand + i)
  /\ iopc = "post_complete" =>
       brcv[fileptr] = FileSize[cfile] /\ brcv[fileptr] # 0 /\ fbuf = Garbage
  /\ \/ Len(s2c) = 1 /\ s2c[1] = "READY" /\ cli \in {"wait_ready", "closed"} /\ csent = 0
     \/ s2c = <<>> /\ cli \in {"sending", "wait_done", "closed"}
  /\ cli = "sending" => csent < FileSize[cfile]

\* Everything has arrived, and on_receive_complete is about to run or at work.
Completing ==
  /\ Described /\ brcv[fileptr] = FileSize[cfile] /\ bdata[fileptr] = Content(cfile)
  /\ cli \in {"wait_done", "closed"} /\ c2s = <<>> /\ s2c = <<>> /\ fbuf = Garbage /\ Calm
  /\ \/ OneMessage("RECEIVE_COMPLETE") /\ mpc = "receive" /\ fileptr \notin Held
     \/ NoMessages /\ mpc = "complete" /\ fileptr \notin Held
     \/ NoMessages /\ mpc \in {"notify", "write"} /\ status = "COMPLETE" /\ cfile \in KeptFiles
  /\ state = IF mpc = "write" THEN "COMPLETE" ELSE "READY"

InSomePhase ==
  \/ Quiet \/ Offered \/ Broken \/ OfferRead \/ OfferQueued \/ OfferHandled
  \/ Accepting \/ Receiving \/ Completing

Phases == crashed = "no" => InSomePhase

UInv == IInv /\ FilesInv /\ Phases

-----------------------------------------------------------------------------
(* Facts about one state                                                   *)

\* Whoever works for a session works for a process that is alive.
LEMMA AliveInPhase ==
  ASSUME UInv, iopc # "dead" \/ mpc # "dead" \/ wpc # "dead"
  PROVE  crashed = "no" /\ InSomePhase
  BY DEF UInv, FilesInv, DeadIsDead, Phases

\* As long as the io thread can read, the queue holds no NETWORK_CLOSE.
LEMMA EmptyQueue ==
  ASSUME UInv, NoMessages, iopc \notin {"done", "dead"}
  PROVE  mq = <<>>
  BY DEF UInv, IInv, TypeOK, StreamTypeOK, CloseIsLast, NoMessages

LEMMA UnitKinds ==
  ASSUME NEW f \in Files, NEW i \in Nat
  PROVE  /\ Data(f, i).k = "data" /\ InfoBody(f).k = "info" /\ Newline.k = "nl"
         /\ InfoBody(f).f = f /\ InfoBody(f) # Newline /\ InfoBody(f) # Data(f, i)
  BY DEF Data, InfoBody, Newline

LEMMA Types ==
  ASSUME UInv
  PROVE  /\ cli \in {"idle", "wait_ready", "sending", "wait_done", "closed"}
         /\ csent \in Nat /\ c2s \in Seq(Units) /\ rbuf \in Seq(Units) /\ s2c \in Seq(States)
         /\ mq \in Seq(Messages) /\ open \in BOOLEAN /\ state \in States /\ fwq \in Seq(Buffers)
         /\ \A b \in Buffers : brcv[b] \in Nat /\ bsize[b] \in Nat
         /\ Held \subseteq Buffers /\ NoBuf \notin Held
<1>1. TypeOK
  BY DEF UInv, IInv
<1>2. Held \subseteq Buffers /\ NoBuf \notin Held
  BY <1>1, RangeOfType DEF TypeOK, BufferTypeOK, Held
<1>3. QED
  BY <1>1, <1>2 DEF TypeOK, ClientTypeOK, StreamTypeOK, ControlTypeOK, BufferTypeOK

-----------------------------------------------------------------------------
(* Every step preserves FilesInv                                           *)

\* The writer's files become more only when on_receive_complete hands one over.
LEMMA HeldSteps ==
  ASSUME UInv, [Next]_vars
  PROVE  /\ ~MsgComplete => Held' \subseteq Held
         /\ MsgComplete => Held' \subseteq Held \cup {fileptr}
         /\ ~SaveEnd => Held \subseteq Held'
<1>1. fwq \in Seq(Buffers)
  BY Types
<1>2. CASE MsgComplete
  <2>1. fileptr \in Buffers
    BY <1>2 DEF UInv, IInv, TypeOK, BufferTypeOK, DataHasBuffer, MsgComplete
  <2>2. RangeOf(Append(fwq, fileptr)) = RangeOf(fwq) \cup {fileptr}
    <3>1. RangeOf(fwq) \cup {fileptr} \subseteq RangeOf(Append(fwq, fileptr))
      BY <1>1, <2>1 DEF RangeOf
    <3>2. QED
      BY <1>1, <2>1, <3>1, RangeOfAppend
  <2>3. ~SaveEnd
    BY <1>2 DEF MsgComplete, SaveEnd, vars
  <2>4. QED
    BY <1>2, <2>2, <2>3 DEF MsgComplete, Held
<1>3. CASE SaveBegin
  BY <1>1, <1>3, RangeOfPop DEF SaveBegin, Held, UInv, FilesInv, WriterHolds, MsgComplete
<1>4. CASE SaveWrite
  <2>1. fwq # <<>> /\ saving = Head(fwq)
    BY <1>4 DEF SaveWrite, UInv, FilesInv, WriterHolds
  <2>2. RangeOf(fwq) \subseteq RangeOf(Tail(fwq)) \cup {Head(fwq)}
    BY <1>1, <2>1 DEF RangeOf
  <2>3. RangeOf(Tail(fwq)) \subseteq RangeOf(fwq) /\ saving # NoBuf
    BY <1>1, <2>1, RangeOfPop
  <2>4. fwq' = Tail(fwq) /\ saving' = saving /\ ~MsgComplete
    BY <1>4 DEF SaveWrite, MsgComplete
  <2>5. QED
    BY <2>1, <2>2, <2>3, <2>4 DEF Held
<1>5. CASE SaveEnd
  BY <1>5 DEF SaveEnd, Held, MsgComplete
<1>6. CASE UNCHANGED <<fwq, saving>> /\ ~MsgComplete
  BY <1>6 DEF Held
<1>7. CASE Client \/ Io \/ WriterStart \/ SaveFail \/ UNCHANGED vars
  BY <1>6, <1>7, <1>2 DEF Client, ClientOffer, ClientHeartbeat, ClientSendData, ClientReceive,
       ClientClose, Io, IoRead, IoError, IoCheckReady, IoCheckWaiting, IoData, IoPost, IoRearm,
       WriterStart, SaveFail, vars
<1>8. CASE Msg /\ ~MsgComplete
  BY <1>6, <1>8 DEF Msg, MsgReceive, MsgLookup, MsgRead, MsgFileInfo, MsgFileStat, MsgWrong,
       MsgBadSize, MsgNotify, MsgWrite, MsgWriteThrows, MsgSettle, MsgClose
<1>9. QED
  BY <1>2, <1>3, <1>4, <1>5, <1>7, <1>8 DEF Next, Writer

\* Nothing is forgotten.
LEMMA KeptStays ==
  ASSUME UInv, [Next]_vars
  PROVE  KeptFiles \subseteq KeptFiles'
<1>1. \A b \in Held : bname'[b] = bname[b]
  BY StepKeepsQueued DEF UInv
<1>2. CASE ~SaveEnd
  <2>1. DOMAIN disk \subseteq DOMAIN disk' /\ rejected \subseteq rejected'
    BY DEF Next, Client, ClientOffer, ClientHeartbeat, ClientSendData, ClientReceive,
       ClientClose, Io, IoRead, IoError, IoCheckReady, IoCheckWaiting, IoData, IoPost, IoRearm,
       Msg, MsgReceive, MsgLookup, MsgRead, MsgFileInfo, MsgFileStat, MsgWrong, MsgComplete,
       MsgBadSize, MsgNotify, MsgWrite, MsgWriteThrows, MsgSettle, MsgClose,
       Writer, WriterStart, SaveBegin, SaveWrite, SaveFail, SaveEnd, vars
  <2>2. QED
    BY <1>1, <1>2, <2>1, HeldSteps DEF KeptFiles
<1>3. CASE SaveEnd
  <2>1. UNCHANGED <<disk, rejected, fwq>> /\ wpc \in {"saved", "failed"}
    BY <1>3 DEF SaveEnd
  <2>2. bname[saving] \in DOMAIN disk \/ saving \in RangeOf(fwq)
    BY <2>1, Types, RangeOfPop DEF UInv, FilesInv, WriterHolds
  <2>3. RangeOf(fwq) \subseteq Held'
    BY <2>1 DEF Held
  <2>4. QED
    BY <1>1, <2>1, <2>2, <2>3 DEF KeptFiles, Held
<1>4. QED
  BY <1>2, <1>3

LEMMA HeldIntactKeeps ==
  ASSUME UInv, [Next]_vars
  PROVE  HeldIntact'
<1>1. \A b \in Held : bname'[b] = bname[b] /\ bdata'[b] = bdata[b]
  BY StepKeepsQueued DEF UInv
<1>2. \A b \in Held : bname'[b] \in Files /\ bdata'[b] = Content(bname'[b])
  BY <1>1 DEF UInv, FilesInv, HeldIntact
<1>3. CASE ~MsgComplete
  BY <1>2, <1>3, HeldSteps DEF HeldIntact
<1>4. CASE MsgComplete
  <2>1. mpc = "complete" /\ UNCHANGED <<bname, bdata, fileptr>>
    BY <1>4 DEF MsgComplete
  <2>2. Completing
    BY <2>1, AliveInPhase DEF InSomePhase, Quiet, Offered, Broken, OfferRead, OfferQueued,
         OfferHandled, Accepting, Receiving
  <2>3. bname'[fileptr] \in Files /\ bdata'[fileptr] = Content(bname'[fileptr])
    BY <2>1, <2>2 DEF Completing, Described
  <2>4. QED
    BY <1>2, <1>4, <2>3, HeldSteps DEF HeldIntact
<1>5. QED
  BY <1>3, <1>4

LEMMA SavedIntactKeeps ==
  ASSUME UInv, [Next]_vars
  PROVE  SavedIntact'
<1>1. CASE SaveWrite
  <2>1. saving \in Held
    BY <1>1, RangeOfPop, Types DEF SaveWrite, UInv, FilesInv, WriterHolds, Held
  <2>2. QED
    BY <1>1, <2>1 DEF SaveWrite, UInv, FilesInv, HeldIntact, SavedIntact
<1>2. CASE disk' = disk
  BY <1>2 DEF UInv, FilesInv, SavedIntact
<1>3. disk' = disk \/ SaveWrite
  BY DEF Next, Client, ClientOffer, ClientHeartbeat, ClientSendData, ClientReceive,
     ClientClose, Io, IoRead, IoError, IoCheckReady, IoCheckWaiting, IoData, IoPost, IoRearm,
     Msg, MsgReceive, MsgLookup, MsgRead, MsgFileInfo, MsgFileStat, MsgWrong, MsgComplete,
     MsgBadSize, MsgNotify, MsgWrite, MsgWriteThrows, MsgSettle, MsgClose,
     Writer, WriterStart, SaveBegin, SaveFail, SaveEnd, vars
<1>4. QED
  BY <1>1, <1>2, <1>3

LEMMA WriterHoldsKeeps ==
  ASSUME UInv, [Next]_vars
  PROVE  WriterHolds'
<1>1. CASE Client
  BY <1>1 DEF Client, ClientOffer, ClientHeartbeat, ClientSendData, ClientReceive,
       ClientClose, UInv, FilesInv, WriterHolds
<1>2. CASE Io
  BY <1>2 DEF Io, IoRead, IoError, IoCheckReady, IoCheckWaiting, IoData, DataArrive, IoPost,
       IoRearm, Terminate, UInv, FilesInv, WriterHolds
<1>3. CASE MsgComplete
  <2>1. fileptr \in Buffers /\ fwq \in Seq(Buffers)
    BY <1>3 DEF UInv, IInv, TypeOK, BufferTypeOK, DataHasBuffer, MsgComplete
  <2>2. Append(fwq, fileptr) # <<>> /\ (fwq # <<>> => Head(Append(fwq, fileptr)) = Head(fwq))
    BY <2>1
  <2>3. fwq' \in {fwq, Append(fwq, fileptr)} /\ UNCHANGED <<wpc, saving, bname, disk>>
    BY <1>3 DEF MsgComplete
  <2>4. QED
    BY <2>2, <2>3 DEF UInv, FilesInv, WriterHolds
<1>4. CASE \E b \in Buffers : MsgFileInfo(b)
  <2>1. UNCHANGED writer
    BY <1>4 DEF MsgFileInfo
  <2>2. wpc = "saved" => bname'[saving] = bname[saving]
    BY <1>4, StepKeepsQueued, Types DEF UInv, FilesInv, WriterHolds, Held, MsgFileInfo,
         TakeBuffer, NeedsNew, InUse
  <2>3. QED
    BY <2>1, <2>2 DEF UInv, FilesInv, WriterHolds
<1>5. CASE Msg /\ ~MsgComplete /\ ~(\E b \in Buffers : MsgFileInfo(b))
  BY <1>5 DEF Msg, MsgReceive, MsgLookup, MsgRead, MsgFileStat, MsgWrong,
       MsgBadSize, MsgNotify, MsgWrite, MsgWriteThrows, MsgSettle, MsgClose, Terminate,
       UInv, FilesInv, WriterHolds
<1>6. CASE Writer
  BY <1>6 DEF Writer, WriterStart, SaveBegin, SaveWrite, SaveFail, SaveEnd, UInv, FilesInv,
       WriterHolds
<1>7. CASE UNCHANGED vars
  BY <1>7 DEF vars, UInv, FilesInv, WriterHolds
<1>8. QED
  BY <1>1, <1>2, <1>3, <1>4, <1>5, <1>6, <1>7 DEF Next

LEMMA NoOverrunKeeps ==
  ASSUME UInv, [Next]_vars
  PROVE  NoOverrun'
<1>0. \A b \in Buffers : brcv[b] <= bsize[b]
  BY DEF UInv, FilesInv, NoOverrun
<1>1. CASE IoData
  <2>1. Receiving
    BY <1>1, AliveInPhase DEF IoData, InSomePhase, Quiet, Offered, Broken, OfferRead,
         OfferQueued, OfferHandled, Accepting, Completing, Calm
  <2>2. fileptr \in Buffers /\ brcv[fileptr] + Len(rbuf) <= bsize[fileptr]
    BY <1>1, <2>1, Types DEF IoData, Receiving, Described, InHand
  <2>3. tcpptr /\ fileptr # NoBuf
    BY <1>1, <2>2 DEF IoData, UInv, IInv, CloseIsLast
  <2>4. bsize' = bsize /\ brcv' = [brcv EXCEPT ![fileptr] = @ + Len(rbuf)]
    BY <1>1, <2>3 DEF IoData, DataArrive
  <2>5. QED
    BY <1>0, <2>2, <2>4, Types DEF NoOverrun, UInv, IInv, TypeOK, BufferTypeOK
<1>2. CASE \E b \in Buffers : MsgFileInfo(b)
  <2>1. PICK b \in Buffers : MsgFileInfo(b)
    BY <1>2
  <2>2. fbuf.size \in Nat
    BY <2>1 DEF MsgFileInfo, UInv, IInv, TypeOK, ControlTypeOK, Lines, Stat, Garbage, NoSize
  <2>3. QED
    BY <1>0, <2>1, <2>2 DEF MsgFileInfo, TakeBuffer, NoOverrun, UInv, IInv, TypeOK, BufferTypeOK
<1>3. CASE UNCHANGED <<brcv, bsize>>
  BY <1>0, <1>3 DEF NoOverrun
<1>4. UNCHANGED <<brcv, bsize>> \/ IoData \/ (\E b \in Buffers : MsgFileInfo(b))
  BY DEF Next, Client, ClientOffer, ClientHeartbeat, ClientSendData, ClientReceive,
     ClientClose, Io, IoRead, IoError, IoCheckReady, IoCheckWaiting, IoPost, IoRearm,
     Msg, MsgReceive, MsgLookup, MsgRead, MsgFileStat, MsgWrong, MsgComplete,
     MsgBadSize, MsgNotify, MsgWrite, MsgWriteThrows, MsgSettle, MsgClose,
     Writer, WriterStart, SaveBegin, SaveWrite, SaveFail, SaveEnd, vars
<1>5. QED
  BY <1>1, <1>2, <1>3, <1>4

LEMMA AckedAreKeptKeeps ==
  ASSUME UInv, [Next]_vars
  PROVE  AckedAreKept'
<1>1. KeptFiles \subseteq KeptFiles'
  BY KeptStays
<1>2. CASE ClientReceive /\ acked' # acked
  <2>1. /\ cli = "wait_done" /\ s2c # <<>> /\ Head(s2c) = "COMPLETE"
        /\ acked' = acked \cup {cfile} /\ crashed' = crashed
    BY <1>2 DEF ClientReceive
  <2>2. CASE crashed = "no"
    <3>1. InSomePhase
      BY <2>2 DEF UInv, Phases
    <3>2. cfile \in KeptFiles
      <4>1. Receiving => s2c = <<>>
        BY <2>1 DEF Receiving
      <4>2. ~Receiving /\ ~Offered /\ ~Broken /\ ~OfferRead /\ ~OfferQueued /\ ~OfferHandled
            /\ ~Accepting /\ ~Completing
        BY <2>1, <4>1 DEF Offered, Broken, OfferRead, OfferQueued, OfferHandled,
             Accepting, Completing, ExpectsReady
      <4>3. QED
        BY <2>1, <3>1, <4>2 DEF InSomePhase, Quiet
    <3>3. QED
      BY <1>1, <2>1, <2>2, <3>2 DEF UInv, FilesInv, AckedAreKept
  <2>3. QED
    BY <2>1, <2>2 DEF AckedAreKept
<1>3. CASE acked' = acked
  <2>1. crashed' = "no" => crashed = "no"
    BY DEF Next, Client, ClientOffer, ClientHeartbeat, ClientSendData, ClientReceive,
       ClientClose, Io, IoRead, IoError, IoCheckReady, IoCheckWaiting, IoData, IoPost, IoRearm,
       Msg, MsgReceive, MsgLookup, MsgRead, MsgFileInfo, MsgFileStat, MsgWrong, MsgComplete,
       MsgBadSize, MsgNotify, MsgWrite, MsgWriteThrows, MsgSettle, MsgClose, Terminate,
       Writer, WriterStart, SaveBegin, SaveWrite, SaveFail, SaveEnd, vars
  <2>2. QED
    BY <1>1, <1>3, <2>1 DEF UInv, FilesInv, AckedAreKept
<1>4. ClientReceive \/ acked' = acked
  BY DEF Next, Client, ClientOffer, ClientHeartbeat, ClientSendData,
     ClientClose, Io, IoRead, IoError, IoCheckReady, IoCheckWaiting, IoData, IoPost, IoRearm,
     Msg, MsgReceive, MsgLookup, MsgRead, MsgFileInfo, MsgFileStat, MsgWrong, MsgComplete,
     MsgBadSize, MsgNotify, MsgWrite, MsgWriteThrows, MsgSettle, MsgClose,
     Writer, WriterStart, SaveBegin, SaveWrite, SaveFail, SaveEnd, vars
<1>5. QED
  BY <1>2, <1>3, <1>4

LEMMA DeadIsDeadKeeps ==
  ASSUME UInv, [Next]_vars
  PROVE  DeadIsDead'
<1>1. CASE UNCHANGED <<crashed, iopc, mpc, wpc>>
  BY <1>1 DEF UInv, FilesInv, DeadIsDead
<1>2. CASE crashed' = "no"
  BY <1>2 DEF DeadIsDead
<1>3. CASE crashed = "no" /\ crashed' # "no"
  BY <1>3 DEF DeadIsDead, Next, Client, ClientOffer, ClientHeartbeat, ClientSendData,
     ClientReceive, ClientClose, Io, IoRead, IoError, IoCheckReady, IoCheckWaiting, IoData,
     IoPost, IoRearm, Msg, MsgReceive, MsgLookup, MsgRead, MsgFileInfo, MsgFileStat, MsgWrong,
     MsgComplete, MsgBadSize, MsgNotify, MsgWrite, MsgWriteThrows, MsgSettle, MsgClose,
     Terminate, Writer, WriterStart, SaveBegin, SaveWrite, SaveFail, SaveEnd, vars
<1>4. CASE crashed # "no"
  <2>1. iopc = "dead" /\ mpc = "dead" /\ wpc = "dead"
    BY <1>4 DEF UInv, FilesInv, DeadIsDead
  <2>2. Client \/ UNCHANGED vars
    BY <2>1 DEF Next, Io, IoRead, IoError, IoCheckReady, IoCheckWaiting, IoData,
       IoPost, PostPcs, IoRearm, Msg, MsgReceive, MsgLookup, MsgRead, MsgFileInfo, MsgFileStat,
       MsgWrong, MsgComplete, MsgBadSize, MsgNotify, MsgWrite, MsgWriteThrows, MsgSettle,
       MsgClose, Writer, WriterStart, SaveBegin, SaveWrite, SaveFail, SaveEnd
  <2>3. UNCHANGED <<crashed, iopc, mpc, wpc>>
    BY <2>2 DEF Client, ClientOffer, ClientHeartbeat, ClientSendData, ClientReceive,
         ClientClose, vars
  <2>4. QED
    BY <1>1, <2>3
<1>5. QED
  BY <1>2, <1>3, <1>4

LEMMA FilesInvKeeps ==
  ASSUME UInv, [Next]_vars
  PROVE  FilesInv'
  BY HeldIntactKeeps, SavedIntactKeeps, WriterHoldsKeeps, NoOverrunKeeps, AckedAreKeptKeeps,
     DeadIsDeadKeeps DEF FilesInv

-----------------------------------------------------------------------------
(* Every step leads from a phase to a phase                                *)

LEMMA OfferPhase ==
  ASSUME UInv, \E f \in Files : ClientOffer(f), crashed = "no"
  PROVE  InSomePhase'
<1>0. PICK f \in Files : ClientOffer(f)
  OBVIOUS
<1>1. Quiet
  BY <1>0 DEF UInv, Phases, InSomePhase, Offered, Broken, OfferRead, OfferQueued, OfferHandled,
       Accepting, Receiving, Completing, ExpectsReady, ClientOffer
<1>2. iopc \in {"reading", "rearm"} /\ open /\ mpc \in {"receive", "settle"}
  BY <1>0, <1>1 DEF ClientOffer, Quiet, Calm, UInv, IInv, CloseIsLast
<1>3. IsLine(c2s', f)
  BY <1>0, <1>1 DEF ClientOffer, Quiet, IsLine
<1>4. s2c = <<>>
  BY <1>0, <1>1 DEF ClientOffer, Quiet
<1>5. Offered'
  BY <1>0, <1>1, <1>2, <1>3, <1>4 DEF ClientOffer, Quiet, Offered, ExpectsReady, NoMessages,
       Settled, IsLine
<1>6. QED
  BY <1>5 DEF InSomePhase

LEMMA SendDataPhase ==
  ASSUME UInv, [Next]_vars, ClientSendData, crashed = "no"
  PROVE  InSomePhase'
<1>1. Receiving
  BY DEF UInv, Phases, InSomePhase, Quiet, Offered, Broken, OfferRead, OfferQueued, OfferHandled,
       Accepting, Completing, ExpectsReady, ClientSendData
<1>2. fileptr \in Buffers /\ brcv[fileptr] \in Nat /\ Len(c2s) \in Nat /\ InHand \in Nat
  BY <1>1, Types DEF Receiving, Described, InHand
<1>3. /\ Len(c2s') = Len(c2s) + 1 /\ \A i \in 1 .. Len(c2s) : c2s'[i] = c2s[i]
      /\ c2s'[Len(c2s) + 1] = Data(cfile, csent + 1)
  BY Types DEF ClientSendData
<1>4. csent' = csent + 1 /\ InHand' = InHand /\ csent < FileSize[cfile] /\ s2c = <<>>
      /\ FileSize[cfile] \in Nat
  BY <1>1 DEF ClientSendData, Receiving, InHand, Described
<1>5. Described' /\ (fileptr \notin Held)'
  BY <1>1 DEF Receiving, Described, ClientSendData, Held
<1>6. \A i \in 1 .. Len(c2s') : c2s'[i] = Data(cfile, brcv[fileptr] + InHand + i)
  <2>0. csent = brcv[fileptr] + InHand + Len(c2s)
    BY <1>1 DEF Receiving
  <2>1. \A i \in 1 .. Len(c2s) : c2s[i] = Data(cfile, brcv[fileptr] + InHand + i)
    BY <1>1 DEF Receiving
  <2>2. csent + 1 = brcv[fileptr] + InHand + (Len(c2s) + 1)
    BY <1>2, <2>0
  <2>3. \A i \in 1 .. Len(c2s') : i \in 1 .. Len(c2s) \/ i = Len(c2s) + 1
    BY <1>2, <1>3
  <2>4. QED
    BY <1>3, <2>1, <2>2, <2>3
<1>7. cli' = (IF csent + 1 = FileSize[cfile] THEN "wait_done" ELSE "sending")
  BY DEF ClientSendData
<1>8. UNCHANGED <<cfile, s2c, open, io, mq, msg, state, fbuf, fileptr, bufs>>
  BY DEF ClientSendData
<1>9. /\ csent' = brcv[fileptr] + InHand + Len(c2s') /\ csent' <= FileSize[cfile]
      /\ (cli' = "sending" => csent' < FileSize[cfile])
  <2>1. csent = brcv[fileptr] + InHand + Len(c2s) /\ csent \in Nat
    BY <1>1, Types DEF Receiving
  <2>2. csent' = brcv[fileptr] + InHand + Len(c2s')
    BY <1>2, <1>3, <1>4, <2>1
  <2>3. csent' <= FileSize[cfile] /\ (cli' = "sending" => csent' < FileSize[cfile])
    BY <1>4, <1>7, <2>1
  <2>4. QED
    BY <2>2, <2>3
<1>10. cli = "sending" /\ NoMessages'
  BY <1>1 DEF ClientSendData, Receiving, NoMessages
<1>11. Receiving'
  BY <1>1, <1>4, <1>5, <1>6, <1>7, <1>8, <1>9, <1>10 DEF Receiving
<1>12. QED
  BY <1>11 DEF InSomePhase

LEMMA ReceivePhase ==
  ASSUME UInv, [Next]_vars, ClientReceive, crashed = "no"
  PROVE  InSomePhase'
<1>1. Quiet \/ Receiving
  BY DEF UInv, Phases, InSomePhase, Offered, Broken, OfferRead, OfferQueued, OfferHandled,
       Accepting, Completing, ExpectsReady, ClientReceive
<1>2. Len(s2c) = 1 /\ s2c' = <<>> /\ Head(s2c) = s2c[1]
  <2>1. Len(s2c) = 1
    BY <1>1 DEF Quiet, Receiving, ClientReceive
  <2>2. QED
    BY <2>1, Types, OneElement DEF ClientReceive
<1>3. CASE Quiet
  <2>1. Head(s2c) = "COMPLETE" /\ cli = "wait_done"
    BY <1>2, <1>3 DEF Quiet, ClientReceive
  <2>2. cli' = "idle"
    BY <2>1 DEF ClientReceive
  <2>3. Quiet'
    BY <1>2, <1>3, <2>1, <2>2 DEF Quiet, ClientReceive, NoMessages, Calm, Settled
  <2>4. QED
    BY <2>3 DEF InSomePhase
<1>4. CASE Receiving
  <2>1. Head(s2c) = "READY" /\ cli = "wait_ready" /\ csent = 0
    BY <1>2, <1>4 DEF Receiving, ClientReceive
  <2>2. cli' = IF FileSize[cfile] = 0 THEN "wait_done" ELSE "sending"
    BY <2>1 DEF ClientReceive
  <2>3. FileSize[cfile] \in Nat
    BY <1>4 DEF Receiving, Described
  <2>4. Described' /\ (fileptr \notin Held)' /\ InHand' = InHand
    BY <1>4 DEF Receiving, Described, ClientReceive, Held, InHand
  <2>5. Receiving'
    BY <1>2, <1>4, <2>1, <2>2, <2>3, <2>4 DEF Receiving, ClientReceive, NoMessages
  <2>6. QED
    BY <2>5 DEF InSomePhase
<1>5. QED
  BY <1>1, <1>3, <1>4

LEMMA ClosePhase ==
  ASSUME UInv, [Next]_vars, ClientClose, crashed = "no"
  PROVE  InSomePhase'
<1>1. InSomePhase
  BY DEF UInv, Phases
<1>2. KeptFiles \subseteq KeptFiles' /\ Held' = Held
  BY KeptStays DEF ClientClose, Held
<1>3. Quiet => Quiet'
  BY <1>2 DEF Quiet, ClientClose, NoMessages, Calm, Settled
<1>4. Offered => Offered'
  BY DEF Offered, ClientClose, ExpectsReady, IsLine, NoMessages, Settled
<1>5. Broken => Broken'
  BY DEF Broken, ClientClose, ExpectsReady, Settled
<1>6. OfferRead => OfferRead'
  BY DEF OfferRead, ClientClose, ExpectsReady, IsLine, NoMessages, Settled
<1>7. OfferQueued => OfferQueued'
  BY DEF OfferQueued, ClientClose, ExpectsReady, IsLine, Calm, OneMessage, Settled
<1>8. OfferHandled => OfferHandled'
  BY DEF OfferHandled, ClientClose, ExpectsReady, IsLine, Calm, NoMessages
<1>9. Accepting => Accepting'
  BY <1>2 DEF Accepting, ClientClose, ExpectsReady, Described, Calm, NoMessages
<1>10. Receiving => Receiving'
  BY <1>2 DEF Receiving, ClientClose, Described, NoMessages, InHand
<1>11. Completing => Completing'
  BY <1>2 DEF Completing, ClientClose, Described, Calm, OneMessage, NoMessages
<1>12. QED
  BY <1>1, <1>3, <1>4, <1>5, <1>6, <1>7, <1>8, <1>9, <1>10, <1>11 DEF InSomePhase

\* What the writer does is not seen in a session's phase.
LEMMA WriterPhase ==
  ASSUME UInv, [Next]_vars, Writer, crashed = "no"
  PROVE  InSomePhase'
<1>0. UNCHANGED <<client, net, io, mq, msg, state, fbuf, fileptr, bufs, crashed>>
  BY DEF Writer, WriterStart, SaveBegin, SaveWrite, SaveFail, SaveEnd
<1>1. InSomePhase
  BY DEF UInv, Phases
<1>2. KeptFiles \subseteq KeptFiles' /\ Held' \subseteq Held
  BY <1>0, KeptStays, HeldSteps DEF MsgComplete
<1>3. Quiet => Quiet'
  BY <1>0, <1>2 DEF Quiet, NoMessages, Calm, Settled
<1>4. Offered => Offered'
  BY <1>0 DEF Offered, ExpectsReady, IsLine, NoMessages, Settled
<1>5. Broken => Broken'
  BY <1>0 DEF Broken, ExpectsReady, Settled
<1>6. OfferRead => OfferRead'
  BY <1>0 DEF OfferRead, ExpectsReady, IsLine, NoMessages, Settled
<1>7. OfferQueued => OfferQueued'
  BY <1>0 DEF OfferQueued, ExpectsReady, IsLine, Calm, OneMessage, Settled
<1>8. OfferHandled => OfferHandled'
  BY <1>0 DEF OfferHandled, ExpectsReady, IsLine, Calm, NoMessages
<1>9. Accepting => Accepting'
  BY <1>0, <1>2 DEF Accepting, ExpectsReady, Described, Calm, NoMessages
<1>10. Receiving => Receiving'
  BY <1>0, <1>2 DEF Receiving, Described, NoMessages, InHand
<1>11. Completing => Completing'
  BY <1>0, <1>2 DEF Completing, Described, Calm, OneMessage, NoMessages
<1>12. QED
  BY <1>1, <1>3, <1>4, <1>5, <1>6, <1>7, <1>8, <1>9, <1>10, <1>11 DEF InSomePhase

LEMMA IoReadPhase ==
  ASSUME UInv, [Next]_vars, \E n \in 1 .. PackSize : IoRead(n)
  PROVE  InSomePhase'
<1>0. PICK n \in 1 .. PackSize : IoRead(n)
  OBVIOUS
<1>1. /\ n \in Nat /\ n >= 1 /\ n <= Len(c2s) /\ iopc = "reading" /\ open /\ iopc' = "callback"
      /\ rbuf' = SubSeq(c2s, 1, n) /\ c2s' = SubSeq(c2s, n + 1, Len(c2s)) /\ c2s \in Seq(Units)
  <2>1. n \in Nat /\ n >= 1
    OBVIOUS
  <2>2. c2s \in Seq(Units)
    BY Types
  <2>3. QED
    BY <1>0, <2>1, <2>2 DEF IoRead
<1>2. /\ Len(rbuf') = n /\ \A i \in 1 .. n : rbuf'[i] = c2s[i]
      /\ Len(c2s') = Len(c2s) - n /\ \A i \in 1 .. Len(c2s) - n : c2s'[i] = c2s[n + i]
      /\ rbuf' # <<>>
  <2>1. Len(rbuf') = n /\ \A i \in 1 .. n : rbuf'[i] = c2s[i]
    BY <1>1
  <2>2. Len(c2s') = Len(c2s) - n /\ \A i \in 1 .. Len(c2s) - n : c2s'[i] = c2s[n + i]
    BY <1>1
  <2>3. QED
    BY <1>1, <2>1, <2>2, CutTypes
<1>3. /\ UNCHANGED <<client, s2c, open, mq, msg, state, fbuf, fileptr, bufs>>
      /\ Held' = Held
  BY <1>0 DEF IoRead, Held
<1>4. c2s' \in Seq(Units) /\ (Len(c2s') = 0 => c2s' = <<>>)
  <2>1. c2s' \in Seq(Units)
    BY <1>1, CutTypes
  <2>2. QED
    BY <2>1
<1>5. Offered \/ Broken \/ Receiving
  BY <1>1, AliveInPhase DEF InSomePhase, Quiet, OfferRead, OfferQueued, OfferHandled,
     Accepting, Completing
<1>6. CASE Offered /\ n = 1
  <2>1. Len(rbuf') = 1 /\ rbuf'[1] = InfoBody(cfile) /\ Len(c2s') = 1 /\ c2s'[1] = Newline
    BY <1>1, <1>2, <1>6 DEF Offered, IsLine
  <2>2. Broken'
    BY <1>1, <1>3, <1>6, <2>1 DEF Offered, Broken, ExpectsReady, NoMessages, Settled
  <2>3. QED
    BY <2>2 DEF InSomePhase
<1>7. CASE Offered /\ n = 2
  <2>1. IsLine(rbuf', cfile) /\ c2s' = <<>>
    BY <1>1, <1>2, <1>4, <1>7 DEF Offered, IsLine
  <2>2. OfferRead'
    BY <1>1, <1>3, <1>7, <2>1 DEF Offered, OfferRead, ExpectsReady, NoMessages, Settled, IsLine
  <2>3. QED
    BY <2>2 DEF InSomePhase
<1>8. CASE Broken
  <2>1. Len(c2s) = 1 /\ c2s[1] = Newline /\ rbuf[1] = InfoBody(cfile) /\ cfile \in Files
    BY <1>1, <1>8 DEF Broken, ExpectsReady
  <2>2. Len(rbuf') = 1 /\ rbuf'[1] = Newline /\ c2s' = <<>>
    BY <1>1, <1>2, <1>4, <2>1
  <2>3. rbuf[1] # Newline
    BY <2>1 DEF InfoBody, Newline
  <2>4. Broken'
    BY <1>1, <1>3, <1>8, <2>2, <2>3 DEF Broken, ExpectsReady, Settled
  <2>5. QED
    BY <2>4 DEF InSomePhase
<1>9. CASE Receiving
  <2>1. InHand = 0 /\ InHand' = n
    BY <1>1, <1>2 DEF InHand
  <2>2. fileptr \in Buffers /\ brcv[fileptr] \in Nat /\ Len(c2s) \in Nat /\ csent \in Nat
    BY <1>1, <1>9, Types DEF Receiving, Described
  <2>3. csent = brcv[fileptr] + Len(c2s) /\ \A i \in 1 .. Len(c2s) : c2s[i] = Data(cfile, brcv[fileptr] + i)
    BY <1>9, <2>1, <2>2 DEF Receiving
  <2>4. csent = brcv[fileptr] + n + Len(c2s')
    BY <1>1, <1>2, <2>2, <2>3
  <2>5. \A i \in 1 .. Len(rbuf') : rbuf'[i] = Data(cfile, brcv[fileptr] + i)
    BY <1>1, <1>2, <2>2, <2>3
  <2>6. \A i \in 1 .. Len(c2s') : c2s'[i] = Data(cfile, brcv[fileptr] + n + i)
    <3> SUFFICES ASSUME NEW i \in 1 .. Len(c2s') PROVE c2s'[i] = Data(cfile, brcv[fileptr] + n + i)
      OBVIOUS
    <3>1. c2s'[i] = c2s[n + i] /\ n + i \in 1 .. Len(c2s)
      BY <1>1, <1>2, <2>2
    <3>2. brcv[fileptr] + (n + i) = brcv[fileptr] + n + i
      BY <1>1, <2>2
    <3>3. QED
      BY <2>3, <3>1, <3>2
  <2>7. NoMessages' /\ Described' /\ (fileptr \notin Held)'
    BY <1>3, <1>9 DEF Receiving, NoMessages, Described
  <2>8. Receiving'
    BY <1>1, <1>2, <1>3, <1>9, <2>1, <2>4, <2>5, <2>6, <2>7 DEF Receiving
  <2>9. QED
    BY <2>8 DEF InSomePhase
<1>10. Offered => n = 1 \/ n = 2
  BY <1>1 DEF Offered, IsLine
<1>11. QED
  BY <1>5, <1>6, <1>7, <1>8, <1>9, <1>10

LEMMA IoErrorPhase ==
  ASSUME UInv, [Next]_vars, IoError
  PROVE  InSomePhase'
<1>0. /\ UNCHANGED <<client, net, rbuf, mq, msg, state, fbuf, fileptr, bufs>>
      /\ iopc = "reading" /\ iopc' = "post_close" /\ (~open \/ (cli = "closed" /\ c2s = <<>>))
  BY DEF IoError
<1>1. InSomePhase
  BY <1>0, AliveInPhase
<1>2. KeptFiles \subseteq KeptFiles' /\ Held' = Held
  BY KeptStays DEF IoError, Held
<1>3. Quiet => Quiet'
  BY <1>0, <1>2 DEF Quiet, NoMessages, Calm, Settled
<1>4. ~Offered /\ ~OfferRead
  BY <1>0 DEF Offered, OfferRead, IsLine
<1>5. Broken => Broken'
  BY <1>0 DEF Broken, ExpectsReady, Settled
<1>6. OfferQueued => OfferQueued'
  BY <1>0 DEF OfferQueued, ExpectsReady, IsLine, Calm, OneMessage, Settled
<1>7. OfferHandled => OfferHandled'
  BY <1>0 DEF OfferHandled, ExpectsReady, IsLine, Calm, NoMessages
<1>8. Accepting => Accepting'
  BY <1>0, <1>2 DEF Accepting, ExpectsReady, Described, Calm, NoMessages
<1>9. Receiving => Receiving'
  BY <1>0, <1>2 DEF Receiving, Described, NoMessages, InHand
<1>10. Completing => Completing'
  BY <1>0, <1>2 DEF Completing, Described, Calm, OneMessage, NoMessages
<1>11. QED
  BY <1>1, <1>3, <1>4, <1>5, <1>6, <1>7, <1>8, <1>9, <1>10 DEF InSomePhase

LEMMA IoCheckReadyPhase ==
  ASSUME UInv, [Next]_vars, IoCheckReady
  PROVE  InSomePhase'
<1>0. /\ UNCHANGED <<client, net, rbuf, mq, msg, state, fbuf, fileptr, bufs>> /\ Held' = Held
      /\ iopc = "callback" /\ iopc' = IF state = "READY" THEN "data" ELSE "check_waiting"
  BY DEF IoCheckReady, Held
<1>1. Broken \/ OfferRead \/ Receiving
  BY <1>0, AliveInPhase DEF InSomePhase, Quiet, Offered, OfferQueued, OfferHandled,
     Accepting, Completing, Calm
<1>2. Broken => Broken'
  BY <1>0 DEF Broken, ExpectsReady, Settled
<1>3. OfferRead => OfferRead'
  BY <1>0 DEF OfferRead, ExpectsReady, IsLine, NoMessages, Settled
<1>4. Receiving => Receiving'
  BY <1>0 DEF Receiving, Described, NoMessages, InHand
<1>5. QED
  BY <1>1, <1>2, <1>3, <1>4 DEF InSomePhase

\* Here a line can be dropped: state_ is still COMPLETE when the client, which
\* has had its answer, offers the next file.
LEMMA IoCheckWaitingPhase ==
  ASSUME UInv, [Next]_vars, IoCheckWaiting
  PROVE  InSomePhase'
<1>0. /\ UNCHANGED <<client, net, rbuf, mq, msg, state, fbuf, fileptr, bufs>>
      /\ iopc = "check_waiting" /\ iopc' = IF state = "WAITING" THEN "post_receive" ELSE "rearm"
  BY DEF IoCheckWaiting
<1>1. Broken \/ OfferRead
  BY <1>0, AliveInPhase DEF InSomePhase, Quiet, Offered, OfferQueued, OfferHandled,
     Accepting, Receiving, Completing, Calm
<1>2. Broken => Broken'
  BY <1>0 DEF Broken, ExpectsReady, Settled
<1>3. CASE OfferRead /\ state = "WAITING"
  BY <1>0, <1>3 DEF InSomePhase, OfferRead, ExpectsReady, IsLine, NoMessages, Settled
<1>4. CASE OfferRead /\ state # "WAITING"
  <2>1. Quiet'
    BY <1>0, <1>4 DEF Quiet, Calm, OfferRead, ExpectsReady, NoMessages, Settled
  <2>2. QED
    BY <2>1 DEF InSomePhase
<1>5. QED
  BY <1>1, <1>2, <1>3, <1>4 DEF InSomePhase

LEMMA IoDataPhase ==
  ASSUME UInv, [Next]_vars, IoData
  PROVE  InSomePhase'
<1>1. Receiving /\ iopc = "data"
  BY AliveInPhase DEF IoData, InSomePhase, Quiet, Offered, Broken, OfferRead, OfferQueued,
     OfferHandled, Accepting, Completing, Calm
<1>2. fileptr \in Buffers /\ cfile \in Files /\ fileptr # NoBuf /\ tcpptr
  BY <1>1 DEF Receiving, Described, UInv, IInv, CloseIsLast
<1>3. /\ bname[fileptr] = cfile /\ bsize[fileptr] = FileSize[cfile] /\ FileSize[cfile] \in Nat
      /\ brcv[fileptr] \in Nat /\ Len(rbuf) \in Nat /\ Len(c2s) \in Nat /\ InHand = Len(rbuf)
      /\ csent = brcv[fileptr] + Len(rbuf) + Len(c2s) /\ csent <= FileSize[cfile]
      /\ Len(rbuf) # 0 /\ csent \in Nat
  BY <1>1, <1>2, Types DEF Receiving, Described, InHand
<1>4. /\ fbuf' = Garbage /\ DataArrive(fileptr) /\ UNCHANGED <<mpc, wpc, crashed>>
      /\ UNCHANGED <<client, net, rbuf, mq, tcpptr, pos, seen, status, state, fileptr,
                     bname, bsize>>
      /\ Held' = Held
  BY <1>2 DEF IoData, Held
<1>5. brcv'[fileptr] = brcv[fileptr] + Len(rbuf)
  BY <1>2, <1>4 DEF DataArrive, UInv, IInv, TypeOK, BufferTypeOK
<1>6. iopc' = (IF brcv'[fileptr] >= FileSize[cfile] THEN "post_complete" ELSE "rearm")
  BY <1>3, <1>4, <1>5 DEF DataArrive
<1>7. \A i \in 1 .. brcv'[fileptr] : bdata'[fileptr][i] = Data(cfile, i)
  <2>1. bdata'[fileptr] = [i \in 1 .. bsize[fileptr] |->
                             IF i > brcv[fileptr] /\ i <= brcv[fileptr] + Len(rbuf)
                             THEN rbuf[i - brcv[fileptr]] ELSE bdata[fileptr][i]]
    BY <1>2, <1>4 DEF DataArrive, UInv, IInv, TypeOK, BufferTypeOK
  <2> SUFFICES ASSUME NEW i \in 1 .. brcv'[fileptr]
               PROVE  bdata'[fileptr][i] = Data(cfile, i)
    OBVIOUS
  <2>2. i \in 1 .. bsize[fileptr] /\ i <= brcv[fileptr] + Len(rbuf)
    BY <1>3, <1>5
  <2>3. CASE i > brcv[fileptr]
    <3>1. i - brcv[fileptr] \in 1 .. Len(rbuf) /\ brcv[fileptr] + (i - brcv[fileptr]) = i
      BY <1>3, <2>2, <2>3
    <3>2. rbuf[i - brcv[fileptr]] = Data(cfile, i)
      BY <1>1, <3>1 DEF Receiving
    <3>3. QED
      BY <2>1, <2>2, <2>3, <3>2
  <2>4. CASE ~(i > brcv[fileptr])
    <3>1. bdata[fileptr][i] = Data(cfile, i)
      BY <1>1, <1>3, <2>2, <2>4 DEF Receiving
    <3>2. QED
      BY <2>1, <2>2, <2>4, <3>1
  <2>5. QED
    BY <2>3, <2>4
<1>8. InHand' = 0
  BY <1>6 DEF InHand
<1>9. csent' = brcv'[fileptr] + InHand' + Len(c2s')
  BY <1>3, <1>4, <1>5, <1>8
<1>10. \A i \in 1 .. Len(c2s) : c2s[i] = Data(cfile, brcv'[fileptr] + 0 + i)
  <2> SUFFICES ASSUME NEW i \in 1 .. Len(c2s) PROVE c2s[i] = Data(cfile, brcv'[fileptr] + 0 + i)
    OBVIOUS
  <2>1. c2s[i] = Data(cfile, brcv[fileptr] + InHand + i)
    BY <1>1 DEF Receiving
  <2>2. QED
    BY <1>3, <1>5, <2>1
<1>11. iopc' = "post_complete" => brcv'[fileptr] = FileSize[cfile] /\ brcv'[fileptr] # 0
  BY <1>3, <1>5, <1>6
<1>12. NoMessages' /\ Described' /\ (fileptr \notin Held)'
  BY <1>1, <1>4 DEF Receiving, NoMessages, Described
<1>13. Receiving'
  BY <1>1, <1>3, <1>4, <1>6, <1>7, <1>8, <1>9, <1>10, <1>11, <1>12 DEF Receiving
<1>14. QED
  BY <1>13 DEF InSomePhase

LEMMA IoRearmPhase ==
  ASSUME UInv, [Next]_vars, IoRearm
  PROVE  InSomePhase'
<1>0. /\ UNCHANGED <<client, net, rbuf, mq, msg, state, fbuf, fileptr, bufs>>
      /\ iopc = "rearm" /\ iopc' = IF open THEN "reading" ELSE "done"
  BY DEF IoRearm
<1>1. InSomePhase
  BY <1>0, AliveInPhase
<1>2. KeptFiles \subseteq KeptFiles' /\ Held' = Held
  BY KeptStays DEF IoRearm, Held
<1>3. Quiet => Quiet'
  BY <1>0, <1>2 DEF Quiet, NoMessages, Calm, Settled
<1>4. Offered => Offered'
  BY <1>0 DEF Offered, ExpectsReady, IsLine, NoMessages, Settled
<1>5. Broken => Broken'
  BY <1>0 DEF Broken, ExpectsReady, Settled
<1>6. OfferQueued => OfferQueued'
  BY <1>0 DEF OfferQueued, ExpectsReady, IsLine, Calm, OneMessage, Settled
<1>7. OfferHandled => OfferHandled'
  BY <1>0 DEF OfferHandled, ExpectsReady, IsLine, Calm, NoMessages
<1>8. Accepting => Accepting'
  BY <1>0, <1>2 DEF Accepting, ExpectsReady, Described, Calm, NoMessages
<1>9. Receiving => Receiving'
  BY <1>0, <1>2 DEF Receiving, Described, NoMessages, InHand
<1>10. Completing => Completing'
  BY <1>0, <1>2 DEF Completing, Described, Calm, OneMessage, NoMessages
<1>11. ~OfferRead
  BY <1>0 DEF OfferRead
<1>12. QED
  BY <1>1, <1>3, <1>4, <1>5, <1>6, <1>7, <1>8, <1>9, <1>10, <1>11 DEF InSomePhase

LEMMA IoPostPhase ==
  ASSUME UInv, [Next]_vars, IoPost
  PROVE  InSomePhase'
<1>0. /\ UNCHANGED <<client, net, rbuf, msg, state, fbuf, fileptr, bufs>>
      /\ iopc \in PostPcs /\ mq' = Append(mq, Posted)
      /\ iopc' = IF iopc = "post_close" THEN "done" ELSE "rearm"
  BY DEF IoPost
<1>1. KeptFiles \subseteq KeptFiles' /\ Held' = Held
  BY KeptStays DEF IoPost, Held
<1>2. mq \in Seq(Messages) /\ iopc \in {"post_receive", "post_complete", "post_close"}
  BY <1>0, Types DEF PostPcs
<1>3. Posted \in Messages
  BY <1>0 DEF PostPcs, Posted, Messages
<1>4. /\ Len(mq') = Len(mq) + 1 /\ \A i \in 1 .. Len(mq) : mq'[i] = mq[i]
      /\ mq'[Len(mq) + 1] = Posted /\ mq' # <<>> /\ Len(mq) \in Nat
  BY <1>0, <1>2, <1>3
<1>5. InSomePhase
  BY <1>2, AliveInPhase
<1>6. CASE iopc = "post_receive"
  <2>1. Posted = "NETWORK_RECEIVE" /\ iopc' = "rearm"
    BY <1>0, <1>6 DEF Posted
  <2>2. Broken \/ OfferRead
    BY <1>5, <1>6 DEF InSomePhase, Quiet, Offered, OfferQueued, OfferHandled, Accepting,
         Receiving, Completing, Calm
  <2>3. CASE Broken
    <3>1. \A i \in 1 .. Len(mq') : mq'[i] \in {"NETWORK_RECEIVE", "NETWORK_CLOSE"}
      BY <1>4, <2>1, <2>3 DEF Broken
    <3>2. Broken'
      BY <1>0, <2>1, <2>3, <3>1 DEF Broken, ExpectsReady, Settled
    <3>3. QED
      BY <3>2 DEF InSomePhase
  <2>4. CASE OfferRead
    <3>1. mq = <<>>
      BY <1>6, <2>4, EmptyQueue DEF OfferRead
    <3>2. Len(mq') = 1 /\ mq'[1] = "NETWORK_RECEIVE"
      BY <1>4, <2>1, <3>1
    <3>3. OneMessage("NETWORK_RECEIVE")'
      BY <1>4, <3>2, NoneAfterFirst DEF OneMessage
    <3>4. OfferQueued'
      BY <1>0, <2>1, <2>4, <3>3 DEF OfferRead, OfferQueued, ExpectsReady, IsLine, Calm, Settled
    <3>5. QED
      BY <3>4 DEF InSomePhase
  <2>5. QED
    BY <2>2, <2>3, <2>4
<1>7. CASE iopc = "post_complete"
  <2>1. Posted = "RECEIVE_COMPLETE" /\ iopc' = "rearm"
    BY <1>0, <1>7 DEF Posted
  <2>2. Receiving
    BY <1>5, <1>7 DEF InSomePhase, Quiet, Offered, Broken, OfferRead, OfferQueued, OfferHandled,
         Accepting, Completing, Calm
  <2>3. mq = <<>> /\ mpc = "receive"
    BY <1>7, <2>2, EmptyQueue DEF Receiving, UInv, IInv, CloseIsLast
  <2>4. OneMessage("RECEIVE_COMPLETE")'
    <3>1. Len(mq') = 1 /\ mq'[1] = "RECEIVE_COMPLETE"
      BY <1>4, <2>1, <2>3
    <3>2. QED
      BY <1>4, <3>1, NoneAfterFirst DEF OneMessage
  <2>5. /\ fileptr \in Buffers /\ cfile \in Files /\ bsize[fileptr] = FileSize[cfile]
        /\ FileSize[cfile] \in Nat /\ brcv[fileptr] = FileSize[cfile] /\ FileSize[cfile] # 0
        /\ fbuf = Garbage /\ InHand = 0 /\ Len(c2s) \in Nat
    BY <1>7, <2>2, Types DEF Receiving, Described, InHand
  <2>6. csent = FileSize[cfile] /\ Len(c2s) = 0
    BY <2>2, <2>5, Types DEF Receiving
  <2>7. c2s = <<>> /\ s2c = <<>> /\ cli \in {"wait_done", "closed"}
    BY <2>2, <2>5, <2>6, Types DEF Receiving
  <2>8. bdata[fileptr] = Content(cfile)
    <3>1. bdata[fileptr] \in [1 .. FileSize[cfile] -> Units]
      BY <2>5 DEF UInv, IInv, TypeOK, BufferTypeOK
    <3>2. \A i \in 1 .. FileSize[cfile] : bdata[fileptr][i] = Data(cfile, i)
      BY <2>2, <2>5 DEF Receiving
    <3>3. QED
      BY <3>1, <3>2 DEF Content
  <2>9. Completing'
    BY <1>0, <1>1, <1>7, <2>1, <2>2, <2>3, <2>4, <2>5, <2>7, <2>8
    DEF Receiving, Completing, Described, Calm
  <2>10. QED
    BY <2>9 DEF InSomePhase
<1>8. CASE iopc = "post_close"
  <2>1. Posted = "NETWORK_CLOSE" /\ iopc' = "done"
    BY <1>0, <1>8 DEF Posted
  <2>2. NoMessages => NoMessages'
    BY <1>4, <2>1 DEF NoMessages
  <2>3. OneMessage("NETWORK_RECEIVE") => OneMessage("NETWORK_RECEIVE")'
    BY <1>2, <1>4, <2>1 DEF OneMessage
  <2>4. OneMessage("RECEIVE_COMPLETE") => OneMessage("RECEIVE_COMPLETE")'
    BY <1>2, <1>4, <2>1 DEF OneMessage
  <2>5. Calm => Calm'
    BY <1>0, <1>8, <2>1 DEF Calm
  <2>6. ~Offered /\ ~OfferRead
    BY <1>8 DEF Offered, OfferRead
  <2>7. Quiet => Quiet'
    BY <1>0, <1>1, <2>2, <2>5 DEF Quiet, Settled
  <2>8. Broken => Broken'
    <3>1. Broken => \A i \in 1 .. Len(mq') : mq'[i] \in {"NETWORK_RECEIVE", "NETWORK_CLOSE"}
      BY <1>4, <2>1 DEF Broken
    <3>2. QED
      BY <1>0, <2>1, <3>1 DEF Broken, ExpectsReady, Settled
  <2>9. OfferQueued => OfferQueued'
    BY <1>0, <2>3, <2>5 DEF OfferQueued, ExpectsReady, IsLine, Settled
  <2>10. OfferHandled => OfferHandled'
    BY <1>0, <2>2, <2>5 DEF OfferHandled, ExpectsReady, IsLine
  <2>11. Accepting => Accepting'
    BY <1>0, <1>1, <2>2, <2>5 DEF Accepting, ExpectsReady, Described
  <2>12. Receiving => Receiving'
    BY <1>0, <1>1, <1>8, <2>1, <2>2 DEF Receiving, Described, InHand
  <2>13. Completing => Completing'
    BY <1>0, <1>1, <2>2, <2>4, <2>5 DEF Completing, Described
  <2>14. QED
    BY <1>5, <2>6, <2>7, <2>8, <2>9, <2>10, <2>11, <2>12, <2>13 DEF InSomePhase
<1>9. QED
  BY <1>2, <1>6, <1>7, <1>8

LEMMA MsgReceivePhase ==
  ASSUME UInv, [Next]_vars, MsgReceive, crashed' = "no"
  PROVE  InSomePhase'
<1>0. /\ UNCHANGED <<client, net, rbuf, tcpptr, pos, seen, status, state, fbuf, fileptr, bufs>>
      /\ mpc = "receive" /\ mq # <<>> /\ mq' = Tail(mq) /\ Held' = Held
  BY DEF MsgReceive, Held
<1>1. InSomePhase /\ crashed = "no"
  BY <1>0, AliveInPhase
<1>2. mpc' = Handler(Head(mq)) /\ iopc' = iopc
  BY <1>1 DEF MsgReceive, Terminate
<1>3. mq \in Seq(Messages) /\ Head(mq) = mq[1] /\ Len(mq) \in Nat /\ Len(mq) >= 1
  BY <1>0, Types
<1>4. Len(mq') = Len(mq) - 1 /\ \A i \in 1 .. Len(mq) - 1 : mq'[i] = mq[i + 1]
  BY <1>0, <1>3
<1>5. KeptFiles \subseteq KeptFiles'
  BY KeptStays
<1>6. NoMessages => mq[1] = "NETWORK_CLOSE" /\ NoMessages' /\ mpc' = "close"
  BY <1>2, <1>3, <1>4 DEF NoMessages, Handler
<1>7. \A m \in Messages : OneMessage(m) => NoMessages'
  BY <1>3, <1>4 DEF OneMessage, NoMessages
<1>8. NoMessages => iopc \in {"done", "dead"}
  BY <1>0, EmptyQueue
<1>9. CASE Quiet
  <2>1. Quiet'
    BY <1>0, <1>2, <1>5, <1>6, <1>9 DEF Quiet, Calm, Settled
  <2>2. QED
    BY <2>1 DEF InSomePhase
<1>10. CASE Broken
  <2>1. mq[1] \in {"NETWORK_RECEIVE", "NETWORK_CLOSE"} /\ mpc' \in {"lookup", "close"}
    BY <1>2, <1>3, <1>10 DEF Broken, Handler
  <2>2. \A i \in 1 .. Len(mq') : mq'[i] \in {"NETWORK_RECEIVE", "NETWORK_CLOSE"}
    BY <1>3, <1>4, <1>10 DEF Broken
  <2>3. Broken'
    BY <1>0, <1>2, <1>10, <2>1, <2>2 DEF Broken, ExpectsReady, Settled
  <2>4. QED
    BY <2>3 DEF InSomePhase
<1>11. CASE OfferQueued
  <2>1. mpc' = "lookup" /\ NoMessages'
    BY <1>2, <1>3, <1>7, <1>11 DEF OfferQueued, OneMessage, Handler, Messages
  <2>2. OfferHandled'
    BY <1>0, <1>2, <1>11, <2>1 DEF OfferQueued, OfferHandled, ExpectsReady, IsLine, Calm, Settled
  <2>3. QED
    BY <2>2 DEF InSomePhase
<1>12. CASE Receiving
  <2>1. NoMessages' /\ mpc' = "close"
    BY <1>6, <1>12 DEF Receiving
  <2>2. Receiving'
    BY <1>0, <1>2, <1>12, <2>1 DEF Receiving, Described, InHand
  <2>3. QED
    BY <2>2 DEF InSomePhase
<1>13. CASE Completing
  <2>1. mq[1] = "RECEIVE_COMPLETE" /\ fileptr \notin Held /\ OneMessage("RECEIVE_COMPLETE")
    BY <1>0, <1>13 DEF Completing, OneMessage
  <2>2. mpc' = "complete" /\ NoMessages'
    BY <1>2, <1>3, <1>7, <2>1 DEF Handler, Messages
  <2>3. Completing'
    BY <1>0, <1>2, <1>13, <2>1, <2>2 DEF Completing, Described, Calm
  <2>4. QED
    BY <2>3 DEF InSomePhase
<1>14. ~Offered /\ ~OfferRead /\ ~OfferHandled /\ ~Accepting
  BY <1>0, <1>8 DEF Offered, OfferRead, OfferHandled, Accepting
<1>15. QED
  BY <1>1, <1>9, <1>10, <1>11, <1>12, <1>13, <1>14 DEF InSomePhase

LEMMA MsgLookupPhase ==
  ASSUME UInv, [Next]_vars, \E p \in 0 .. PackSize : MsgLookup(p)
  PROVE  InSomePhase'
<1>0. PICK p \in 0 .. PackSize : MsgLookup(p)
  OBVIOUS
<1>1. /\ UNCHANGED <<client, net, io, mq, tcpptr, status, state, fbuf, fileptr, bufs>>
      /\ mpc = "lookup" /\ p \in Newlines /\ pos' = p /\ seen' = rbuf /\ mpc' = "read"
  BY <1>0 DEF MsgLookup
<1>2. Broken \/ OfferHandled
  BY <1>1, AliveInPhase DEF InSomePhase, Quiet, Offered, OfferRead, OfferQueued, Accepting,
     Receiving, Completing
<1>3. CASE Broken
  <2>1. Len(rbuf) = 1 /\ rbuf[1] \in {InfoBody(cfile), Newline}
    BY <1>3 DEF Broken
  <2>2. p = 0 \/ (p = 1 /\ rbuf[1] = Newline)
    BY <1>1, <2>1 DEF Newlines, InfoBody, Newline
  <2>3. Broken'
    BY <1>1, <1>3, <2>2 DEF Broken, ExpectsReady, Settled
  <2>4. QED
    BY <2>3 DEF InSomePhase
<1>4. CASE OfferHandled
  <2>1. Len(rbuf) = 2 /\ rbuf[1] = InfoBody(cfile) /\ rbuf[2] = Newline
    BY <1>4 DEF OfferHandled, IsLine
  <2>2. p = 2
    BY <1>1, <2>1 DEF Newlines, InfoBody, Newline
  <2>3. OfferHandled'
    BY <1>1, <1>4, <2>2 DEF OfferHandled, ExpectsReady, IsLine, Calm, NoMessages
  <2>4. QED
    BY <2>3 DEF InSomePhase
<1>5. QED
  BY <1>2, <1>3, <1>4

LEMMA MsgReadPhase ==
  ASSUME UInv, [Next]_vars, MsgRead
  PROVE  InSomePhase'
<1>1. /\ UNCHANGED <<client, net, io, mq, tcpptr, pos, seen, status, state, fileptr, bufs>>
      /\ mpc = "read" /\ mpc' = "resolve" /\ fbuf' \in LineRead
  BY DEF MsgRead
<1>2. Broken \/ OfferHandled
  BY <1>1, AliveInPhase DEF InSomePhase, Quiet, Offered, OfferRead, OfferQueued, Accepting,
     Receiving, Completing
<1>3. CASE Broken
  <2>1. pos = 0 \/ (pos = 1 /\ rbuf[1] = Newline)
    BY <1>1, <1>3 DEF Broken
  <2>2. fbuf' = Garbage
    <3>1. CASE pos = 0
      BY <1>1, <1>3, <3>1 DEF LineRead, Broken
    <3>2. CASE pos = 1 /\ rbuf[1].k # "info"
      <4>1. (CASE pos = 2 /\ rbuf[1].k = "info" -> Info(rbuf[1].f, FileSize[rbuf[1].f])
               [] pos = 2 /\ rbuf[1].k = "stat" -> Stat
               [] OTHER -> Garbage) = Garbage
        BY <3>2
      <4>2. QED
        BY <1>1, <3>2, <4>1 DEF LineRead
    <3>3. QED
      BY <2>1, <3>1, <3>2 DEF Newline
  <2>3. Broken'
    BY <1>1, <1>3, <2>2 DEF Broken, ExpectsReady, Settled
  <2>4. QED
    BY <2>3 DEF InSomePhase
<1>4. CASE OfferHandled
  <2>1. rbuf[1].k = "info" /\ rbuf[1].f = cfile /\ pos = 2 /\ seen = rbuf
    BY <1>1, <1>4 DEF OfferHandled, IsLine, InfoBody
  <2>2. (CASE pos = 2 /\ rbuf[1].k = "info" -> Info(rbuf[1].f, FileSize[rbuf[1].f])
           [] pos = 2 /\ rbuf[1].k = "stat" -> Stat
           [] OTHER -> Garbage) = Info(cfile, FileSize[cfile])
    BY <2>1
  <2>3. fbuf' = Info(cfile, FileSize[cfile])
    BY <1>1, <2>1, <2>2 DEF LineRead
  <2>4. OfferHandled'
    BY <1>1, <1>4, <2>3 DEF OfferHandled, ExpectsReady, IsLine, Calm, NoMessages
  <2>5. QED
    BY <2>4 DEF InSomePhase
<1>5. QED
  BY <1>2, <1>3, <1>4

\* The line that is being looked at when a session is at the end of "resolve".
LEMMA Resolving ==
  ASSUME UInv, mpc = "resolve"
  PROVE  \/ OfferHandled /\ fbuf = Info(cfile, FileSize[cfile]) /\ fbuf.k = "info"
         \/ Broken /\ fbuf = Garbage /\ fbuf.k = "garbage"
<1>1. Broken \/ OfferHandled
  BY AliveInPhase DEF InSomePhase, Quiet, Offered, OfferRead, OfferQueued, Accepting,
     Receiving, Completing
<1>2. QED
  BY <1>1 DEF Broken, OfferHandled, Info, Garbage

LEMMA MsgFileInfoPhase ==
  ASSUME UInv, [Next]_vars, \E b \in Buffers : MsgFileInfo(b)
  PROVE  InSomePhase'
<1>0. PICK b \in Buffers : MsgFileInfo(b)
  OBVIOUS
<1>1. /\ UNCHANGED <<client, net, io, mq, tcpptr, pos, seen, state, fbuf, writer>>
      /\ mpc = "resolve" /\ fbuf.k = "info" /\ mpc' = "notify" /\ status' = "READY"
      /\ TakeBuffer(b, fbuf.f, fbuf.size) /\ Held' = Held
  BY <1>0 DEF MsgFileInfo, Held
<1>2. OfferHandled /\ fbuf = Info(cfile, FileSize[cfile])
  BY <1>1, Resolving
<1>3. fbuf.f = cfile /\ fbuf.size = FileSize[cfile] /\ cfile \in Files
  BY <1>2 DEF Info, OfferHandled, ExpectsReady
<1>4. fileptr' = b /\ b \notin Held
  BY <1>1, Types DEF TakeBuffer, NeedsNew, InUse
<1>5. bname'[b] = cfile /\ bsize'[b] = FileSize[cfile] /\ brcv'[b] = 0
  BY <1>1, <1>3 DEF TakeBuffer, UInv, IInv, TypeOK, BufferTypeOK
<1>6. Accepting'
  BY <1>1, <1>2, <1>3, <1>4, <1>5 DEF OfferHandled, Accepting, ExpectsReady, Described, Calm,
     NoMessages
<1>7. QED
  BY <1>6 DEF InSomePhase

\* A line that was cut in two is no line: the connection is closed.
LEMMA MsgWrongPhase ==
  ASSUME UInv, [Next]_vars, MsgWrong
  PROVE  InSomePhase'
<1>1. Broken
  BY Resolving DEF MsgWrong
<1>2. Broken'
  BY <1>1 DEF MsgWrong, Broken, ExpectsReady, Settled
<1>3. QED
  BY <1>2 DEF InSomePhase

LEMMA MsgCompletePhase ==
  ASSUME UInv, [Next]_vars, MsgComplete
  PROVE  InSomePhase'
<1>1. /\ UNCHANGED <<client, net, io, mq, tcpptr, pos, seen, state, fbuf, fileptr, bufs>>
      /\ mpc = "complete" /\ mpc' = "notify"
  BY DEF MsgComplete
<1>2. Completing /\ NoMessages
  BY <1>1, AliveInPhase DEF InSomePhase, Quiet, Offered, Broken, OfferRead, OfferQueued,
     OfferHandled, Accepting, Receiving, Completing
<1>3. fileptr \in Buffers /\ bname[fileptr] = cfile /\ bsize[fileptr] = brcv[fileptr]
  BY <1>2 DEF Completing, Described
<1>4. status' = "COMPLETE"
  BY <1>3 DEF MsgComplete
<1>5. cfile \in KeptFiles'
  <2>1. CASE running
    <3>1. fwq' = Append(fwq, fileptr) /\ fwq \in Seq(Buffers)
      BY <1>3, <2>1, Types DEF MsgComplete
    <3>2. fileptr \in RangeOf(Append(fwq, fileptr))
      BY <1>3, <3>1 DEF RangeOf
    <3>3. fileptr \in Held'
      BY <3>1, <3>2 DEF Held
    <3>4. QED
      BY <1>1, <1>3, <3>3 DEF KeptFiles
  <2>2. CASE ~running
    BY <1>3, <2>2 DEF MsgComplete, KeptFiles
  <2>3. QED
    BY <2>1, <2>2
<1>6. Completing'
  BY <1>1, <1>2, <1>4, <1>5 DEF Completing, Described, Calm, NoMessages
<1>7. QED
  BY <1>6 DEF InSomePhase

LEMMA MsgNotifyPhase ==
  ASSUME UInv, [Next]_vars, MsgNotify
  PROVE  InSomePhase'
<1>1. /\ UNCHANGED <<client, net, io, mq, tcpptr, pos, seen, status, fbuf, fileptr, bufs>>
      /\ mpc = "notify" /\ mpc' = "write" /\ state' = status /\ Held' = Held
      /\ KeptFiles' = KeptFiles
  BY DEF MsgNotify, Held, KeptFiles
<1>2. Accepting \/ Completing
  BY <1>1, AliveInPhase DEF InSomePhase, Quiet, Offered, Broken, OfferRead, OfferQueued,
     OfferHandled, Receiving
<1>3. Accepting => Accepting'
  BY <1>1 DEF Accepting, ExpectsReady, Described, Calm, NoMessages
<1>4. Completing => Completing'
  BY <1>1 DEF Completing, Described, Calm, NoMessages
<1>5. QED
  BY <1>2, <1>3, <1>4 DEF InSomePhase

LEMMA MsgWritePhase ==
  ASSUME UInv, [Next]_vars, MsgWrite
  PROVE  InSomePhase'
<1>1. /\ UNCHANGED <<client, c2s, open, io, mq, tcpptr, pos, seen, status, state, fbuf, fileptr, bufs>>
      /\ mpc = "write" /\ open /\ mpc' = AfterWrite /\ Held' = Held /\ KeptFiles' = KeptFiles
      /\ s2c' = IF cli = "closed" THEN s2c ELSE Append(s2c, status)
  BY DEF MsgWrite, Held, KeptFiles
<1>2. Accepting \/ Completing
  BY <1>1, AliveInPhase DEF InSomePhase, Quiet, Offered, Broken, OfferRead, OfferQueued,
     OfferHandled, Receiving
<1>3. s2c = <<>> => Len(Append(s2c, status)) = 1 /\ Append(s2c, status)[1] = status
  OBVIOUS
<1>4. CASE Accepting
  <2>1. /\ s2c = <<>> /\ c2s = <<>> /\ status = "READY" /\ mpc' = "receive" /\ state = "READY"
        /\ csent = 0 /\ cli \in {"wait_ready", "closed"}
    BY <1>1, <1>4 DEF Accepting, ExpectsReady, AfterWrite
  <2>2. /\ fileptr \in Buffers /\ cfile \in Files /\ brcv[fileptr] = 0 /\ FileSize[cfile] \in Nat
        /\ iopc \in {"reading", "rearm", "post_close", "done"}
    BY <1>4 DEF Accepting, Described, Calm
  <2>3. Described' /\ (fileptr \notin Held)' /\ NoMessages' /\ InHand' = 0
    BY <1>1, <1>4, <2>2 DEF Accepting, Described, NoMessages, InHand
  <2>4. \/ s2c' = <<>> /\ cli = "closed"
        \/ Len(s2c') = 1 /\ s2c'[1] = "READY"
    BY <1>1, <1>3, <2>1
  <2>5. 1 .. 0 = {} /\ Len(c2s) = 0
    BY <2>1
  <2>6. cli # "closed" => open /\ iopc \notin {"post_close", "done"}
    BY <1>4 DEF Accepting, Calm
  <2>7. /\ csent' = brcv'[fileptr'] + InHand' + Len(c2s') /\ csent' <= FileSize[cfile]
        /\ \A i \in 1 .. brcv'[fileptr'] : FALSE
        /\ \A i \in 1 .. Len(c2s') : FALSE
    BY <1>1, <2>1, <2>2, <2>3, <2>5
  <2>8. Receiving'
    BY <1>1, <2>1, <2>2, <2>3, <2>4, <2>6, <2>7 DEF Receiving
  <2>9. QED
    BY <2>8 DEF InSomePhase
<1>5. CASE Completing
  <2>1. /\ s2c = <<>> /\ c2s = <<>> /\ status = "COMPLETE" /\ NoMessages /\ cfile \in KeptFiles
        /\ cli \in {"wait_done", "closed"} /\ state = "COMPLETE" /\ fbuf = Garbage
    BY <1>1, <1>5 DEF Completing
  <2>2. mpc' = "settle"
    BY <1>1, <2>1 DEF AfterWrite
  <2>3. \/ s2c' = <<>> /\ cli = "closed"
        \/ Len(s2c') = 1 /\ s2c'[1] = "COMPLETE"
    BY <1>1, <1>3, <2>1
  <2>4. NoMessages' /\ Calm'
    BY <1>1, <1>5, <2>1 DEF Completing, Calm, NoMessages
  <2>5. Quiet'
    BY <1>1, <2>1, <2>2, <2>3, <2>4 DEF Quiet, Settled
  <2>6. QED
    BY <2>5 DEF InSomePhase
<1>6. QED
  BY <1>2, <1>4, <1>5

LEMMA MsgSettlePhase ==
  ASSUME UInv, [Next]_vars, MsgSettle
  PROVE  InSomePhase'
<1>1. /\ UNCHANGED <<client, net, io, mq, tcpptr, pos, seen, status, fbuf, fileptr, bufs>>
      /\ mpc = "settle" /\ mpc' = "receive" /\ state' = "WAITING" /\ KeptFiles' = KeptFiles
  BY DEF MsgSettle, KeptFiles, Held
<1>2. Quiet \/ Offered \/ Broken \/ OfferRead \/ OfferQueued
  BY <1>1, AliveInPhase DEF InSomePhase, OfferHandled, Accepting, Receiving, Completing
<1>3. Quiet => Quiet'
  BY <1>1 DEF Quiet, Calm, NoMessages, Settled
<1>4. Offered => Offered'
  BY <1>1 DEF Offered, ExpectsReady, IsLine, NoMessages, Settled
<1>5. Broken => Broken'
  BY <1>1 DEF Broken, ExpectsReady, Settled
<1>6. OfferRead => OfferRead'
  BY <1>1 DEF OfferRead, ExpectsReady, IsLine, NoMessages, Settled
<1>7. OfferQueued => OfferQueued'
  BY <1>1 DEF OfferQueued, ExpectsReady, IsLine, Calm, OneMessage, Settled
<1>8. QED
  BY <1>2, <1>3, <1>4, <1>5, <1>6, <1>7 DEF InSomePhase

LEMMA MsgClosePhase ==
  ASSUME UInv, [Next]_vars, MsgClose
  PROVE  InSomePhase'
<1>1. /\ UNCHANGED <<client, c2s, s2c, io, mq, pos, seen, status, state, fbuf, fileptr, bufs>>
      /\ mpc = "close" /\ iopc = "done" /\ mpc' = "receive" /\ open' = FALSE
      /\ KeptFiles' = KeptFiles /\ Held' = Held
  BY DEF MsgClose, KeptFiles, Held
<1>2. Quiet \/ Broken \/ Receiving
  BY <1>1, AliveInPhase DEF InSomePhase, Offered, OfferRead, OfferQueued, OfferHandled,
     Accepting, Completing
<1>3. Quiet => Quiet'
  BY <1>1 DEF Quiet, Calm, NoMessages, Settled
<1>4. Broken => Broken'
  BY <1>1 DEF Broken, ExpectsReady, Settled
<1>5. Receiving => Receiving'
  BY <1>1 DEF Receiving, Described, NoMessages, InHand
<1>6. QED
  BY <1>2, <1>3, <1>4, <1>5 DEF InSomePhase

-----------------------------------------------------------------------------
(* The results                                                             *)

LEMMA InitUInv == Init => UInv
<1> SUFFICES ASSUME Init PROVE UInv
  OBVIOUS
<1>1. IInv
  BY InitIInv
<1>2. Held = {}
  BY DEF Init, Held, RangeOf
<1>3. FilesInv
  BY <1>2 DEF Init, FilesInv, DeadIsDead, WriterHolds, HeldIntact, SavedIntact, NoOverrun,
     AckedAreKept
<1>4. Quiet
  BY DEF Init, Quiet, NoMessages, Calm, Settled
<1>5. QED
  BY <1>1, <1>3, <1>4 DEF UInv, Phases, InSomePhase

\* A client that sends no heartbeats, so that whenever the io thread has data in
\* its hands, it is data of the file that was accepted.
NoHeartbeats == MaxBeats = 0

LEMMA NextUInv ==
  ASSUME NoHeartbeats, UInv, [Next]_vars
  PROVE  UInv'
<1>1. IInv' /\ FilesInv'
  BY NextIInv, FilesInvKeeps DEF UInv
<1>2. CASE crashed' # "no"
  BY <1>1, <1>2 DEF UInv, Phases
<1>3. CASE crashed' = "no" /\ crashed # "no"
  <2>1. DeadIsDead /\ crashed # "no"
    BY <1>3 DEF UInv, FilesInv
  <2>2. FALSE
    BY <1>3, <2>1 DEF DeadIsDead, Next, Client, ClientOffer, ClientHeartbeat, ClientSendData,
       ClientReceive, ClientClose, Io, IoRead, IoError, IoCheckReady, IoCheckWaiting, IoData,
       IoPost, PostPcs, IoRearm, Msg, MsgReceive, MsgLookup, MsgRead, MsgFileInfo, MsgFileStat,
       MsgWrong, MsgComplete, MsgBadSize, MsgNotify, MsgWrite, MsgWriteThrows, MsgSettle,
       MsgClose, Writer, WriterStart, SaveBegin, SaveWrite, SaveFail, SaveEnd, vars
  <2>3. QED
    BY <2>2
<1>4. CASE crashed' = "no" /\ crashed = "no"
  <2>1. InSomePhase
    BY <1>4 DEF UInv, Phases
  <2>2. CASE Client
    <3>1. ~ClientHeartbeat
      BY DEF NoHeartbeats, ClientHeartbeat, UInv, IInv, TypeOK, ClientTypeOK
    <3>2. QED
      BY <1>1, <1>4, <2>2, <3>1, OfferPhase, SendDataPhase, ReceivePhase, ClosePhase
      DEF Client, UInv, Phases
  <2>3. CASE Io
    BY <1>1, <2>3, IoReadPhase, IoErrorPhase, IoCheckReadyPhase, IoCheckWaitingPhase,
       IoDataPhase, IoPostPhase, IoRearmPhase DEF Io, UInv, Phases
  <2>4. CASE Msg
    <3>1. ~MsgBadSize /\ ~MsgWriteThrows
      BY <1>4 DEF MsgBadSize, MsgWriteThrows, Terminate
    <3>2. ~MsgFileStat
      BY Resolving DEF MsgFileStat
    <3>3. QED
      BY <1>1, <1>4, <2>4, <3>1, <3>2, MsgReceivePhase, MsgLookupPhase, MsgReadPhase,
         MsgFileInfoPhase, MsgWrongPhase, MsgCompletePhase, MsgNotifyPhase, MsgWritePhase,
         MsgSettlePhase, MsgClosePhase DEF Msg, UInv, Phases
  <2>5. CASE Writer
    BY <1>1, <1>4, <2>5, WriterPhase DEF UInv, Phases
  <2>6. CASE UNCHANGED vars
    <3>1. UNCHANGED <<client, net, io, mq, msg, state, fbuf, fileptr, bufs, crashed>>
      BY <2>6 DEF vars
    <3>2. KeptFiles' = KeptFiles /\ Held' = Held
      BY <2>6 DEF vars, KeptFiles, Held
    <3>3. /\ (Quiet => Quiet') /\ (Offered => Offered') /\ (Broken => Broken')
          /\ (OfferRead => OfferRead') /\ (OfferQueued => OfferQueued')
          /\ (OfferHandled => OfferHandled')
      BY <3>1, <3>2 DEF Quiet, Offered, Broken, OfferRead, OfferQueued, OfferHandled,
         ExpectsReady, IsLine, Calm, OneMessage, NoMessages, Settled
    <3>4. (Accepting => Accepting') /\ (Receiving => Receiving') /\ (Completing => Completing')
      BY <3>1, <3>2 DEF Accepting, Receiving, Completing, ExpectsReady, Described, Calm,
         OneMessage, NoMessages, InHand
    <3>5. QED
      BY <1>1, <2>1, <3>3, <3>4 DEF UInv, Phases, InSomePhase
  <2>7. QED
    BY <2>2, <2>3, <2>4, <2>5, <2>6 DEF Next
<1>5. QED
  BY <1>2, <1>3, <1>4

\* Whatever the client uploads, however TCP cuts the stream and whenever the
\* client hangs up, a session is in one of the nine phases
\* (FileReceiver.cpp:45-76, 84-131).
THEOREM UploadInvariance == ASSUME NoHeartbeats PROVE Spec => []UInv
<1>1. UInv /\ [Next]_vars => UInv'
  BY NextUInv
<1>2. QED
  BY <1>1, InitUInv, PTL DEF Spec

\* Every file on disk has the bytes the client has for it, in their order and
\* completely (FileReceiver.cpp:57-60, FileWritter.cpp:104-117).
THEOREM UploadsAreSavedIntact == ASSUME NoHeartbeats PROVE Spec => []SavedIntact
<1>1. UInv => SavedIntact
  BY DEF UInv, FilesInv
<1>2. QED
  BY <1>1, UploadInvariance, PTL

\* Every file the client was told COMPLETE for is on disk or complete in the
\* writer's queue, unless NewFile has turned it away (FileReceiver.cpp:119-126).
THEOREM AcknowledgedIsKept == ASSUME NoHeartbeats PROVE Spec => []AckedIsKept
<1>1. UInv => AckedIsKept
  <2> SUFFICES ASSUME UInv, crashed = "no", NEW f \in acked \ rejected, f \notin DOMAIN disk
               PROVE  \E b \in Held : bname[b] = f /\ bdata[b] = Content(f)
    BY DEF AckedIsKept
  <2>1. PICK b \in Held : bname[b] = f
    BY DEF UInv, FilesInv, AckedAreKept, KeptFiles
  <2>2. bdata[b] = Content(f)
    BY <2>1 DEF UInv, FilesInv, HeldIntact
  <2>3. QED
    BY <2>1, <2>2
<1>2. QED
  BY <1>1, UploadInvariance, PTL

\* DataArrive never gets more bytes than the FileInfo has room for, although it
\* compares nothing before it copies (AsciiProtocol.h, FileInfo::DataArrive).
THEOREM NoBufferOverrun == ASSUME NoHeartbeats PROVE Spec => []NoOverrun
<1>1. UInv => NoOverrun
  BY DEF UInv, FilesInv
<1>2. QED
  BY <1>1, UploadInvariance, PTL

=============================================================================

---------------------------- MODULE FileReceiver ----------------------------
(***************************************************************************)
(* One upload session: FileReceiver (FileReceiver.cpp) on top of the       *)
(* unbuffered TCPClient it is coupled to (tcpasio.cpp), its message thread *)
(* (MessageQueue.cpp) and as much of FileWritter as decides when a file    *)
(* buffer is free again.                                                   *)
(*                                                                         *)
(* Two server threads share state_, fileptr_, bufrcv_ and the socket's     *)
(* receive buffer without a common lock:                                   *)
(*   - the io thread of the TCPClient runs handle_read and, inside it,     *)
(*     FileReceiver::network_receive;                                      *)
(*   - the message thread runs on_network_receive, on_receive_complete and *)
(*     on_network_close, one per message of the queue.                     *)
(* A handler is cut into steps where the other thread can get in between.  *)
(*                                                                         *)
(* The wire carries units: the body of a text line, the newline that ends  *)
(* it, or a piece of file data.                                            *)
(***************************************************************************)
EXTENDS Integers, Sequences

CONSTANTS
  Files,        \* names of the files the client has
  FileSize,     \* their sizes, in data units
  Buffers,      \* identities of FileInfo objects
  NoBuf,        \* the null nfileptr
  NoFile,       \* no file name
  PackSize,     \* TCP_PACK_SIZE, in units
  QueueCap,     \* capacity of the message queue
  MaxOffers,    \* bound: fileinfo lines the client sends
  MaxBeats,     \* bound: heartbeat lines the client sends
  BeatWhen,     \* client states in which it sends heartbeats
  SplitLines,   \* TRUE: TCP may deliver a line in two pieces
  MayClose      \* TRUE: the client may close the connection at any time

ASSUME SizeAssumption == FileSize \in [Files -> Nat]
ASSUME BufferAssumption == NoBuf \notin Buffers
ASSUME FileAssumption == NoFile \notin Files
ASSUME PackAssumption == PackSize \in Nat \ {0}
ASSUME QueueAssumption == QueueCap \in Nat \ {0}
ASSUME BoundAssumption == MaxOffers \in Nat /\ MaxBeats \in Nat
ASSUME FlagAssumption == SplitLines \in BOOLEAN /\ MayClose \in BOOLEAN

VARIABLES
  cli,      \* client: what it is doing
  cfile,    \* client: the file it is transferring
  csent,    \* client: data units of cfile sent so far
  offers,   \* client: fileinfo lines sent so far
  beats,    \* client: heartbeats sent so far
  acked,    \* client: files for which it has received COMPLETE
  c2s,      \* units in flight to the server
  s2c,      \* filestat answers in flight to the client
  open,     \* the server's socket is open
  rbuf,     \* TCPClient::bufrcv_[0 .. bytercv_ - 1]
  iopc,     \* io thread: where it is in handle_read
  mq,       \* the message queue
  mpc,      \* message thread: where it is
  tcpptr,   \* FileReceiver::tcpptr_ is not null
  state,    \* FileReceiver::state_
  pos,      \* on_network_receive: result of Lookup (0: not found)
  seen,     \* on_network_receive: the receive buffer Lookup looked at
  fbuf,     \* FileReceiver::bufrcv_ read as a C string
  status,   \* notify_status: its argument
  fileptr,  \* FileReceiver::fileptr_
  bname, bsize, brcv, bdata,   \* FileInfo: filename, filesize, rcvsize, filedata
  wpc,      \* FileWritter: the monitor thread
  fwq,      \* FileWritter::quenf_
  saving,   \* FileWritter::save_first: its local ptr
  disk,     \* what is on disk: file name -> content
  rejected, \* history: files NewFile turned away
  crashed   \* why the process has terminated: nothing yet, a null pointer,
            \* an exception of the socket or of the allocator

client == <<cli, cfile, csent, offers, beats, acked>>
net    == <<c2s, s2c, open>>
io     == <<rbuf, iopc>>
msg    == <<mpc, tcpptr, pos, seen, status>>
bufs   == <<bname, bsize, brcv, bdata>>
writer == <<wpc, fwq, saving, disk, rejected>>
vars   == <<client, net, io, mq, msg, state, fbuf, fileptr, bufs, writer, crashed>>

-----------------------------------------------------------------------------
(* Data                                                                    *)

Data(f, i)   == [k |-> "data", f |-> f, i |-> i]
InfoBody(f)  == [k |-> "info", f |-> f, i |-> 0]
StatBody     == [k |-> "stat", f |-> NoFile, i |-> 0]
Newline      == [k |-> "nl", f |-> NoFile, i |-> 0]
Junk         == [k |-> "junk", f |-> NoFile, i |-> 0]

Units == [k : {"data", "info"}, f : Files, i : Nat] \cup {StatBody, Newline, Junk}

\* What the file's bytes are, from its first to its last.
Content(f) == [i \in 1 .. FileSize[f] |-> Data(f, i)]

\* A C string in FileReceiver::bufrcv_ as AsciiProtocol::Resolve sees it.
Info(f, n) == [k |-> "info", f |-> f, size |-> n]
Stat       == [k |-> "stat", f |-> NoFile, size |-> 0]
Garbage    == [k |-> "garbage", f |-> NoFile, size |-> 0]
NoSize     == [k |-> "nosize", f |-> NoFile, size |-> 0]   \* a fileinfo cut before its filesize

Lines == [k : {"info"}, f : Files, size : Nat] \cup {Stat, Garbage, NoSize}

States == {"WAITING", "READY", "COMPLETE", "FAILURE"}

RangeOf(s) == {s[i] : i \in 1 .. Len(s)}

\* FileWritter::running_
running == wpc \in {"loop", "save", "saved", "failed"}

\* A signal or an uncaught exception: the process ends, and its threads with it.
Terminate(why) == crashed' = why /\ iopc' = "dead" /\ mpc' = "dead" /\ wpc' = "dead"

\* FileInfo objects that someone beside fileptr_ holds: use_count() > 1.
Held == RangeOf(fwq) \cup ({saving} \ {NoBuf})

InUse == Held \cup ({fileptr} \ {NoBuf})

-----------------------------------------------------------------------------
Init ==
  /\ cli = "idle" /\ cfile = NoFile /\ csent = 0
  /\ offers = 0 /\ beats = 0 /\ acked = {}
  /\ c2s = <<>> /\ s2c = <<>> /\ open = TRUE
  /\ rbuf = <<>> /\ iopc = "reading"
  /\ mq = <<>> /\ mpc = "receive" /\ tcpptr = TRUE
  /\ pos = 0 /\ seen = <<>> /\ status = "WAITING"
  /\ state = "WAITING" /\ fbuf = Garbage /\ fileptr = NoBuf
  /\ bname = [b \in Buffers |-> NoFile]
  /\ bsize = [b \in Buffers |-> 0]
  /\ brcv  = [b \in Buffers |-> 0]
  /\ bdata = [b \in Buffers |-> <<>>]
  /\ wpc = "start" /\ fwq = <<>> /\ saving = NoBuf
  /\ disk = <<>>
  /\ rejected = {}
  /\ crashed = "no"

-----------------------------------------------------------------------------
(* The client (external): offers a file, waits for READY, sends exactly    *)
(* the file's data, waits for COMPLETE or FAILURE.                         *)

ClientOffer(f) ==
  /\ cli = "idle" /\ offers < MaxOffers
  /\ cli' = "wait_ready" /\ cfile' = f /\ csent' = 0 /\ offers' = offers + 1
  /\ c2s' = c2s \o <<InfoBody(f), Newline>>
  /\ UNCHANGED <<beats, acked, s2c, open, io, mq, msg, state, fbuf, fileptr, bufs, writer, crashed>>

ClientHeartbeat ==
  /\ cli \in BeatWhen /\ beats < MaxBeats
  /\ beats' = beats + 1
  /\ c2s' = c2s \o <<StatBody, Newline>>
  /\ UNCHANGED <<cli, cfile, csent, offers, acked, s2c, open, io, mq, msg, state, fbuf, fileptr, bufs, writer, crashed>>

\* After the last unit the client waits for the verdict.
ClientSendData ==
  /\ cli = "sending"
  /\ csent' = csent + 1
  /\ c2s' = Append(c2s, Data(cfile, csent + 1))
  /\ cli' = IF csent + 1 = FileSize[cfile] THEN "wait_done" ELSE cli
  /\ UNCHANGED <<cfile, offers, beats, acked, s2c, open, io, mq, msg, state, fbuf, fileptr, bufs, writer, crashed>>

ClientReceive ==
  /\ cli # "closed" /\ s2c # <<>>
  /\ s2c' = Tail(s2c)
  /\ CASE Head(s2c) = "READY" /\ cli = "wait_ready" ->
            /\ cli' = IF FileSize[cfile] = 0 THEN "wait_done" ELSE "sending"
            /\ UNCHANGED acked
       [] Head(s2c) = "COMPLETE" /\ cli = "wait_done" ->
            cli' = "idle" /\ acked' = acked \cup {cfile}
       [] Head(s2c) = "FAILURE" /\ cli = "wait_done" ->
            cli' = "idle" /\ UNCHANGED acked
       [] OTHER -> UNCHANGED <<cli, acked>>
  /\ UNCHANGED <<cfile, csent, offers, beats, c2s, open, io, mq, msg, state, fbuf, fileptr, bufs, writer, crashed>>

ClientClose ==
  /\ MayClose /\ cli # "closed"
  /\ cli' = "closed"
  /\ UNCHANGED <<cfile, csent, offers, beats, acked, net, io, mq, msg, state, fbuf, fileptr, bufs, writer, crashed>>

Client ==
  \/ \E f \in Files : ClientOffer(f)
  \/ ClientHeartbeat
  \/ ClientSendData
  \/ ClientReceive
  \/ ClientClose

-----------------------------------------------------------------------------
(* The io thread: TCPClient::handle_read and network_receive inside it     *)

\* A read may end after n units of the stream unless that would cut a line.
MayEndAfter(n) == SplitLines \/ c2s[n].k \notin {"info", "stat"}

\* async_read_some completes with 1 .. TCP_PACK_SIZE bytes, which replace what
\* was in bufrcv_; handle_read sets bytercv_ and enters the callback.
IoRead(n) ==
  /\ iopc = "reading" /\ open
  /\ n <= Len(c2s) /\ n <= PackSize /\ MayEndAfter(n)
  /\ rbuf' = SubSeq(c2s, 1, n)
  /\ c2s' = SubSeq(c2s, n + 1, Len(c2s))
  /\ iopc' = "callback"
  /\ UNCHANGED <<client, s2c, open, mq, msg, state, fbuf, fileptr, bufs, writer, crashed>>

\* It completes with an error: the peer has closed and everything it sent has
\* been read, or the socket was closed on this side.
IoError ==
  /\ iopc = "reading"
  /\ ~open \/ (cli = "closed" /\ c2s = <<>>)
  /\ iopc' = "post_close"
  /\ UNCHANGED <<client, net, rbuf, mq, msg, state, fbuf, fileptr, bufs, writer, crashed>>

\* "if (state_ == READY)": the first of two looks at state_.
IoCheckReady ==
  /\ iopc = "callback"
  /\ iopc' = IF state = "READY" THEN "data" ELSE "check_waiting"
  /\ UNCHANGED <<client, net, rbuf, mq, msg, state, fbuf, fileptr, bufs, writer, crashed>>

\* "else if (state_ == WAITING)": anything else drops the bytes.
IoCheckWaiting ==
  /\ iopc = "check_waiting"
  /\ iopc' = IF state = "WAITING" THEN "post_receive" ELSE "rearm"
  /\ UNCHANGED <<client, net, rbuf, mq, msg, state, fbuf, fileptr, bufs, writer, crashed>>

\* A possible slip: every packet is copied to the start of filedata.
DataArriveAtStart(b) ==
  /\ bdata' = [bdata EXCEPT ![b] =
                 [i \in 1 .. bsize[b] |-> IF i <= Len(rbuf) THEN rbuf[i] ELSE bdata[b][i]]]
  /\ brcv' = [brcv EXCEPT ![b] = @ + Len(rbuf)]
  /\ iopc' = IF brcv[b] + Len(rbuf) >= bsize[b] THEN "post_complete" ELSE "rearm"

\* A possible slip: complete only when more than filesize has arrived.
DataArriveLate(b) ==
  /\ bdata' = [bdata EXCEPT ![b] =
                 [i \in 1 .. bsize[b] |->
                    IF i > brcv[b] /\ i <= brcv[b] + Len(rbuf)
                    THEN rbuf[i - brcv[b]] ELSE bdata[b][i]]]
  /\ brcv' = [brcv EXCEPT ![b] = @ + Len(rbuf)]
  /\ iopc' = IF brcv[b] + Len(rbuf) > bsize[b] THEN "post_complete" ELSE "rearm"

\* FileInfo::DataArrive on object b; what lies beyond filesize is not b's memory.
DataArrive(b) ==
  /\ bdata' = [bdata EXCEPT ![b] =
                 [i \in 1 .. bsize[b] |->
                    IF i > brcv[b] /\ i <= brcv[b] + Len(rbuf)
                    THEN rbuf[i - brcv[b]] ELSE bdata[b][i]]]
  /\ brcv' = [brcv EXCEPT ![b] = @ + Len(rbuf)]
  /\ iopc' = IF brcv[b] + Len(rbuf) >= bsize[b] THEN "post_complete" ELSE "rearm"

\* tcpptr_->Read into bufrcv_, then DataArrive.
IoData ==
  /\ iopc = "data"
  /\ IF fileptr = NoBuf \/ ~tcpptr
     THEN Terminate("null") /\ UNCHANGED <<fbuf, brcv, bdata>>
     ELSE fbuf' = Garbage /\ DataArrive(fileptr) /\ UNCHANGED <<mpc, wpc, crashed>>
  /\ UNCHANGED <<client, net, rbuf, mq, tcpptr, pos, seen, status, state, fileptr,
                 bname, bsize, fwq, saving, disk, rejected>>

\* The message each post step sends, and where handle_read goes from there:
\* it starts the next read only if there was no error.
PostPcs == {"post_receive", "post_complete", "post_close"}

Posted == CASE iopc = "post_receive"  -> "NETWORK_RECEIVE"
            [] iopc = "post_complete" -> "RECEIVE_COMPLETE"
            [] iopc = "post_close"    -> "NETWORK_CLOSE"

\* A possible slip: the end of the connection goes by SendMessage, whose
\* priority lets it overtake what is queued.
IoPostUrgent ==
  /\ iopc \in PostPcs
  /\ Len(mq) < QueueCap
  /\ mq' = IF iopc = "post_close" THEN <<Posted>> \o mq ELSE Append(mq, Posted)
  /\ iopc' = IF iopc = "post_close" THEN "done" ELSE "rearm"
  /\ UNCHANGED <<client, net, rbuf, msg, state, fbuf, fileptr, bufs, writer, crashed>>

\* MessageQueue::PostMessage blocks while the queue is full.
IoPost ==
  /\ iopc \in PostPcs
  /\ Len(mq) < QueueCap
  /\ mq' = Append(mq, Posted)
  /\ iopc' = IF iopc = "post_close" THEN "done" ELSE "rearm"
  /\ UNCHANGED <<client, net, rbuf, msg, state, fbuf, fileptr, bufs, writer, crashed>>

\* start_read: no read is started on a closed socket.
IoRearm ==
  /\ iopc = "rearm"
  /\ iopc' = IF open THEN "reading" ELSE "done"
  /\ UNCHANGED <<client, net, rbuf, mq, msg, state, fbuf, fileptr, bufs, writer, crashed>>

Io ==
  \/ \E n \in 1 .. PackSize : IoRead(n)
  \/ IoError \/ IoCheckReady \/ IoCheckWaiting \/ IoData \/ IoPost \/ IoRearm

-----------------------------------------------------------------------------
(* The message thread: thread_message and the three handlers               *)

Handler(m) == CASE m = "NETWORK_RECEIVE"  -> "lookup"
                [] m = "RECEIVE_COMPLETE" -> "complete"
                [] m = "NETWORK_CLOSE"    -> "close"

\* mq_->receive and the dispatch through funcs_; no handler survives a null
\* tcpptr_, except on_network_close, which only resets it.
MsgReceive ==
  /\ mpc = "receive" /\ mq # <<>>
  /\ mq' = Tail(mq)
  /\ IF tcpptr \/ Head(mq) = "NETWORK_CLOSE"
     THEN mpc' = Handler(Head(mq)) /\ UNCHANGED <<iopc, wpc, crashed>>
     ELSE Terminate("null")
  /\ UNCHANGED <<client, net, rbuf, tcpptr, pos, seen, status, state, fbuf, fileptr, bufs,
                 fwq, saving, disk, rejected>>

\* Where TCPClient::Lookup may find "\n": at the first newline unit or inside
\* any piece of (binary) data before it; 0 if there is none.
Newlines ==
  LET before(i) == \A j \in 1 .. i - 1 : rbuf[j].k # "nl"
      at == {i \in 1 .. Len(rbuf) : rbuf[i].k \in {"nl", "data"} /\ before(i)}
  IN IF \E i \in 1 .. Len(rbuf) : rbuf[i].k = "nl" THEN at ELSE at \cup {0}

MsgLookup(p) ==
  /\ mpc = "lookup"
  /\ p \in Newlines
  /\ pos' = p /\ seen' = rbuf /\ mpc' = "read"
  /\ UNCHANGED <<client, net, io, mq, tcpptr, status, state, fbuf, fileptr, bufs, writer, crashed>>

\* The C string that Read(pos + 1 bytes) and bufrcv_[pos] = 0 leave in bufrcv_.
\* If nothing was found no byte is copied and the old string stays. If the io
\* thread has refilled the receive buffer since Lookup, pos is not the end of
\* the line any more: the line comes out whole, cut or spoilt.
LineRead ==
  LET first == rbuf[1]
      whole == CASE pos = 2 /\ first.k = "info" -> Info(first.f, FileSize[first.f])
                 [] pos = 2 /\ first.k = "stat" -> Stat
                 [] OTHER -> Garbage
  IN IF pos = 0 THEN {fbuf}
     ELSE IF rbuf = seen THEN {whole}
     ELSE {whole, Garbage} \cup
          IF first.k = "info"
          THEN {NoSize} \cup {Info(first.f, n) : n \in 0 .. FileSize[first.f]}
          ELSE {}

MsgRead ==
  /\ mpc = "read"
  /\ fbuf' \in LineRead
  /\ mpc' = "resolve"
  /\ UNCHANGED <<client, net, io, mq, tcpptr, pos, seen, status, state, fileptr, bufs, writer, crashed>>

\* A possible slip: the reference count is not looked at.
NeedsNewUncounted(n) == fileptr = NoBuf \/ bsize[fileptr] # n

\* A possible slip: the size is not compared.
NeedsNewUnsized(n) == fileptr = NoBuf \/ fileptr \in Held

\* A null fileptr_, one the writer still holds, or one of another size is
\* replaced by a new FileInfo; only an unshared one of the same size is reused.
NeedsNew(n) == fileptr = NoBuf \/ fileptr \in Held \/ bsize[fileptr] # n

\* A possible slip: rcvsize is not reset.
TakeBufferUnreset(b, f, n) ==
  /\ IF NeedsNew(n)
     THEN /\ b \in Buffers \ InUse
          /\ bdata' = [bdata EXCEPT ![b] = [i \in 1 .. n |-> Junk]]
     ELSE b = fileptr /\ UNCHANGED bdata
  /\ fileptr' = b
  /\ bname' = [bname EXCEPT ![b] = f]
  /\ bsize' = [bsize EXCEPT ![b] = n]
  /\ UNCHANGED brcv

TakeBuffer(b, f, n) ==
  /\ IF NeedsNew(n)
     THEN /\ b \in Buffers \ InUse
          /\ bdata' = [bdata EXCEPT ![b] = [i \in 1 .. n |-> Junk]]
     ELSE b = fileptr /\ UNCHANGED bdata
  /\ fileptr' = b
  /\ bname' = [bname EXCEPT ![b] = f]
  /\ bsize' = [bsize EXCEPT ![b] = n]
  /\ brcv'  = [brcv EXCEPT ![b] = 0]

\* Resolve(bufrcv_) says fileinfo: remember the description, answer READY.
MsgFileInfo(b) ==
  /\ mpc = "resolve" /\ fbuf.k = "info"
  /\ TakeBuffer(b, fbuf.f, fbuf.size)
  /\ mpc' = "notify" /\ status' = "READY"
  /\ UNCHANGED <<client, net, io, mq, tcpptr, pos, seen, state, fbuf, writer, crashed>>

\* ... says filestat, the heartbeat: nothing is done.
MsgFileStat ==
  /\ mpc = "resolve" /\ fbuf.k = "stat"
  /\ mpc' = "receive"
  /\ UNCHANGED <<client, net, io, mq, tcpptr, pos, seen, status, state, fbuf, fileptr, bufs, writer, crashed>>

\* ... says neither: "wrong communication", the connection is closed.
MsgWrong ==
  /\ mpc = "resolve" /\ fbuf.k = "garbage"
  /\ open' = FALSE /\ mpc' = "receive"
  /\ UNCHANGED <<client, c2s, s2c, io, mq, tcpptr, pos, seen, status, state, fbuf, fileptr, bufs, writer, crashed>>

\* ... says fileinfo without a filesize: it keeps INT_MIN, new char[] throws.
MsgBadSize ==
  /\ mpc = "resolve" /\ fbuf.k = "nosize"
  /\ Terminate("alloc")
  /\ UNCHANGED <<client, net, rbuf, mq, tcpptr, pos, seen, status, state, fbuf, fileptr, bufs,
                 fwq, saving, disk, rejected>>

\* on_receive_complete: hand the file over if its size is right. NewFile turns
\* it away when the writer is not running; the client is told COMPLETE anyway.
MsgComplete ==
  /\ mpc = "complete"
  /\ mpc' = "notify"
  /\ IF bsize[fileptr] = brcv[fileptr]
     THEN /\ status' = "COMPLETE"
          /\ fwq' = IF running THEN Append(fwq, fileptr) ELSE fwq
          /\ rejected' = IF running THEN rejected ELSE rejected \cup {bname[fileptr]}
     ELSE status' = "FAILURE" /\ UNCHANGED <<fwq, rejected>>
  /\ UNCHANGED <<client, net, io, mq, tcpptr, pos, seen, state, fbuf, fileptr, bufs, wpc, saving, disk, crashed>>

\* notify_status, first half: state_ = status.
MsgNotify ==
  /\ mpc = "notify"
  /\ state' = status /\ mpc' = "write"
  /\ UNCHANGED <<client, net, io, mq, tcpptr, pos, seen, status, fbuf, fileptr, bufs, writer, crashed>>

\* notify_status, second half: Write. write_some throws on a socket that is
\* closed here, and may throw when the peer has closed it.
AfterWrite == IF status = "READY" THEN "receive" ELSE "settle"

MsgWrite ==
  /\ mpc = "write" /\ open
  /\ s2c' = IF cli = "closed" THEN s2c ELSE Append(s2c, status)
  /\ mpc' = AfterWrite
  /\ UNCHANGED <<client, c2s, open, io, mq, tcpptr, pos, seen, status, state, fbuf, fileptr, bufs, writer, crashed>>

MsgWriteThrows ==
  /\ mpc = "write" /\ (~open \/ cli = "closed")
  /\ Terminate("write")
  /\ UNCHANGED <<client, net, rbuf, mq, tcpptr, pos, seen, status, state, fbuf, fileptr, bufs,
                 fwq, saving, disk, rejected>>

\* on_receive_complete: its last statement, state_ = WAITING.
MsgSettle ==
  /\ mpc = "settle"
  /\ state' = "WAITING" /\ mpc' = "receive"
  /\ UNCHANGED <<client, net, io, mq, tcpptr, pos, seen, status, fbuf, fileptr, bufs, writer, crashed>>

\* on_network_close: tcpptr_.reset() destroys the TCPClient, which closes the
\* socket and joins the io thread.
MsgClose ==
  /\ mpc = "close" /\ iopc = "done"
  /\ tcpptr' = FALSE /\ open' = FALSE /\ mpc' = "receive"
  /\ UNCHANGED <<client, c2s, s2c, io, mq, pos, seen, status, state, fbuf, fileptr, bufs, writer, crashed>>

Msg ==
  \/ MsgReceive
  \/ \E p \in 0 .. PackSize : MsgLookup(p)
  \/ MsgRead
  \/ \E b \in Buffers : MsgFileInfo(b)
  \/ MsgFileStat \/ MsgWrong \/ MsgBadSize
  \/ MsgComplete \/ MsgNotify \/ MsgWrite \/ MsgWriteThrows \/ MsgSettle
  \/ MsgClose

-----------------------------------------------------------------------------
(* FileWritter, reduced to what the session can notice: whether it accepts *)
(* files and how long it holds a buffer. FileWritter.tla has the rest.     *)

\* The monitor thread sets running_ when it gets going,
WriterStart ==
  /\ wpc = "start"
  /\ wpc' = "loop"
  /\ UNCHANGED <<client, net, io, mq, msg, state, fbuf, fileptr, bufs, fwq, saving, disk, rejected, crashed>>

\* save_first takes a reference to the first file,
SaveBegin ==
  /\ wpc = "loop" /\ fwq # <<>>
  /\ wpc' = "save" /\ saving' = Head(fwq)
  /\ UNCHANGED <<client, net, io, mq, msg, state, fbuf, fileptr, bufs, fwq, disk, rejected, crashed>>

\* writes filesize bytes under its filename and pops it,
SaveWrite ==
  /\ wpc = "save"
  /\ disk' = [g \in DOMAIN disk \cup {bname[saving]} |->
                 IF g = bname[saving] THEN bdata[saving] ELSE disk[g]]
  /\ fwq' = Tail(fwq) /\ wpc' = "saved"
  /\ UNCHANGED <<client, net, io, mq, msg, state, fbuf, fileptr, bufs, saving, rejected, crashed>>

\* A possible slip: the file is popped whether or not it could be written.
SaveFailPops ==
  /\ wpc = "save"
  /\ wpc' = "failed" /\ fwq' = Tail(fwq)
  /\ UNCHANGED <<client, net, io, mq, msg, state, fbuf, fileptr, bufs, saving, disk, rejected, crashed>>

\* or fails to create the directory or the file,
SaveFail ==
  /\ wpc = "save"
  /\ wpc' = "failed"
  /\ UNCHANGED <<client, net, io, mq, msg, state, fbuf, fileptr, bufs, fwq, saving, disk, rejected, crashed>>

\* and drops the reference when it returns; a failure may be the last one the
\* monitor thread tolerates.
SaveEnd ==
  /\ wpc \in {"saved", "failed"}
  /\ wpc' \in IF wpc = "failed" THEN {"loop", "done"} ELSE {"loop"}
  /\ saving' = NoBuf
  /\ UNCHANGED <<client, net, io, mq, msg, state, fbuf, fileptr, bufs, fwq, disk, rejected, crashed>>

Writer == WriterStart \/ SaveBegin \/ SaveWrite \/ SaveFail \/ SaveEnd

-----------------------------------------------------------------------------
Next == Client \/ Io \/ Msg \/ Writer

\* The scheduler runs both threads, TCP delivers, and the client takes the
\* answers it gets and sends the data it has been asked for.
Fairness ==
  /\ WF_vars(Io)
  /\ WF_vars(Msg)
  /\ WF_vars(ClientSendData)
  /\ WF_vars(ClientReceive)

Spec == Init /\ [][Next]_vars

FairSpec == Spec /\ Fairness

-----------------------------------------------------------------------------
(* Properties                                                              *)

IoPcs  == {"reading", "callback", "data", "check_waiting", "rearm", "done", "dead"} \cup PostPcs
MsgPcs == {"receive", "lookup", "read", "resolve", "complete", "notify", "write", "settle", "close", "dead"}
Messages == {"NETWORK_RECEIVE", "RECEIVE_COMPLETE", "NETWORK_CLOSE"}

ClientTypeOK ==
  /\ cli \in {"idle", "wait_ready", "sending", "wait_done", "closed"}
  /\ cfile \in Files \cup {NoFile} /\ acked \subseteq Files
  /\ csent \in Nat /\ offers \in Nat /\ beats \in Nat

StreamTypeOK ==
  /\ c2s \in Seq(Units) /\ s2c \in Seq(States) /\ open \in BOOLEAN
  /\ rbuf \in Seq(Units) /\ seen \in Seq(Units) /\ mq \in Seq(Messages)

ControlTypeOK ==
  /\ iopc \in IoPcs /\ mpc \in MsgPcs /\ tcpptr \in BOOLEAN
  /\ pos \in Nat /\ fbuf \in Lines /\ state \in States /\ status \in States
  /\ wpc \in {"start", "loop", "save", "saved", "failed", "done", "dead"}
  /\ crashed \in {"no", "null", "write", "alloc"}

BufferTypeOK ==
  /\ fileptr \in Buffers \cup {NoBuf} /\ saving \in Buffers \cup {NoBuf}
  /\ fwq \in Seq(Buffers)
  /\ bname \in [Buffers -> Files \cup {NoFile}]
  /\ bsize \in [Buffers -> Nat] /\ brcv \in [Buffers -> Nat]
  /\ bdata = [b \in Buffers |-> bdata[b]]
  /\ \A b \in Buffers : bdata[b] \in [1 .. bsize[b] -> Units]

DiskTypeOK ==
  /\ DOMAIN disk \subseteq Files \cup {NoFile}
  /\ rejected \subseteq Files \cup {NoFile}

\* Every variable of the session keeps its C++ type: state_ and status are
\* enumerators, fileptr_ and the writer's references name FileInfo objects or
\* are null, and filedata always has filesize bytes.
TypeOK == ClientTypeOK /\ StreamTypeOK /\ ControlTypeOK /\ BufferTypeOK /\ DiskTypeOK

KeepQueued ==
  \A b \in Held : bname'[b] = bname[b] /\ bsize'[b] = bsize[b] /\ bdata'[b] = bdata[b]

\* Once NewFile has queued a file, nothing the session receives changes its
\* name, its size or its bytes before the writer is through with it, although
\* fileptr_ goes on pointing at the same FileInfo and the io thread may still
\* be inside DataArrive: whatever the client sends, pipelined or not.
QueuedUntouched == [][KeepQueued]_vars

\* With a client that keeps to the protocol, a file on disk has exactly the
\* bytes the client has for that name: none missing, repeated, misplaced or
\* left over from the file that used the buffer before.
SavedIntact == \A f \in DOMAIN disk : f \in Files /\ disk[f] = Content(f)

\* A file the client was told COMPLETE for is on disk or still with the writer,
\* complete, as long as the process lives; the only exceptions are the files that
\* NewFile turned away.
AckedIsKept ==
  crashed = "no" => \A f \in acked \ rejected :
    \/ f \in DOMAIN disk
    \/ \E b \in Held : bname[b] = f /\ bdata[b] = Content(f)

\* DataArrive never writes past the end of filedata.
NoOverrun == \A b \in Buffers : brcv[b] <= bsize[b]

\* No handler runs after on_network_close has reset tcpptr_, and no data
\* arrives before there is a FileInfo to put it in.
NoNullPointer == crashed # "null"

\* Once the client has been told READY and sends a non-empty file, it gets an
\* answer, unless it hangs up or the process terminates.
SendingIsAnswered ==
  (cli = "sending" /\ FileSize[cfile] > 0) ~> (cli \in {"idle", "closed"} \/ crashed # "no")

\* "2: the server has completed the reception and tells the client that it can
\* send another file": a client that then offers one is told READY.
OfferIsAnswered == cli = "wait_ready" ~> cli # "wait_ready"

\* Write reports how much it has sent; a peer that hangs up while it is being
\* answered does not end the process.
WriteReturns == crashed # "write"

-----------------------------------------------------------------------------
(* What it promises                                                        *)

Waiting == [i \in 1 .. Len(fwq) |-> [name |-> bname[fwq[i]], data |-> bdata[fwq[i]]]]

Store ==
  INSTANCE FileStore
  WITH Names <- Files \cup {NoFile}, Contents <- Seq(Units), pending <- Waiting,
       stored <- disk, told <- {}, lost <- {}

\* For the writer's queue the session is what FileStore allows: although it hands over
\* pointers, not files, and goes on using them, every file waits unchanged and is
\* stored as it was handed over, in that order.
IsFileStore == Store!Spec

=============================================================================

# A TLA+ model of ftserver

ftserver receives FITS files that the cameras of the GWAC array upload over TCP,
stores them on disk, registers them in a database and tells a data-process of
each one. This directory holds TLA+ modules that model the server's code,
configurations for TLC, and proofs for TLAPS. `PROJECT.json` lists the runs, the
theorems, the hazards and, for every definition, the lines of code it stands for.
A third of the implementation's lines is modelled.

    tlc -config ReceiverUpload.cfg MCFileReceiver      # one run
    tlapm FileReceiverProofs.tla                       # one proof module

## 1. Inventory

| Part | State | Operations | Interacts with |
|---|---|---|---|
| **FileReceiver** (FileReceiver.cpp) one upload session | `state_` (WAITING, READY, COMPLETE, FAILURE), `fileptr_`, `bufrcv_`, `tcpptr_` | CoupleNetwork, network_receive (io thread), on_network_receive, on_receive_complete, on_network_close (message thread), notify_status | is a MessageQueue; callback of its TCPClient; shares FileInfo objects with FileWritter |
| **FileWritter** (FileWritter.cpp) storage | `quenf_`, `running_`, `cvfile_`, `tcpc_dp_`, `dbt_`, `pathRoot_` | NewFile, CoupleNetwork, DecoupleNetowrk, thread_monitor, save_first, destructor | called by every receiver's message thread and by the io threads of the data-process link |
| **TCPClient** (tcpasio.cpp) a connection | the socket, `bufrcv_`/`bytercv_` or, with UseBuffer, `crcrcv_`/`crcsnd_` | Write, Read, Lookup, Close, start_read/handle_read, start_write/handle_write | its own io thread (IOServiceKeep) runs the handlers and the registered callbacks |
| **TCPServer** (tcpasio.cpp) | the acceptor | CreateServer, start_accept, handle_accept | calls TransferAgent::network_accept |
| **MessageQueue** (MessageQueue.cpp) | `mq_` (1024 messages, two priorities), `thrdmsg_`, `funcs_` | Start, Stop, PostMessage, SendMessage, thread_message | base class of FileReceiver |
| **TransferAgent** (TransferAgent.cpp) the service | `filercv_` under `mtx_filercv_`, `tcpc_dp_`, the servers, two threads | StartService, StopService, network_accept, receive_dp, thread_idle | owns everything above |
| **AutoFree** (TransferAgent.cpp) | the storage directory | free_storage, next_noon, thread_autofree | FileWritter::UpdateStorage |
| **AsciiProtocol** | a ring of ten output buffers | Compact*, Resolve | lines on both kinds of connection |
| **NTPClient** | `offset_`, `valid_`, `nfail_`, the UDP socket | thread_body, get_time, SynchClock | the system clock |
| **GLog** | `day_`, `fd_`, `bytecache_` | Write, valid_file, thread_cycle | everybody |
| **DBCurl** | curl's global state | RegImageFile, uploads | save_first |
| daemon, ftserver, param_config, IOServiceKeep | process start, XML parameters, one io_service thread per connection | | |

`DataTransfer.*`, `data.h` and `AllHeader.h` belong to an older version and are
not compiled (Makefile.am).

How a file travels: the client sends a `fileinfo` line; the io thread's
network_receive posts MSG_NETWORK_RECEIVE; the message thread reads the line,
prepares a FileInfo and answers READY; from then on the io thread copies the
packets into the FileInfo itself; the last one posts MSG_RECEIVE_COMPLETE; the
message thread hands the FileInfo to NewFile, answers COMPLETE and goes back to
WAITING; the monitor thread of FileWritter saves the file, registers it and tells
the data-process.

### What is hard

* **Two threads per session without a lock.** `state_`, `fileptr_`, `tcpptr_`,
  `bufrcv_` and the socket's receive buffer are used by the io thread and by the
  message thread. A FileInfo is shared further, with the writer.
* **A queue without a lock.** `quenf_` is filled by every session's message
  thread and emptied by the monitor; the mutex that belongs to the condition is a
  local variable of the monitor.
* **Failures in the middle.** Directory, file, write, database and link may each
  fail, and a save is repeated after a minute up to a limit.
* **Connections that end at any moment**, on either side, while they are being
  answered or closed.
* **Lifetime.** Receivers are reaped by a count of references, threads are joined
  by destructors, the link to the data-process is replaced while it is in use.

What makes each part correct:

* FileReceiver: a file on disk has the client's bytes; a queued file is not
  touched again; a complete file is answered; nothing is used after it was reset.
* FileWritter: what was accepted is stored or counted as lost; nobody is told of a
  file before it is stored; the thread works while there is work and ends when it
  is asked to or after too many errors.
* TCPClient: the bytes taken are sent in order and once; what is received is
  returned in order and once, the newest bytes if nobody reads; Lookup finds the first
  occurrence.
* MessageQueue: what was posted is dispatched until Stop, whose MSG_QUIT comes before
  all that waits; Stop ends the thread and returns, and the queue outlives the thread.
* TransferAgent: a live receiver is kept, a dead one goes; one link at a time.
* All of these together: a file that was handed over waits its turn, unchanged, is
  stored before it leaves the queue and announced only then (`FileStore`).
* AutoFree: the storage is looked at once every noon, and what is old goes.
* AsciiProtocol: Resolve undoes Compact, and a spoilt text spoils only itself.
* NTPClient: an answer brings the clock as near to the server's as its delay allows, and
  a valid offset is one the clock really has.
* GLog: every line is in a file, the file of its day, soon after it was written.

## 2. The modules

| Module | Models | Proofs | TLC |
|---|---|---|---|
| `FileStore` | the promise of the storage: hand over, store, leave, tell, give up | the two refinements below | `IsFileStore` in two runs |
| `FileReceiver` | one session: client, connection, io thread, message thread and as much of the writer as decides when a buffer is free | `FileReceiverProofs` | `MCFileReceiver`, `Receiver*.cfg` |
| `FileWritter` | the queue, NewFile, the monitor thread, save_first, the data-process link, the destructor | `FileWritterProofs` | `MCFileWritter`, `Writer*.cfg` |
| `TCPClient` | a connection with UseBuffer: send path and receive path | `TCPClientProofs` | `MCTCPClient`, `ClientStreams.cfg` |
| `MessageQueue` | messages of two priorities, the message thread, Start and Stop, for any number of queues | `MessageQueueProofs` | `MCMessageQueue`, `MessageQueue.cfg` |
| `TransferAgent` | accepting, reaping and ending receivers, each of them an instance of `MessageQueue`; the links to the data-process | `TransferAgentProofs` | `MCTransferAgent`, `Transfer*.cfg` |
| `AsciiProtocol` | all messages, Compact and Resolve, the ring of output buffers | `AsciiProtocolProofs` | `MCAsciiProtocol`, `Protocol.cfg` |
| `NTPClient` | the clock, its server and the network between them | `NTPClientProofs` | `MCNTPClient`, `Clock*.cfg`, `OffsetExpiry.cfg` |
| `GLog`, `AutoFree` | the log file; the thread that frees the disk | | in `Housekeeping` |
| `Housekeeping` | these two, around one clock | `HousekeepingProofs` | `MCHousekeeping`, `Housekeeping.cfg`, `LogNewDay.cfg`, `OldIsFreed.cfg` |

Three compositions: `TransferAgent` instantiates `MessageQueue` once for all
receivers and takes its operations as parts of its own steps; `Housekeeping` does
so with `GLog` and `AutoFree`, which share a clock, and free_storage writes to the
log; `FileReceiver` and `FileWritter` both implement `FileStore`, which is what
they know of each other.

Operators with names like `DataArriveAtStart` or `LoopEmptyLate`, marked "a
possible slip", are not part of any specification: each stands beside the
definition it varies and records a mistake that one of the properties rules out.
History variables and fields are marked as such; no guard of a modelled operation
reads one except where a bound is named.

### FileStore

`pending` is the queue of files with their contents, `stored` the disk, `told` the
names the data-process has heard, `lost` those given up. Its five actions are what
any reader of FileWritter.h would expect; the retry of a save, which repeats
nothing that can be seen, is why `Store` may leave the file in the queue and why
`Leave` is an action of its own.

* `FileWritter` implements it with `pending <- Waiting` (the cells between the
  ends of the deque) and `stored <- disk`, until two receivers are in push_back at
  once (`overlap`).
* `FileReceiver` implements it with the contents of the buffers the queue refers
  to, so the refinement says that no buffer changes between NewFile and the disk.
  `told` and `lost` are empty there: that module has neither link nor destructor.

### FileReceiver

The io thread (`iopc`) and the message thread (`mpc`) are separate processes, and
each handler is cut where the other thread can get in between:

| Code | Steps |
|---|---|
| handle_read + network_receive | `IoRead`/`IoError`, `IoCheckReady`, `IoCheckWaiting`, `IoData`, `IoPost`, `IoRearm` |
| thread_message | `MsgReceive` |
| on_network_receive | `MsgLookup`, `MsgRead`, `MsgFileInfo`/`MsgFileStat`/`MsgWrong`/`MsgBadSize` |
| on_receive_complete | `MsgComplete`, `MsgNotify`, `MsgWrite`, `MsgSettle` |
| notify_status | `MsgNotify` (state_ first), `MsgWrite`/`MsgWriteThrows` (then the answer) |
| on_network_close | `MsgClose`, which waits for the io thread: the TCPClient's destructor joins it |

network_receive looks at `state_` twice, and the message thread may change it in
between. The FileInfo objects are `bname`, `bsize`, `brcv`, `bdata`;
`fileptr_.use_count() > 1` is membership in `Held`, the references of the writer's
queue and of save_first.

Abstractions. The wire carries *units*: the body of a line, its newline, or a
piece of file data; a read returns 1 to `PackSize` of them (`SplitLines` says
whether a read may end inside a line). A message queue of 1024 entries becomes
`QueueCap`. When the io thread has refilled the receive buffer between Lookup and
Read, the message thread gets the line whole, cut, or spoilt (`LineRead`); a
fileinfo cut inside its last number has a smaller size, one cut before it has
none. If Lookup finds no newline, Read copies nothing, the old string is resolved
again, and `bufrcv_[-1] = 0` writes before the array, which is taken to do no harm.
Line types that Resolve knows and the receiver ignores are all represented by
filestat. The kernel copies a packet into `bufrcv_` before handle_read sets
`bytercv_`; the two are one step. An uncaught exception or a null pointer ends the
process (`crashed`, all threads `dead`).

The client is external. In `ReceiverUpload` it keeps to the protocol: one line at
a time, data only after READY, exactly as much as it has announced, and it may
close the connection at any moment. `ReceiverAnyTraffic` adds heartbeats at any
time and split lines instead, from a client that stays.

### FileWritter

NewFile is four steps (look at `running_`, take a cell, construct and advance the
end, notify): boost's deque is not synchronised, so with two producers the second
step of one may fall between those of the other, and the end of the queue may be
advanced from an old value or from the current one (`PushCommit`). `cells`,
`first` and `last` are the deque's memory, so that a lost element and a cell that
nothing was constructed in can be told apart. The history `overlap` records that two
producers have been in push_back at once: the files of the server come from as many
message threads as there are connections, and what holds of the queue holds until
that happens.

`LoopEmpty` and `EnterWait` are two steps: nothing keeps a producer out between
the look at the queue and the wait. A wait ends by a notification, spuriously (if
`Spurious`) or by interruption; afterwards the code goes on with save_first
without looking again. save_first is cut at every call that can fail:
`SaveFront`, `SaveDirectory`(`Fails`, `Throws`), `SaveOpenFails`/`SaveWrite`,
`SaveRegister`(`Throws`), `SavePop`, `SaveLookDp`, `SaveTellDp`. Each failure is a
choice: directory and file (`MayFail`) and the database. The result of fwrite is not
looked at by the code, and the model has no length of what was stored.
`front()` of an empty queue, a null link and an exception end the program.

`nested` counts how often the root was put in front of `subpath`, which a repeated
save does again; `NestedRoot` says whether such a directory can be made.

### TCPClient

`mtxsnd_` and `mtxrcv_` make each operation one step, but for Lookup: it reads the size
of the buffer before it takes the lock (`LookupSize`), and bytes may arrive, and push
others out, before it scans (`LookupScan`). The thread that looks is the one that
reads, so Read waits for it. Sent bytes are numbered in
the order Write is asked for them, so order, loss and repetition are visible;
received bytes are letters, since Lookup compares them. `sending` is the
asynchronous write under way, with the number of bytes it was given. A write
completes with any number of them or fails. `overwritten` counts what a full receive
buffer has lost.

### MessageQueue

Every operation takes the queue it is about. The boost queue is two sequences,
`high` (SendMessage) and `low` (PostMessage), which share `Cap` places.
PostMessage looks at `mq_` in one step and sends in another, so Stop may get in
between or come while send waits for room; the send then runs in freed memory
(`freed`). Stop is four steps: `StopBegin` (is there a thread?), `StopQuit`
(MSG_QUIT, which needs room), `StopJoin`, `StopReset`.

### TransferAgent

| Code | Steps |
|---|---|
| handle_accept, network_accept (files) | `Accept`, `AcceptLock`, `AcceptCouple`(`Fails`, `Throws`), `AcceptStart`, `AcceptClose`, `AcceptRelease` |
| a receiver's threads | `Io*`, `Msg*` on the operations of `MessageQueue` |
| ~FileReceiver and its members | `DestroyStop`, `DestroyClose`, `DestroyJoined`, `DestroyInterrupted` |
| thread_idle | `IdleWake`, `IdleLock`, `IdleErased`, `IdleUnlock`, `IdleEnds` |
| IsAlive, in thread_idle | `IdleUnique`, `IdleOpen`, `IdleIntoNull` |
| StopService | `StopService`, `StopJoined`, `StopAutoFreed`, `StopCleared`, `StopDone` |
| network_accept (data-process), receive_dp | `LinkAccept`, `LinkSet`, `LinkCouple`, `LinkStart`, `LinkError`, `LinkDecouple`, `LinkClose` |

Reference counts are modelled by who holds what: `tcpptr_.unique()` is that the
accept handler does not hold the client (`AcceptHolds`). IsAlive is two steps: it asks
unique(), then goes through `tcpptr_`, which on_network_close may have reset meanwhile.
The io thread takes up reading again only if the socket is still open. The joins in a
destructor that thread_idle runs are interruption points for as long as they wait
(`DestroyInterrupted`, once StopService has interrupted the thread). `crashed` names why the
process ended: `race` (network_accept pushes while StopService clears), `endpoint`
(remote_endpoint throws for a client that is gone), `fresh` (a callback runs into a
receiver that was reaped at once), `freed` (a message posted through a queue that
is gone), `null` (IsAlive goes through a `tcpptr_` that was reset), `interrupted` (an
interruption while a destructor waits in a join), `selfjoin` (a
client destroyed in its own io thread). The properties are about processes that
have not ended so, and say it where they mention `crashed`.

Receivers and links share no variable except `crashed`; `MCNext` explores them one
at a time. Of the two connections, which are alike, `c1` comes first, and only
`c1` sends something before its end.

### AsciiProtocol

A line is a sequence of *pieces*: words, numbers, and the characters that mean
something to one of the two directions (comma, equals, dot, space, newline). A
double is an integer in units of 1/10000 and is printed with six significant
digits as boost::format does; `Never` (2 * 10^9) stands for 1E30. Letter case, which
resolve compares without, is abstracted. Each Compact* is an operator that joins the
fields in the code's order and under the code's conditions; each resolve_* goes
through the keywords it knows. `ibuf_` and `buff_` are the ring; a line too long for
its buffer runs into the next one (`Spoilt`), or past the last (`overrun`), after
which nothing is modelled.

What a text must not contain to come back is stated by the properties: separators
within it, spaces around it, and texts that read like a keyword and a value of
another field (`Mimics`).

### NTPClient

Time is in whole ticks; `now` is the server's clock and `err` the local clock's
error, so an answer is good if it makes `err` small. Requests and answers are in
`net`, where they may wait, overtake each other or vanish, and an answer may be
delivered more than once; `inbox` is the socket's buffer, and what is in it or under way
ends with the socket. get_time takes whatever comes first for the answer to the latest
request, and so does `Receive`. The histories `asked` and `opened` say when the latest
request and the first one of this socket were sent, `silent` how many rounds have passed
without an answer, and `measured` the delay of the answer that `offset_` is from, while
it can be compared with the clock. `offset_` is kept as twice its value, a whole number. A round is
`ResolveFails`, `SendFails`, or `SendRequest` followed by `TimedOut`,
`ReceiveFails` or `Receive`.

### GLog, AutoFree, Housekeeping

Days and months are short, and the date arithmetic is the code's: valid_file
compares days of the month (`StaysOpen`), next_noon adds a day if noon is past or
near, free_storage compares a number of days with `days4`, which is in seconds.
Stdio's buffer (`cached`) is apart from the files, so that closing, forgetting and
flushing a file differ. The flushing thread and the cleaning thread sleep by
seconds that pass (`due`, `left`), and look at a clock that somebody may set. A name
in the storage that cannot be read ends the process (`CheckThrows`), and so does a
log file that cannot be opened (`WriteCrashes`).

## 3. Runs

Deadlock is not checked: in every instance the clients run out of files, lines or
time, and the server then rightly waits; a terminated program does nothing more.

### What holds

| Run | Instance | Shows |
|---|---|---|
| `receiver_upload` | 3 files (sizes 2, 2, 1), 3 buffers, packets of 2, queue of 2, client may close, fairness | `TypeOK`, `SavedIntact`, `AckedIsKept`, `NoOverrun`, `NoNullPointer`, `SendingIsAnswered`, `IsFileStore` |
| `receiver_any_traffic` | 1 file offered twice, a heartbeat at any time, split lines, 3 buffers | `QueuedUntouched` |
| `writer_storage` | 2 files, 2 producers, all failures, spurious wakeups, 1 link, destructor, limit 2, fairness | `TypeOK`, `OnlyOverlapDrops`, `ToldIsSaved`, `NoticedIsSaved`, `DestructorReturns`, `IsFileStore` |
| `client_streams` | capacity 3, lines of 1 and 2 bytes, 6 bytes sent, 6 received over 2 letters, 4 flags, fairness | `TypeOK`, `StreamKept`, `OneWriteUnderWay`, `ReadInOrder`, `LookupIsFirst`, `AllIsSent` |
| `message_queue` | 1 queue of 2, up to 4 messages of 3 kinds, Stop at any moment, fairness | `ThreadHasQueue`, `QuitComesFirst`, `StopReturns` |
| `transfer_agent` | 2 connections, 2 links, queues of 2, 1 message before the close, fairness | `TypeOK`, `OneIsDestroyed`, `ClosedIsQuiet`, `SeparateLinksServed`, `DeadIsReaped`, `StopServiceReturns` |
| `protocol` | every message, one or two fields varied over clean and spoilt texts (over the protocol's own words and five others) and numbers at their limits; then up to 4 calls in a ring of 3 buffers of 50 | `RoundTrip`, `DamageIsLocal`, `OwnLinesResolve`, `RecentIntact` |
| `ntp_client` | period 2, timeout 1, limit 1, 2 failures, errors -2, 0, 1, up to 2 datagrams in the socket, rounds begin until tick 6 | `AnswersAreCurrent`, `OffsetIsTrue`, `SyncIsExact` |
| `housekeeping` | days of 4 seconds, months of 2 days, 18 seconds, started at midnight, at noon or after it, 3 lines, the clock set by -7 or +2 once | `NothingIsLost`, `FiledUnderItsDay`, `FlushedInTime`, `EveryNoonOnce` |

The bounds. *Receiver*: two files of one size are what it takes to reuse a buffer,
a third of another size to replace it; three buffers are one more than the two that
can be in use (one receiving, one with the writer, one queued in between). Packets
of two units split a file of two in every way and let a file end inside a packet or
with it. A queue of two messages is enough for the receive message, the close behind
it and a full queue. Of several free buffers the first is taken (`MCFairSpec`): they
differ in nothing but their name. *Writer*: with a limit of two errors, a failure can
be the last one allowed or not, and two files let one be queued while the other is
saved and let the queue run empty in between; two producers hand them over one after the
other or at once. *Client*: a buffer of three bytes overflows with lines of up to two,
six bytes wrap the one that sends, and six fill the one that receives twice over, so that
it is read, filled again and overwritten. *Queue*: four messages fill a queue of two twice; one
kind has an identifier out of range, which gets no function. *Service*: with two
receivers one is erased in front of another, the smallest case in which an iterator
can go wrong, and a new one comes while an old one goes; two links follow one another
or overlap. *Protocol*: a conversion works field by field, except where two texts run
into each other, so one field and two texts at a time cover it; four calls come round
a ring of three. *Clock*: three rounds let an answer, or its copy, come in its own round,
in the next and in the one after, before or after the clock was set; two datagrams let
one of them wait behind another. *Housekeeping*: eighteen
seconds of days of four hold five dates, so that with months of two a file is met
again on the same day of the month one and two months later; a jump back of seven
goes to the day before, and over noon.

### What does not hold

Each of these runs checks one statement of a comment, and TLC finds a behaviour of
the code that contradicts it.

| Run | Statement | What the code does |
|---|---|---|
| `receiver_next_offer` | after COMPLETE the client may send another file (AsciiProtocol.h:310) | COMPLETE goes out before `state_` is WAITING, and the fileinfo is dropped in between |
| `writer_lost_wakeup` | the monitor checks whether a file waits and stores it (FileWritter.h:122) | a notification before the wait is lost |
| `transfer_fresh_reaped` | IsAlive: is the network connection valid (FileReceiver.h:62-64) | a receiver whose client the accept handler still holds is taken for dead |

More of the kind can be reproduced with the configurations that are kept here
without being listed as runs:

| Configuration | Module | Property TLC refutes | Behaviour |
|---|---|---|---|
| `ReceiverHangUp.cfg` | MCFileReceiver | `WriteReturns` | Write throws when the peer is gone, and the process ends (tcpasio.h:147-148) |
| `WriterEmptyQueue.cfg` | MCFileWritter | `SavesSomething` | a late notification leads to front() of an empty queue (FileWritter.cpp:87) |
| `WriterErrorCount.cfg` | MCFileWritter | `CountsInARow` | a success that empties the queue does not clear errcnt (FileWritter.cpp:93) |
| `WriterRetryPath.cfg` | MCFileWritter | `SavedInPlace` | a retry puts the root in front of subpath again (FileWritter.h:34) |
| `WriterTwoReceivers.cfg` | MCFileWritter | `NothingDropped` | two message threads in push_back at once leave one file, and the other, which NewFile has announced as waiting to be stored (FileWritter.h:106), is lost |
| `OffsetExpiry.cfg` | MCNTPClient | `OffsetExpires` | a round that cannot make its socket is not counted (NTPClient.cpp:104-106), so an offset is still valid after the 5 periods that NTPClient.cpp:129 gives it |
| `LogNewDay.cfg` | MCHousekeeping | `NewDayNewFile` | only the day of the month is compared (GLog.cpp:37), so a log that was silent for a month goes on in its old file, although the date has changed (GLog.h:40) |
| `OldIsFreed.cfg` | MCHousekeeping | `OldIsFreed` | the age in days is compared with four days in seconds, and nothing is ever old enough (TransferAgent.cpp:103) |
| `ClockLate.cfg` | MCNTPClient | `ClockIsCorrected` | an answer that comes after its timeout, or for the second time, is taken for the answer to the next request, also when the clock was set in between (NTPClient.h:4) |

Met while modelling and left without a configuration, because no property separates
them from what the code intends, or because the server does not get there today:

* a file of size 0 is told READY and nothing more, for only data can complete it
  (FileReceiver.cpp:61);
* a heartbeat that shares a packet with another line, or comes right before it,
  makes the server drop that line or close the connection (FileReceiver.cpp:79-108);
* the results of fwrite and fclose are not looked at (FileWritter.cpp:117-118), so
  a file that a full disk has cut is announced like a whole one;
* Read from a position other than 0 erases other bytes than it returns
  (tcpasio.cpp:146); all its callers pass 0;
* Write with a buffer takes what fits (tcpasio.cpp:163) and save_first does not look
  at how much that was: the data-process may get a line without its end;
* CreateServer catches error_code, while asio throws system_error
  (tcpasio.cpp:244-258): a port in use ends the process;
* a log file that cannot be opened is written to (GLog.cpp:53-55), and a directory
  whose name ends in no date throws out of the cleaning thread;
* StopService clears the receivers without the lock, an interruption may leave a
  destructor, IsAlive may meet a `tcpptr_` that was just reset, overlapping links may
  join themselves, remote_endpoint may throw: the values of `crashed` in `TransferAgent`;
* nothing bounds what DataArrive copies (FileWritter.h:55): only a client that sends more
  than it has announced comes to the end of a buffer, and `NoOverrun` is about the other
  kind;
* after a failed write the bytes stay queued, and no later Write starts to send
  (tcpasio.cpp:194): `OneWriteUnderWay` and `AllIsSent` end with a failed write;
* a clock set back delays the flush of the log by as much (GLog.cpp:74);
  `FlushedInTime` excludes it;
* SetHost, SetSyncLimit and SynchClock from outside have no caller; if they get one,
  they share the clock's state without a lock.

### Fairness

`FairSpec` of FileReceiver assumes that both server threads run, that TCP
delivers, and that the client takes the answers and sends the data it was asked
for; nothing makes a client offer a file, send a heartbeat or hang up, and nothing
makes the writer run. `FairSpec` of FileWritter assumes that the producers, the
monitor and the destroying thread run; not that the condition wakes up by itself,
that the link comes or goes, or that the destructor is called. `FairSpec` of
TCPClient assumes that a write under way ends, one way or the other. `FairSpec` of
MessageQueue assumes that the message thread runs, its functions return, and Stop goes on
once it was called; nothing makes anybody post or call Stop. `FairSpec` of
TransferAgent assumes that the accept handlers, each receiver's threads and
StopService, once it was called, go on, and that thread_idle wakes up every minute.
No client is made to connect, send or hang up, and nobody has to call StopService. Weak
fairness is enough everywhere: once a thread can go on it stays able to, because the
other threads only fill the queue it reads from, or wait for it. A Stop that waits for room competes with a bounded number of posts
(`MaxPosts`): that posters who never pause could keep it waiting for ever is outside the
model, since there is one poster and its connection ends.

NTPClient, AsciiProtocol and Housekeeping assume no fairness; their properties are
safety, with time itself in the state (`OffsetExpires` counts rounds, `FlushedInTime` and
`EveryNoonOnce` seconds). Sleeping threads of Housekeeping wake in time: no second passes
while one that is due has not run.

## 4. Proofs

All of these hold for every value of the constants that the modules' assumptions
allow. TLC checked each inductive invariant on the instances above first.

**FileReceiverProofs**, in three parts.

*Any traffic* (`TypeCorrect`, `NullSafety`, `QueuedFilesAreSafe`), without any
assumption about the client. The invariant `IInv` adds to the types:
`QueuedAreFull`, a queued file that `fileptr_` still points at has all its bytes,
so that what DataArrive writes lies past them; `DataHasBuffer`, nothing asks for
`fileptr_` before the first fileinfo has set it; `CloseIsLast`, NETWORK_CLOSE is
posted when the io thread is through, so no message follows it. None of the three
results is inductive without them. `QueuedUntouched` then follows step by step:
DataArrive changes nothing below rcvsize, and MsgFileInfo takes a FileInfo that
nobody holds.

*Storage* (`SessionImplements`): a session with its writer implements `FileStore`,
whatever the client sends. Steps of the client and of the io thread stutter because
they leave queued files untouched, which is `QueuedUntouched` again; the writer's
steps are `Store` and `Leave` because what save_first works on is the head of the
queue (`SavingHead`, an invariant proved there).

*Uploads* (`UploadsAreSavedIntact`, `AcknowledgedIsKept`, `NoBufferOverrun`), for a
client that keeps to the protocol, any files, any sizes, any cuts that TCP makes and
a client that hangs up whenever it likes. The io thread and the message thread share
`state_`, the receive buffer and `fileptr_` without a lock; what keeps them apart is
that the client waits for READY and for COMPLETE. `InSomePhase` lists the nine
situations that leaves: nothing under way (`Quiet`), a line sent, read, queued and
handled (`Offered`, `OfferRead`, `OfferQueued`, `OfferHandled`), READY on its way
(`Accepting`), data (`Receiving`), the end of it (`Completing`), and a line that a
client gone meanwhile has left (`Broken`). Each says where every unit of the file is,
in `filedata_`, in the io thread's hands or on the wire, and each step is shown to
lead from one phase to one of them. `FilesInv` carries the result on to the disk.
The one assumption is `NoHeartbeats` (`MaxBeats = 0`): with a heartbeat that the
client may send at any time when it is idle, and lines that arrive in pieces, TLC
refutes all three, because the line before or behind it can be dropped or spoilt
(AsciiProtocol's Resolve then gets a fileinfo whose size is cut).

**FileWritterProofs**, for any number of receivers that share the writer.
`ToldFilesAreSaved` needs only that, after fwrite, the file save_first works on is on disk.
`WriterTypeCorrect`, `NoFileIsDropped` and `StorageImplements` make no assumption about the
receivers either, but what they say of the queue holds until two are in push_back at once
(`overlap`): after that files do get lost, as `WriterTwoReceivers.cfg` shows.
`OnePush` (one receiver at most is about to advance the end), `CellsFilled` (every cell
between the ends holds a file, and push_back works on the next one) and `SavingHead` (from
front() to pop_front() save_first works on the first element) are what make it inductive.
In the refinement push_back is `Put`, fwrite `Store`, pop_front `Leave`, the line to the
data-process `Tell`, the destructor `GiveUp`, and every other step stutters. That a step on
the deque's cells is the step on the sequence of waiting files is where `CellsFilled` comes
in.

**TCPClientProofs** (`ClientTypeCorrect`, `SentInOrder`, `SingleWrite`,
`ReceivedInOrder`, `LookupCorrect`). `OneWriteUnderWay` is what makes `StreamKept`
inductive: a completed write never covers more bytes than the buffer still holds.
`FailureSticks` says that a failed write leaves bytes behind, for good, so that no
later Write starts another one. `ReceivedInOrder` says what the receive buffer holds
however often it was filled, read and overwritten: the newest bytes, all but as many as
were read or lost. It assumes that Read begins at the front (`ReadFrom \subseteq {0}`), as
every caller does; from another position Read erases other bytes than it returns.
`LookupCorrect` has no assumption, and takes the size from before the scan: it is never
more than the buffer holds, because nobody reads meanwhile. Its proof: two functions
over the places of the buffer, the code's scan and the first place of the flag, obey
the same equation, and if they differed there would be a last place where they do.

**MessageQueueProofs** (`QueueTypeCorrect`, `QuitIsFirst`, `QueueOutlivesThread`), for any
number of queues and messages. `QuitSent`: while Stop waits for the thread, MSG_QUIT is among
the messages of high priority or the thread has ended on it, so that nothing of low priority
is received. `Lives` ties the thread, its pointer, the queue and the place Stop has come to,
so that the reset finds no thread.

**TransferAgentProofs** (`ServiceTypeCorrect`, `OneAtATimeIsDestroyed`,
`NothingIsPostedLate`, `LinksAreServed`), for any number of clients and links, and
for the whole of `Spec`, of which the run explores a part. The invariant has one part
for each. `Lives`: thread_idle holds `mtx_filercv_` as long as its iterator is in the
list, between the two halves of IsAlive too, StopService clears the list only when
thread_idle has ended, and each receiver is in the list once; so a receiver that is being
stopped is the one at the iterator or the one clear has come to. `Quiets`: NETWORK_CLOSE is what an io thread posts last,
followed from the post through the queue to the handler. `Linked`: while no two links
overlap, at most one is alive, and `tcpc_dp_`, the writer's link and the accept
handler's place say which; the link's io thread takes it from the writer before it
closes it.

**NTPClientProofs** (`ClockTypeCorrect`, `NoStaleAnswer`, `ValidOffsetIsTrue`,
`ClockIsExact`), on a network that delays, reorders, repeats and loses what it likes.
`LatestExact` says what the timestamps of the latest request and of its answers have to do
with the clock, which does not move while select waits; `Times` orders them, and each request
is later than the one before; `OfSocket` keeps anything older than the socket out of network
and socket. `ClockIsExact` is then arithmetic on four timestamps, for the answer to the
latest request and for every other one whose request found the clock as it is now
(`SameClock`); an answer that is late or comes twice and finds the clock changed is outside of
it, and what that leads to is `ClockLate.cfg`. `ValidOffsetIsTrue` is inductive by the same
arithmetic: what SynchClock corrects it also voids. How long an offset stays valid is not a
theorem, since `OffsetExpiry.cfg` refutes it.

**HousekeepingProofs** (`LinesAreKept`, `LinesAreFiled`, `LinesAreFlushed`,
`StorageIsChecked`), for days and months of any length. `AllStored`: each line that
was not dropped is in one place, of a file or of the buffer, and what is in a place is
a line (`Listed`); writing the buffer out moves places (`WrittenCells`) and keeps
them apart. `Filed`: the day of the month that valid_file remembers is that of the
open file, and whatever has been written since on a later day has the same one
(`Current`), so that a line in another file than its day's comes after a leap of whole
months in the history of lines (`SameDay`), whichever way the clock went. `Flushing`:
in the second second of silence the flushing thread is due. `Waiting`: when the
cleaning thread wakes it will be noon, by the arithmetic of next_noon.
Two things came out of these proofs. The log compares days of the *month*: a program
that writes nothing for a whole month, or for several, goes on in the old file, and a clock
set by whole months does the same at once. `FiledUnderItsDay` excepts just these lines, and
`LogNewDay.cfg` shows one.
And next_noon keeps its promise only if the shortest wait is not longer than half a
day (`WaitAssumption`; it is ten seconds): otherwise the wait that follows a wait
into the afternoon would be too short again.

**AsciiProtocolProofs** (`RingKeepsLines`, `LinesRoundTrip`, `DamageStaysLocal`,
`OwnLinesAreResolved`). The ring: whatever Compact returns, a line stays in the ring for
as many calls as there are buffers, calls that return nothing included. `Kept` counts
the turns until its buffer is written again.

What is written is what is read, for texts of any length made of any words, numbers and
characters. The operators on strings are not recursive, so no induction over the text is
needed: split, trim and the search for a separator are places in the string (a least,
a greatest, a set of them), and the lemmas say which. The argument has four parts.

* *The pairs of a line are those of its pieces* (`PairsConcat`): every piece but the last
  ends with a comma, so the tokens of a concatenation are those of its parts, the second
  part's moved. Trimming the whole line on the right touches its last piece only.
* *Each piece is read as its own keyword with a part of its text*: the whole text if it is
  `Clean`. A text with a comma in it is cut there and leaves tokens behind, which have a
  keyword of their own only if an equals sign follows, that is, if the text `Mimics` a pair;
  a text of nothing but spaces and punctuation leaves no pair, and the field stays as the
  constructor has left it.
* *The two directions agree on every kind of protocol* (`Regular`): for each of the 21
  kinds, resolve_* reads each field through the keyword under which Compact* wrote it,
  texts as texts and numbers as numbers, and no keyword twice. A number cannot throw
  then, apart from the rain value that is a word; a double is off by half a unit of its
  sixth digit at most, 5/10000 of a degree within a turn.
* `LastInv` *is inductive*: the line of the last call is what Compact* made of it and is
  still in the buffer it was put into, and what has been received is what Resolve makes of
  that string. The receiver's search for the newline ends where the sender has put it,
  because no text holds one.

What the theorems assume of the calls is `ProtocolAssumption`: texts are on one line, of
pieces over `Words`; a rain value is one word, one number, or none; angles are within a
turn or not set, other doubles within the value that stands for 1E30; the rest are ints.
`WordAssumption` says that the protocol's own words are among `Words`: a text may hold
any of them, keywords included. Both hold in the run, where TLC evaluates them.

Every invariant, every action property and both refinements that a passing run checks
are theorems. Only model-checked are the liveness properties, which are out of the
prover's reach: `SendingIsAnswered`, `NoticedIsSaved`, `DestructorReturns`,
`AllIsSent`, `StopReturns`, `DeadIsReaped`, `StopServiceReturns`.

## 5. Not modelled

* **daemon, ftserver**: fork, setsid, the PID file and the signal handler are system
  calls in a straight line.
* **param_config**: an XML tree read once, at start.
* **DBCurl**: HTTP forms, which is pure input and output. What the server sees of it,
  that RegImageFile succeeds or fails, is in `FileWritter`.
* **TCPServer::CreateServer** and **StartService** run before anything is concurrent;
  the state they leave is `Init` of `TransferAgent`.
* **TCPClient::Connect, AsyncConnect**: the server never connects anywhere.
* **FileWritter::UpdateStorage** assigns the path that is there already, from another
  thread; the race has no outcome but that path. **SetNotifyPath** has no caller.
* **check_imgtype, set_id** of AsciiProtocol have no caller.
* `DataTransfer.*`, `data.h`, `AllHeader.h` and `AstroDeviceDef.h`: not compiled, or
  constants of other programs.
* Several sessions with one writer are not composed in one module. Each session does
  what `FileStore` says with its own files, and the writer does so with the files of any
  number of receivers, until two of them are in push_back at once (`overlap`,
  `WriterTwoReceivers.cfg`).
* Inside a log line and inside a file nothing is modelled but the order of its units.

---------------------------- MODULE TransferAgent ----------------------------
(***************************************************************************)
(* The service (TransferAgent.cpp) and the lifetimes it manages: the       *)
(* accept handler of the file server makes a FileReceiver for every        *)
(* connection, the idle thread reaps those that are not alive, StopService *)
(* ends it all; the accept handler of the other server replaces the link   *)
(* to the data-process, and the link's own io thread drops it.             *)
(*                                                                         *)
(* Each receiver is a MessageQueue with its io thread and message thread;  *)
(* what they do with a file is in FileReceiver.tla, here it is only how    *)
(* they end. shared_ptr counts are modelled by who holds what.             *)
(***************************************************************************)
EXTENDS Integers, Sequences, FiniteSets, SequencesExt

CONSTANTS
  Conns,       \* connections to the file server, each with its receiver
  Links,       \* connections to the data-process server
  NoClient,    \* a null TcpCPtr
  Cap,         \* capacity of a message queue
  MaxPosts     \* bound: messages a connection posts, NETWORK_CLOSE not counted

ASSUME ClientAssumption == NoClient \notin Conns \cup Links
ASSUME CapAssumption == Cap \in Nat \ {0} /\ MaxPosts \in Nat

VARIABLES
  mq_, thrdmsg_, funcs_, high, low, poster, mpc, msg, stopper,
  posted, taken, handled, freed,   \* the receivers' message queues
  peer,        \* the clients: not there yet, connected, gone
  sock,        \* the clients' sockets on this side
  tcpptr_,     \* FileReceiver::tcpptr_ is not null
  iopc,        \* the io thread of each client
  apc,         \* the accept handler of the file server: where it is
  aconn,       \* and the client it holds
  mtx,         \* mtx_filercv_: who holds it
  filercv_,    \* the receivers
  ipc,         \* thread_idle
  it,          \* thread_idle: its place in filercv_
  spc,         \* the thread that calls StopService
  lpc,         \* the accept handler of the data-process server
  lconn,       \* and the client it holds
  lsock,       \* sockets of the data-process
  ldp,         \* the io thread of each link
  tcpc_dp_,    \* TransferAgent::tcpc_dp_
  writerdp,    \* FileWritter::tcpc_dp_
  overlap,     \* history: a link was accepted before the one before it had ended
  crashed      \* why the process has ended

mqvars   == <<mq_, thrdmsg_, funcs_, high, low, poster, mpc, msg, stopper, posted, taken, handled, freed>>
session  == <<peer, sock, tcpptr_, iopc>>
accept   == <<apc, aconn>>
idle     == <<ipc, it>>
links    == <<lpc, lconn, lsock, ldp, tcpc_dp_, writerdp, overlap>>
vars     == <<mqvars, session, accept, mtx, filercv_, idle, spc, links, crashed>>

MSG_NETWORK_RECEIVE == 128
MSG_NETWORK_CLOSE   == 129

MQ == INSTANCE MessageQueue WITH Queues <- Conns, Ids <- {MSG_NETWORK_RECEIVE, MSG_NETWORK_CLOSE}

Init ==
  /\ MQ!Init
  /\ peer = [c \in Conns |-> "away"] /\ sock = [c \in Conns |-> "none"]
  /\ tcpptr_ = [c \in Conns |-> FALSE] /\ iopc = [c \in Conns |-> "none"]
  /\ apc = "wait" /\ aconn = NoClient
  /\ mtx = "free" /\ filercv_ = <<>>
  /\ ipc = "sleep" /\ it = 1 /\ spc = "run"
  /\ lpc = "wait" /\ lconn = NoClient
  /\ lsock = [l \in Links |-> "none"] /\ ldp = [l \in Links |-> "none"]
  /\ tcpc_dp_ = NoClient /\ writerdp = NoClient /\ overlap = FALSE
  /\ crashed = "no"

\* The accept handler's shared_ptr, bound into it, lives until it has returned.
AcceptHolds(c) == aconn = c

\* The io thread has nothing to do any more, and join on it returns.
IoJoined(c) == iopc[c] \in {"none", "done"}

Crash(why) == crashed' = why

-----------------------------------------------------------------------------
(* The clients                                                             *)

Hangup(c) ==
  /\ peer[c] = "up"
  /\ peer' = [peer EXCEPT ![c] = "down"]
  /\ UNCHANGED <<mqvars, sock, tcpptr_, iopc, accept, mtx, filercv_, idle, spc, links, crashed>>

-----------------------------------------------------------------------------
(* handle_accept of the file server and network_accept in it               *)

Accept(c) ==
  /\ apc = "wait" /\ peer[c] = "away" /\ spc # "done"
  /\ peer' = [peer EXCEPT ![c] = "up"] /\ sock' = [sock EXCEPT ![c] = "open"]
  /\ apc' = "lock" /\ aconn' = c
  /\ UNCHANGED <<mqvars, tcpptr_, iopc, mtx, filercv_, idle, spc, links, crashed>>

AcceptLock ==
  /\ apc = "lock" /\ mtx = "free"
  /\ mtx' = "accept" /\ apc' = "couple"
  /\ UNCHANGED <<mqvars, session, aconn, filercv_, idle, spc, links, crashed>>

\* CoupleNetwork starts the messages and takes the client; push_back. The lock is
\* let go at the end of the block; StopService does not ask for it.
AcceptCouple ==
  /\ apc = "couple"
  /\ MQ!Start(aconn) /\ MQ!RegisterMessages(aconn, {MSG_NETWORK_RECEIVE, MSG_NETWORK_CLOSE})
  /\ tcpptr_' = [tcpptr_ EXCEPT ![aconn] = TRUE]
  /\ filercv_' = Append(filercv_, aconn)
  /\ IF spc = "clear" THEN Crash("race") ELSE UNCHANGED crashed
  /\ mtx' = "free" /\ apc' = "start"
  /\ UNCHANGED <<msg, poster, stopper, posted, taken, handled, freed, peer, sock, iopc,
                 aconn, idle, spc, links>>

\* The message queue cannot be created: no receiver, but the client is started.
AcceptCoupleFails ==
  /\ apc = "couple"
  /\ mtx' = "free" /\ apc' = "start"
  /\ UNCHANGED <<mqvars, session, aconn, filercv_, idle, spc, links, crashed>>

\* remote_endpoint throws when the client is gone already.
AcceptCoupleThrows ==
  /\ apc = "couple" /\ peer[aconn] = "down"
  /\ Crash("endpoint")
  /\ UNCHANGED <<mqvars, session, accept, mtx, filercv_, idle, spc, links>>

\* client->start(); the callback is bound to the receiver, if there was one.
AcceptStart ==
  /\ apc = "start"
  /\ iopc' = [iopc EXCEPT ![aconn] = IF funcs_[aconn] # {} THEN "reading" ELSE "done"]
  /\ apc' = "release"
  /\ UNCHANGED <<mqvars, peer, sock, tcpptr_, aconn, mtx, filercv_, idle, spc, links, crashed>>

\* The handler returns. If its reference is the last, ~TCPClient closes the socket
AcceptClose ==
  /\ apc = "release" /\ ~tcpptr_[aconn] /\ sock[aconn] = "open"
  /\ sock' = [sock EXCEPT ![aconn] = "closed"]
  /\ UNCHANGED <<mqvars, peer, tcpptr_, iopc, accept, mtx, filercv_, idle, spc, links, crashed>>

\* and joins the io thread.
AcceptRelease ==
  /\ apc = "release"
  /\ tcpptr_[aconn] \/ (sock[aconn] = "closed" /\ IoJoined(aconn))
  /\ apc' = "wait" /\ aconn' = NoClient
  /\ UNCHANGED <<mqvars, session, mtx, filercv_, idle, spc, links, crashed>>

AcceptHandler ==
  AcceptLock \/ AcceptCouple \/ AcceptCoupleFails \/ AcceptCoupleThrows \/ AcceptStart
  \/ AcceptClose \/ AcceptRelease

-----------------------------------------------------------------------------
(* The two threads of a receiver                                           *)

\* The receiver has left filercv_: the callback runs into what is left of it.
Gone(c) == stopper[c] = "stopped" /\ ~Contains(filercv_, c)

IoIntoGone(c) ==
  /\ iopc[c] = "reading" /\ Gone(c)
  /\ Crash("fresh")
  /\ UNCHANGED <<mqvars, session, accept, mtx, filercv_, idle, spc, links>>

\* A packet, or the end: handle_read calls network_receive, which posts.
IoReceive(c) ==
  /\ iopc[c] = "reading" /\ ~Gone(c) /\ sock[c] = "open" /\ peer[c] = "up"
  /\ Len(posted[c]) < MaxPosts
  /\ MQ!PostMessage(c, MSG_NETWORK_RECEIVE)
  /\ iopc' = [iopc EXCEPT ![c] = "posting"]
  /\ UNCHANGED <<peer, sock, tcpptr_, accept, mtx, filercv_, idle, spc, links, crashed>>

IoError(c) ==
  /\ iopc[c] = "reading" /\ ~Gone(c) /\ (sock[c] = "closed" \/ peer[c] = "down")
  /\ MQ!PostMessage(c, MSG_NETWORK_CLOSE)
  /\ iopc' = [iopc EXCEPT ![c] = "closing"]
  /\ UNCHANGED <<peer, sock, tcpptr_, accept, mtx, filercv_, idle, spc, links, crashed>>

\* ~TCPClient stops the io_service; the read it cancels need not report.
IoStopped(c) ==
  /\ iopc[c] = "reading" /\ sock[c] = "closed" /\ stopper[c] = "stopped"
  /\ iopc' = [iopc EXCEPT ![c] = "done"]
  /\ UNCHANGED <<mqvars, peer, sock, tcpptr_, accept, mtx, filercv_, idle, spc, links, crashed>>

\* A possible slip: the next read is started after an error, and on a closed socket,
\* too.
IoPostedReads(c) ==
  /\ iopc[c] \in {"posting", "closing"}
  /\ IF poster[c] = -1 THEN UNCHANGED mqvars ELSE MQ!PostSend(c)
  /\ iopc' = [iopc EXCEPT ![c] = "reading"]
  /\ IF freed' THEN Crash("freed") ELSE UNCHANGED crashed
  /\ UNCHANGED <<peer, sock, tcpptr_, accept, mtx, filercv_, idle, spc, links>>

\* start_read takes up reading again only if nobody has closed the socket meanwhile.
IoPosted(c) ==
  /\ iopc[c] \in {"posting", "closing"}
  /\ IF poster[c] = -1 THEN UNCHANGED mqvars ELSE MQ!PostSend(c)
  /\ iopc' = [iopc EXCEPT ![c] = IF @ = "posting" /\ sock[c] = "open" THEN "reading" ELSE "done"]
  /\ IF freed' THEN Crash("freed") ELSE UNCHANGED crashed
  /\ UNCHANGED <<peer, sock, tcpptr_, accept, mtx, filercv_, idle, spc, links>>

IoEnds(c) == IoError(c) \/ IoStopped(c) \/ IoPosted(c)

Io(c) == IoIntoGone(c) \/ IoReceive(c) \/ IoEnds(c)

MsgReceive(c) ==
  /\ MQ!ReceiveHigh(c) \/ MQ!ReceiveLow(c)
  /\ UNCHANGED <<session, accept, mtx, filercv_, idle, spc, links, crashed>>

\* on_network_receive; a line it does not understand makes it close the socket.
MsgNetworkReceive(c) ==
  /\ msg[c] = MSG_NETWORK_RECEIVE
  /\ MQ!HandlerReturns(c)
  /\ UNCHANGED sock \/ sock' = [sock EXCEPT ![c] = "closed"]
  /\ UNCHANGED <<peer, tcpptr_, iopc, accept, mtx, filercv_, idle, spc, links, crashed>>

\* A possible slip: the client is kept.
MsgNetworkCloseKeeps(c) ==
  /\ msg[c] = MSG_NETWORK_CLOSE
  /\ MQ!HandlerReturns(c)
  /\ UNCHANGED <<session, accept, mtx, filercv_, idle, spc, links, crashed>>

\* on_network_close: tcpptr_.reset(), which ends the client unless the accept
\* handler still holds it.
MsgNetworkClose(c) ==
  /\ msg[c] = MSG_NETWORK_CLOSE
  /\ MQ!HandlerReturns(c)
  /\ tcpptr_' = [tcpptr_ EXCEPT ![c] = FALSE]
  /\ IF AcceptHolds(c) THEN UNCHANGED sock
     ELSE IoJoined(c) /\ sock' = [sock EXCEPT ![c] = "closed"]
  /\ UNCHANGED <<peer, iopc, accept, mtx, filercv_, idle, spc, links, crashed>>

Msg(c) == MsgReceive(c) \/ MsgNetworkReceive(c) \/ MsgNetworkClose(c)

-----------------------------------------------------------------------------
(* The destructor of a receiver, in the thread that erases it              *)

\* ~FileReceiver calls Stop.
DestroyStop(c) ==
  /\ MQ!Stop(c)
  /\ UNCHANGED <<session, accept, mtx, filercv_, idle, spc, links, crashed>>

\* Then the members go: ~TCPClient, if this is the last reference, closes the
\* socket,
DestroyClose(c) ==
  /\ stopper[c] = "stopped" /\ tcpptr_[c] /\ ~AcceptHolds(c) /\ sock[c] = "open"
  /\ sock' = [sock EXCEPT ![c] = "closed"]
  /\ UNCHANGED <<mqvars, peer, tcpptr_, iopc, accept, mtx, filercv_, idle, spc, links, crashed>>

\* and joins the io thread.
DestroyJoined(c) ==
  /\ stopper[c] = "stopped"
  /\ AcceptHolds(c) \/ ~tcpptr_[c] \/ (sock[c] = "closed" /\ IoJoined(c))
  /\ tcpptr_' = [tcpptr_ EXCEPT ![c] = FALSE]
  /\ UNCHANGED <<mqvars, peer, sock, iopc>>

\* The two joins are interruption points for as long as they wait; an exception that
\* leaves a destructor ends the process.
DestroyInterrupted(c) ==
  /\ \/ stopper[c] = "join" /\ mpc[c] # "done"
     \/ stopper[c] = "stopped" /\ tcpptr_[c] /\ ~AcceptHolds(c) /\ sock[c] = "closed" /\ ~IoJoined(c)
  /\ Crash("interrupted")
  /\ UNCHANGED <<mqvars, session, accept, mtx, filercv_, idle, spc, links>>

-----------------------------------------------------------------------------
(* thread_idle                                                             *)

\* StopService has interrupted the thread.
Interrupted == spc # "run"

IdleWake ==
  /\ ipc = "sleep" /\ ~Interrupted
  /\ ipc' = "lock"
  /\ UNCHANGED <<mqvars, session, accept, mtx, filercv_, it, spc, links, crashed>>

IdleLock ==
  /\ ipc = "lock" /\ mtx = "free"
  /\ mtx' = "idle" /\ it' = 1 /\ ipc' = "scan"
  /\ UNCHANGED <<mqvars, session, accept, filercv_, spc, links, crashed>>

\* IsAlive: the iterator's receiver has its client for itself,
IdleUnique ==
  /\ ipc = "scan" /\ it <= Len(filercv_)
  /\ ipc' = LET c == filercv_[it] IN IF tcpptr_[c] /\ ~AcceptHolds(c) THEN "look" ELSE "destroy"
  /\ UNCHANGED <<mqvars, session, accept, mtx, filercv_, it, spc, links, crashed>>

\* and its socket is open. on_network_close may have reset tcpptr_ meanwhile.
IdleOpen ==
  /\ ipc = "look" /\ tcpptr_[filercv_[it]]
  /\ IF sock[filercv_[it]] = "open" THEN it' = it + 1 /\ ipc' = "scan"
     ELSE it' = it /\ ipc' = "destroy"
  /\ UNCHANGED <<mqvars, session, accept, mtx, filercv_, spc, links, crashed>>

IdleIntoNull ==
  /\ ipc = "look" /\ ~tcpptr_[filercv_[it]]
  /\ Crash("null")
  /\ UNCHANGED <<mqvars, session, accept, mtx, filercv_, idle, spc, links>>

\* The receiver that erase destroys.
Erasing(c) == ipc = "destroy" /\ it <= Len(filercv_) /\ filercv_[it] = c

\* A possible slip: the iterator is moved on after erase.
IdleErasedSkips ==
  /\ \E c \in Conns : Erasing(c) /\ DestroyJoined(c)
  /\ filercv_' = RemoveAt(filercv_, it) /\ ipc' = "scan" /\ it' = it + 1
  /\ UNCHANGED <<accept, mtx, spc, links, crashed>>

IdleErased ==
  /\ \E c \in Conns : Erasing(c) /\ DestroyJoined(c)
  /\ filercv_' = RemoveAt(filercv_, it) /\ ipc' = "scan"
  /\ UNCHANGED <<accept, mtx, it, spc, links, crashed>>

IdleUnlock ==
  /\ ipc = "scan" /\ it > Len(filercv_)
  /\ mtx' = "free" /\ ipc' = "sleep" /\ it' = 1
  /\ UNCHANGED <<mqvars, session, accept, filercv_, spc, links, crashed>>

\* sleep_for throws thread_interrupted, which ends the thread.
IdleEnds ==
  /\ ipc = "sleep" /\ Interrupted
  /\ ipc' = "ended"
  /\ UNCHANGED <<mqvars, session, accept, mtx, filercv_, it, spc, links, crashed>>

Idle ==
  \/ IdleLock \/ IdleUnique \/ IdleOpen \/ IdleIntoNull \/ IdleErased \/ IdleUnlock \/ IdleEnds
  \/ \E c \in Conns : Erasing(c) /\ (DestroyStop(c) \/ DestroyClose(c))
  \/ \E c \in Conns : Erasing(c) /\ Interrupted /\ DestroyInterrupted(c)

-----------------------------------------------------------------------------
(* StopService                                                             *)

StopService ==
  /\ spc = "run"
  /\ spc' = "join"
  /\ UNCHANGED <<mqvars, session, accept, mtx, filercv_, idle, links, crashed>>

\* A possible slip: the thread is interrupted, and nobody waits for it.
StopJoinedNot ==
  /\ spc = "join"
  /\ spc' = "autofree"
  /\ UNCHANGED <<mqvars, session, accept, mtx, filercv_, idle, links, crashed>>

StopJoined ==
  /\ spc = "join" /\ ipc = "ended"
  /\ spc' = "autofree"
  /\ UNCHANGED <<mqvars, session, accept, mtx, filercv_, idle, links, crashed>>

\* The other thread, which frees the disk (AutoFree) and shares nothing with this
\* module, is interrupted and joined as well.
StopAutoFreed ==
  /\ spc = "autofree"
  /\ spc' = "clear"
  /\ UNCHANGED <<mqvars, session, accept, mtx, filercv_, idle, links, crashed>>

\* filercv_.clear(): one receiver after the other.
StopCleared ==
  /\ spc = "clear" /\ filercv_ # <<>> /\ DestroyJoined(filercv_[1])
  /\ filercv_' = Tail(filercv_)
  /\ UNCHANGED <<accept, mtx, idle, spc, links, crashed>>

StopDone ==
  /\ spc = "clear" /\ filercv_ = <<>>
  /\ spc' = "done"
  /\ UNCHANGED <<mqvars, session, accept, mtx, filercv_, idle, links, crashed>>

Stopping ==
  \/ StopJoined \/ StopAutoFreed \/ StopCleared \/ StopDone
  \/ spc = "clear" /\ filercv_ # <<>> /\ (DestroyStop(filercv_[1]) \/ DestroyClose(filercv_[1]))

-----------------------------------------------------------------------------
(* The link to the data-process                                            *)

\* Who is left without an owner when one pointer to it goes.
Orphan(l, other) == l # NoClient /\ l # other

\* ~TCPClient of link l closes its socket; its io thread is joined in a later step.
Closed(l) == [lsock EXCEPT ![l] = "closed"]

\* network_accept of the other server: the first pointer,
LinkAccept(l) ==
  /\ lpc = "wait" /\ lsock[l] = "none"
  /\ lpc' = "set" /\ lconn' = l
  /\ lsock' = [lsock EXCEPT ![l] = "open"]
  /\ overlap' = (overlap \/ \E k \in Links : ldp[k] \notin {"none", "done"})
  /\ UNCHANGED <<mqvars, session, accept, mtx, filercv_, idle, spc, ldp, tcpc_dp_, writerdp, crashed>>

\* A link that nobody else holds is destroyed with the pointer; its destructor
\* closes it before it joins.
LinkSet ==
  /\ lpc = "set"
  /\ tcpc_dp_' = lconn /\ lpc' = "couple"
  /\ lsock' = IF Orphan(tcpc_dp_, writerdp) THEN Closed(tcpc_dp_) ELSE lsock
  /\ UNCHANGED <<mqvars, session, accept, mtx, filercv_, idle, spc, lconn, ldp, writerdp, overlap, crashed>>

\* the second one, in the writer,
LinkCouple ==
  /\ lpc = "couple"
  /\ writerdp' = lconn /\ lpc' = "join"
  /\ lsock' = IF Orphan(writerdp, tcpc_dp_) THEN Closed(writerdp) ELSE lsock
  /\ UNCHANGED <<mqvars, session, accept, mtx, filercv_, idle, spc, lconn, ldp, tcpc_dp_, overlap, crashed>>

\* the io threads of destroyed links are joined, and the new link is started.
LinkStart ==
  /\ lpc = "join" /\ \A k \in Links \ {lconn} : ldp[k] \in {"none", "done"}
  /\ ldp' = [ldp EXCEPT ![lconn] = "reading"] /\ lpc' = "wait" /\ lconn' = NoClient
  /\ UNCHANGED <<mqvars, session, accept, mtx, filercv_, idle, spc, lsock, tcpc_dp_,
                 writerdp, overlap, crashed>>

\* receive_dp: the data-process has closed the connection, or this side has.
LinkError(l) ==
  /\ ldp[l] = "reading"
  /\ ldp' = [ldp EXCEPT ![l] = IF lsock[l] = "open" THEN "decouple" ELSE "done"]
  /\ UNCHANGED <<mqvars, session, accept, mtx, filercv_, idle, spc, lpc, lconn, lsock, tcpc_dp_,
                 writerdp, overlap, crashed>>

\* A possible slip: only the link is closed.
LinkDecoupleNot(l) ==
  /\ ldp[l] = "decouple"
  /\ ldp' = [ldp EXCEPT ![l] = "close"]
  /\ UNCHANGED <<mqvars, session, accept, mtx, filercv_, idle, spc, lpc, lconn, lsock, tcpc_dp_,
                 writerdp, overlap, crashed>>

\* DecoupleNetowrk resets the writer's pointer, whichever link it is. A client
\* destroyed in its own io thread would have to join itself.
LinkDecouple(l) ==
  /\ ldp[l] = "decouple"
  /\ writerdp' = NoClient
  /\ lsock' = IF Orphan(writerdp, tcpc_dp_) THEN Closed(writerdp) ELSE lsock
  /\ IF writerdp = l /\ tcpc_dp_ # l THEN Crash("selfjoin") ELSE UNCHANGED crashed
  /\ ldp' = [ldp EXCEPT ![l] = "close"]
  /\ UNCHANGED <<mqvars, session, accept, mtx, filercv_, idle, spc, lpc, lconn, tcpc_dp_, overlap>>

\* tcpc_dp_->Close(), whichever link that is now.
LinkClose(l) ==
  /\ ldp[l] = "close"
  /\ lsock' = Closed(tcpc_dp_)
  /\ ldp' = [ldp EXCEPT ![l] = "done"]
  /\ UNCHANGED <<mqvars, session, accept, mtx, filercv_, idle, spc, lpc, lconn, tcpc_dp_,
                 writerdp, overlap, crashed>>

LinkIo(l) == LinkError(l) \/ LinkDecouple(l) \/ LinkClose(l)

LinkHandler == LinkSet \/ LinkCouple \/ LinkStart

-----------------------------------------------------------------------------
(* The service                                                             *)

Up == crashed = "no"

Next ==
  /\ Up
  /\ \/ \E c \in Conns : Hangup(c) \/ Accept(c) \/ Io(c) \/ Msg(c)
     \/ AcceptHandler \/ IdleWake \/ Idle \/ StopService \/ Stopping
     \/ \E l \in Links : LinkAccept(l) \/ LinkIo(l)
     \/ LinkHandler

Spec == Init /\ [][Next]_vars

\* A thread that can run runs, and thread_idle wakes every minute. Nothing makes a
\* client connect, send or hang up, or StopService be called.
Fairness ==
  /\ WF_vars(Up /\ AcceptHandler)
  /\ WF_vars(Up /\ IdleWake) /\ WF_vars(Up /\ Idle) /\ WF_vars(Up /\ Stopping)
  /\ \A c \in Conns : WF_vars(Up /\ IoEnds(c)) /\ WF_vars(Up /\ Msg(c))
  /\ \A l \in Links : WF_vars(Up /\ LinkIo(l))
  /\ WF_vars(Up /\ LinkHandler)

FairSpec == Spec /\ Fairness

-----------------------------------------------------------------------------
(* Properties                                                              *)

TypeOK ==
  /\ MQ!MQTypeOK
  /\ peer \in [Conns -> {"away", "up", "down"}] /\ sock \in [Conns -> {"none", "open", "closed"}]
  /\ tcpptr_ \in [Conns -> BOOLEAN]
  /\ iopc \in [Conns -> {"none", "reading", "posting", "closing", "done"}]
  /\ apc \in {"wait", "lock", "couple", "start", "release"}
  /\ aconn \in Conns \cup {NoClient} /\ (apc = "wait" <=> aconn = NoClient)
  /\ mtx \in {"free", "accept", "idle"} /\ filercv_ \in Seq(Conns)
  /\ ipc \in {"sleep", "lock", "scan", "look", "destroy", "ended"}
  /\ it \in Nat \ {0} /\ (ipc \in {"scan", "destroy"} => it <= Len(filercv_) + 1)
  /\ (ipc = "look" => it <= Len(filercv_))
  /\ spc \in {"run", "join", "autofree", "clear", "done"}
  /\ lpc \in {"wait", "set", "couple", "join"} /\ lconn \in Links \cup {NoClient}
  /\ lsock \in [Links -> {"none", "open", "closed"}]
  /\ ldp \in [Links -> {"none", "reading", "decouple", "close", "done"}]
  /\ tcpc_dp_ \in Links \cup {NoClient} /\ writerdp \in Links \cup {NoClient}
  /\ overlap \in BOOLEAN
  /\ crashed \in {"no", "race", "endpoint", "fresh", "freed", "null", "interrupted", "selfjoin"}

\* Only one receiver is being destroyed at a time, and it is one of filercv_:
\* StopService does not clear the receivers while thread_idle erases one of them.
OneIsDestroyed ==
  LET destroyed == {c \in Conns : stopper[c] \in {"quit", "join", "reset"}}
  IN  Cardinality(destroyed) <= 1 /\ \A c \in destroyed : Contains(filercv_, c)

\* Once a receiver has handled the end of its client, its io thread posts nothing any
\* more: destroying it then, which is what thread_idle waits for, leaves nobody behind
\* who uses its queue.
ClosedIsQuiet ==
  \A c \in Conns : Contains(handled[c], MSG_NETWORK_CLOSE) => poster[c] = -1

\* Connections of the data-process one after the other are served one after the
\* other: the writer has the one that is there, and none when it has ended.
SeparateLinksServed ==
  ~overlap /\ lpc = "wait" =>
    /\ \A l \in Links : ldp[l] = "reading" => writerdp = l /\ tcpc_dp_ = l /\ lsock[l] = "open"
    /\ (\A l \in Links : ldp[l] \in {"none", "done"}) => writerdp = NoClient

\* A receiver whose client has gone is destroyed sooner or later, unless the service
\* ends before.
DeadIsReaped ==
  \A c \in Conns :
    peer[c] = "down" /\ Contains(filercv_, c)
      ~> ~Contains(filercv_, c) \/ spc = "done" \/ crashed # "no"

\* StopService returns: joining the idle thread and the receivers' threads comes to
\* an end, whatever the clients do.
StopServiceReturns == spc = "join" ~> spc = "done" \/ crashed # "no"

\* What IsAlive says it is: "whether the network connection is valid"
\* (FileReceiver.h:62-64). Only receivers whose connection is not valid are reaped.
ReapedIsDead ==
  \A c \in Conns :
    Erasing(c) /\ stopper[c] = "none" => ~(tcpptr_[c] /\ sock[c] = "open" /\ peer[c] = "up")

=============================================================================

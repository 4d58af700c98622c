----------------------------- MODULE MessageQueue -----------------------------
(***************************************************************************)
(* MessageQueue (MessageQueue.cpp): a queue of messages of two priorities, *)
(* a thread that dispatches them to the registered functions, one thread   *)
(* that posts (the io thread of a connection) and one that starts and      *)
(* stops the whole. mq_ and thrdmsg_ are looked at without a lock.         *)
(*                                                                         *)
(* Every operation takes the queue it is about, so that a component with   *)
(* many queues can use them.                                               *)
(***************************************************************************)
EXTENDS Integers, Sequences

CONSTANTS
  Queues,      \* the MessageQueue objects
  Ids,         \* identifiers of messages that get registered and posted
  Cap,         \* capacity of the message_queue: 1024
  MaxPosts     \* bound: messages posted to each queue

MSG_QUIT    == 0
MSG_USER    == 128
MQFUNC_SIZE == 1024

ASSUME IdAssumption == Ids \subseteq Int \ {MSG_QUIT}
ASSUME CapAssumption == Cap \in Nat \ {0} /\ MaxPosts \in Nat

VARIABLES
  mq_,       \* mq_ is not null
  thrdmsg_,  \* thrdmsg_ is not null
  funcs_,    \* the messages that have a function
  high,      \* what SendMessage has put in the queue
  low,       \* what PostMessage has put in the queue
  poster,    \* the posting thread: the message it is about to send, or nothing
  mpc,       \* where the message thread is
  msg,       \* thread_message: msg.id
  stopper,   \* where the thread that calls Stop is
  posted,    \* history: messages PostMessage has put in the queue
  taken,     \* history: messages of low priority that were received
  handled,   \* history: messages whose function was called
  freed      \* a message was sent through a queue that was gone already

queue   == <<mq_, high, low>>
thread  == <<thrdmsg_, mpc, msg>>
history == <<posted, taken, handled>>
mqvars  == <<queue, thread, funcs_, poster, stopper, history, freed>>

Idle == -1

Init ==
  /\ mq_ = [q \in Queues |-> FALSE] /\ thrdmsg_ = [q \in Queues |-> FALSE]
  /\ funcs_ = [q \in Queues |-> {}]
  /\ high = [q \in Queues |-> <<>>] /\ low = [q \in Queues |-> <<>>]
  /\ poster = [q \in Queues |-> Idle]
  /\ mpc = [q \in Queues |-> "none"] /\ msg = [q \in Queues |-> Idle]
  /\ stopper = [q \in Queues |-> "none"]
  /\ posted = [q \in Queues |-> <<>>] /\ taken = [q \in Queues |-> <<>>]
  /\ handled = [q \in Queues |-> <<>>]
  /\ freed = FALSE

-----------------------------------------------------------------------------
(* Registering, starting                                                   *)

InRange(id) == id - MSG_USER \in 0 .. MQFUNC_SIZE - 1

\* An identifier out of range is refused.
RegisterMessages(q, ids) ==
  funcs_' = [funcs_ EXCEPT ![q] = @ \cup {id \in ids : InRange(id)}]

\* A new queue, then the thread; nothing if there is a thread already.
Start(q) ==
  /\ ~thrdmsg_[q] /\ stopper[q] = "none"
  /\ mq_' = [mq_ EXCEPT ![q] = TRUE]
  /\ high' = [high EXCEPT ![q] = <<>>] /\ low' = [low EXCEPT ![q] = <<>>]
  /\ thrdmsg_' = [thrdmsg_ EXCEPT ![q] = TRUE]
  /\ mpc' = [mpc EXCEPT ![q] = "receive"]

-----------------------------------------------------------------------------
(* Posting                                                                 *)

HasRoom(q) == Len(high[q]) + Len(low[q]) < Cap

\* PostMessage: "if (mq_.unique())", then send. Without a queue nothing happens.
PostMessage(q, id) ==
  /\ poster[q] = Idle
  /\ poster' = [poster EXCEPT ![q] = IF mq_[q] THEN id ELSE Idle]
  /\ UNCHANGED <<queue, thread, funcs_, stopper, history, freed>>

\* mq_->send waits until there is room. If mq_ has been reset since it was
\* looked at, or is reset while it waits, the object it runs on is gone.
PostSend(q) ==
  /\ poster[q] # Idle
  /\ IF ~mq_[q]
     THEN freed' = TRUE /\ UNCHANGED <<low, posted>>
     ELSE /\ HasRoom(q)
          /\ low' = [low EXCEPT ![q] = Append(@, poster[q])]
          /\ posted' = [posted EXCEPT ![q] = Append(@, poster[q])]
          /\ UNCHANGED freed
  /\ poster' = [poster EXCEPT ![q] = Idle]
  /\ UNCHANGED <<mq_, high, thread, funcs_, stopper, taken, handled>>

\* SendMessage has the higher priority.
SendMessage(q, id) ==
  /\ mq_[q] /\ HasRoom(q)
  /\ high' = [high EXCEPT ![q] = Append(@, id)]

-----------------------------------------------------------------------------
(* thread_message                                                          *)

\* A possible slip: the loop goes on whatever the message is.
AfterNoQuit(id) == IF InRange(id) THEN "handle" ELSE "receive"

\* Where the loop goes with message id: to its function, round, or to its end.
After(id) == IF InRange(id) THEN "handle" ELSE IF id = MSG_QUIT THEN "done" ELSE "receive"

\* mq_->receive: the messages sent with high priority come first.
ReceiveHigh(q) ==
  /\ mpc[q] = "receive" /\ high[q] # <<>>
  /\ msg' = [msg EXCEPT ![q] = Head(high[q])]
  /\ mpc' = [mpc EXCEPT ![q] = After(Head(high[q]))]
  /\ high' = [high EXCEPT ![q] = Tail(@)]
  /\ UNCHANGED <<mq_, low, thrdmsg_, funcs_, poster, stopper, history, freed>>

ReceiveLow(q) ==
  /\ mpc[q] = "receive" /\ high[q] = <<>> /\ low[q] # <<>>
  /\ msg' = [msg EXCEPT ![q] = Head(low[q])]
  /\ mpc' = [mpc EXCEPT ![q] = After(Head(low[q]))]
  /\ low' = [low EXCEPT ![q] = Tail(@)]
  /\ taken' = [taken EXCEPT ![q] = Append(@, Head(low[q]))]
  /\ UNCHANGED <<mq_, high, thrdmsg_, funcs_, poster, stopper, posted, handled, freed>>

\* funcs_[pos](par1, par2) has returned; without a connected slot it does nothing.
HandlerReturns(q) ==
  /\ mpc[q] = "handle"
  /\ handled' = IF msg[q] \in funcs_[q] THEN [handled EXCEPT ![q] = Append(@, msg[q])] ELSE handled
  /\ mpc' = [mpc EXCEPT ![q] = "receive"]
  /\ UNCHANGED <<queue, thrdmsg_, msg, funcs_, poster, stopper, posted, taken, freed>>

-----------------------------------------------------------------------------
(* Stop                                                                    *)

StopBegin(q) ==
  /\ stopper[q] = "none"
  /\ stopper' = [stopper EXCEPT ![q] = IF thrdmsg_[q] THEN "quit" ELSE "reset"]
  /\ UNCHANGED <<queue, thread, funcs_, poster, history, freed>>

\* A possible slip: MSG_QUIT is posted like any other message.
StopQuitPosted(q) ==
  /\ stopper[q] = "quit" /\ mq_[q] /\ HasRoom(q)
  /\ low' = [low EXCEPT ![q] = Append(@, MSG_QUIT)]
  /\ stopper' = [stopper EXCEPT ![q] = "join"]
  /\ UNCHANGED <<mq_, high, thread, funcs_, poster, history, freed>>

\* SendMessage(MSG_QUIT), which waits for room like any other,
StopQuit(q) ==
  /\ stopper[q] = "quit"
  /\ SendMessage(q, MSG_QUIT)
  /\ stopper' = [stopper EXCEPT ![q] = "join"]
  /\ UNCHANGED <<mq_, low, thread, funcs_, poster, history, freed>>

\* A possible slip: the thread is not waited for.
StopJoinNot(q) ==
  /\ stopper[q] = "join"
  /\ stopper' = [stopper EXCEPT ![q] = "reset"]
  /\ UNCHANGED <<queue, thread, funcs_, poster, history, freed>>

\* join and reset of the thread,
StopJoin(q) ==
  /\ stopper[q] = "join" /\ mpc[q] = "done"
  /\ thrdmsg_' = [thrdmsg_ EXCEPT ![q] = FALSE]
  /\ mpc' = [mpc EXCEPT ![q] = "none"]
  /\ stopper' = [stopper EXCEPT ![q] = "reset"]
  /\ UNCHANGED <<queue, msg, funcs_, poster, history, freed>>

\* reset of the queue, with what is still in it.
StopReset(q) ==
  /\ stopper[q] = "reset"
  /\ mq_' = [mq_ EXCEPT ![q] = FALSE]
  /\ high' = [high EXCEPT ![q] = <<>>] /\ low' = [low EXCEPT ![q] = <<>>]
  /\ stopper' = [stopper EXCEPT ![q] = "stopped"]
  /\ UNCHANGED <<thread, funcs_, poster, history, freed>>

MessageThread(q) == ReceiveHigh(q) \/ ReceiveLow(q) \/ HandlerReturns(q)

Stop(q) == StopBegin(q) \/ StopQuit(q) \/ StopJoin(q) \/ StopReset(q)

-----------------------------------------------------------------------------
(* The queue by itself                                                     *)

Launch(q) ==
  /\ Start(q) /\ RegisterMessages(q, Ids)
  /\ UNCHANGED <<msg, poster, stopper, history, freed>>

Next ==
  \E q \in Queues :
    \/ Launch(q) \/ MessageThread(q) \/ Stop(q)
    \/ \E id \in Ids : Len(posted[q]) < MaxPosts /\ PostMessage(q, id)
    \/ PostSend(q)

Spec == Init /\ [][Next]_mqvars

\* The message thread runs and its functions return; Stop goes on once it is called.
FairSpec ==
  /\ Spec
  /\ \A q \in Queues :
       WF_mqvars(MessageThread(q)) /\ WF_mqvars(StopQuit(q) \/ StopJoin(q) \/ StopReset(q))

-----------------------------------------------------------------------------
(* Properties                                                              *)

MQTypeOK ==
  /\ mq_ \in [Queues -> BOOLEAN] /\ thrdmsg_ \in [Queues -> BOOLEAN]
  /\ funcs_ \in [Queues -> SUBSET Ids]
  /\ high \in [Queues -> Seq({MSG_QUIT})] /\ low \in [Queues -> Seq(Ids)]
  /\ poster \in [Queues -> Ids \cup {Idle}]
  /\ mpc \in [Queues -> {"none", "receive", "handle", "done"}]
  /\ msg \in [Queues -> Ids \cup {MSG_QUIT, Idle}]
  /\ stopper \in [Queues -> {"none", "quit", "join", "reset", "stopped"}]
  /\ posted \in [Queues -> Seq(Ids)] /\ taken \in [Queues -> Seq(Ids)]
  /\ handled \in [Queues -> Seq(Ids)] /\ freed \in BOOLEAN

\* Stop does not wait for what is queued: while it waits for the thread no message that
\* was posted is received any more, so that at most the function that runs is finished and
\* everything behind it, RECEIVE_COMPLETE like any other message, is thrown away.
QuitComesFirst ==
  [][\A q \in Queues : stopper[q] = "join" => taken'[q] = taken[q]]_mqvars

\* Stop returns, although MSG_QUIT has to wait for room in a queue that others fill, and
\* the thread may be in the middle of a function or in front of a full queue.
StopReturns == \A q \in Queues : stopper[q] # "none" ~> stopper[q] = "stopped"

\* The queue is not destroyed before the thread that receives from it has ended.
ThreadHasQueue == \A q \in Queues : mpc[q] # "none" => mq_[q]

=============================================================================

-------------------------- MODULE MessageQueueProofs --------------------------
(***************************************************************************)
(* What a MessageQueue guarantees for any messages, any capacity, and a    *)
(* Stop at any moment, as far as Stop and the posting threads share the    *)
(* queue without a lock: MSG_QUIT comes before all that waits, and the     *)
(* thread that receives never outlives the queue.                          *)
(***************************************************************************)
EXTENDS MessageQueue, TLAPS

USE IdAssumption, CapAssumption

\* The thread and the queue come together, and the queue goes last.
Lives(q) ==
  /\ mpc[q] # "none" => mq_[q]
  /\ thrdmsg_[q] <=> mpc[q] # "none"
  /\ stopper[q] \in {"reset", "stopped"} => mpc[q] = "none"
  /\ stopper[q] \in {"quit", "join"} => mpc[q] # "none"
  /\ stopper[q] = "none" /\ mq_[q] => mpc[q] # "none"

\* While Stop waits for the thread, MSG_QUIT is in the queue or has been received.
QuitSent(q) == stopper[q] = "join" => mpc[q] = "done" \/ high[q] # <<>>

IInv == MQTypeOK /\ \A q \in Queues : Lives(q) /\ QuitSent(q)

-----------------------------------------------------------------------------
(* Every step preserves IInv                                               *)

LEMMA LaunchKeeps == ASSUME IInv, NEW q \in Queues, Launch(q) PROVE IInv'
<1>1. MQTypeOK'
  BY DEF IInv, MQTypeOK, Launch, Start, RegisterMessages, InRange, history
<1>2. ASSUME NEW r \in Queues PROVE QuitSent(r)'
  BY DEF IInv, MQTypeOK, Lives, QuitSent, Launch, Start, history
<1>3. ASSUME NEW r \in Queues PROVE Lives(r)'
  BY DEF IInv, MQTypeOK, Lives, Launch, Start
<1>4. QED
  BY <1>1, <1>2, <1>3 DEF IInv

LEMMA PostMessageKeeps ==
  ASSUME IInv, NEW q \in Queues, NEW id \in Ids, PostMessage(q, id) PROVE IInv'
<1>1. MQTypeOK'
  BY DEF IInv, MQTypeOK, PostMessage, queue, thread, history
<1>2. \A r \in Queues : Lives(r)' /\ QuitSent(r)'
  BY DEF IInv, Lives, QuitSent, PostMessage, queue, thread, history
<1>3. QED
  BY <1>1, <1>2 DEF IInv

LEMMA PostSendKeeps == ASSUME IInv, NEW q \in Queues, PostSend(q) PROVE IInv'
<1>1. poster[q] \in Ids /\ low[q] \in Seq(Ids) /\ posted[q] \in Seq(Ids)
  BY DEF IInv, MQTypeOK, PostSend
<1>2. Append(low[q], poster[q]) \in Seq(Ids) /\ Append(posted[q], poster[q]) \in Seq(Ids)
  BY <1>1
<1>3. /\ low' \in [Queues -> Seq(Ids)] /\ posted' \in [Queues -> Seq(Ids)]
      /\ poster' \in [Queues -> Ids \cup {Idle}]
  <2>1. low' = low \/ low' = [low EXCEPT ![q] = Append(low[q], poster[q])]
    BY DEF PostSend
  <2>2. posted' = posted \/ posted' = [posted EXCEPT ![q] = Append(posted[q], poster[q])]
    BY DEF PostSend
  <2>3. low' \in [Queues -> Seq(Ids)]
    BY <1>2, <2>1 DEF IInv, MQTypeOK
  <2>4. posted' \in [Queues -> Seq(Ids)]
    BY <1>2, <2>2 DEF IInv, MQTypeOK
  <2>5. poster' \in [Queues -> Ids \cup {Idle}]
    BY DEF IInv, MQTypeOK, PostSend
  <2>6. QED
    BY <2>3, <2>4, <2>5
<1>9. freed' \in BOOLEAN
  BY DEF IInv, MQTypeOK, PostSend
<1>4. UNCHANGED <<mq_, high, thrdmsg_, mpc, msg, funcs_, stopper, taken, handled>>
  BY DEF PostSend, thread
<1>5. MQTypeOK'
  BY <1>3, <1>4, <1>9 DEF IInv, MQTypeOK
<1>6. \A r \in Queues : Lives(r)' /\ QuitSent(r)'
  BY <1>4 DEF IInv, Lives, QuitSent
<1>7. QED
  BY <1>5, <1>6 DEF IInv

LEMMA AfterType == \A id : After(id) \in {"receive", "handle", "done"}
BY DEF After

LEMMA ReceiveHighKeeps == ASSUME IInv, NEW q \in Queues, ReceiveHigh(q) PROVE IInv'
<1>1. high[q] \in Seq({MSG_QUIT}) /\ high[q] # <<>>
  BY DEF IInv, MQTypeOK, ReceiveHigh
<1>2. Head(high[q]) = MSG_QUIT /\ Tail(high[q]) \in Seq({MSG_QUIT})
  BY <1>1
<1>3. MQTypeOK'
  BY <1>2, AfterType DEF IInv, MQTypeOK, ReceiveHigh, history
<1>4. ASSUME NEW r \in Queues PROVE QuitSent(r)'
  <2>1. CASE r = q
    <3>1. After(MSG_QUIT) = "done"
      BY DEF After, InRange, MSG_QUIT, MSG_USER, MQFUNC_SIZE
    <3>2. mpc'[q] = "done"
      BY <1>2, <3>1 DEF IInv, MQTypeOK, ReceiveHigh
    <3>3. QED
      BY <2>1, <3>2 DEF QuitSent
  <2>2. CASE r # q
    BY <2>2 DEF IInv, MQTypeOK, QuitSent, ReceiveHigh
  <2>3. QED
    BY <2>1, <2>2
<1>5. \A r \in Queues : Lives(r)'
  BY AfterType DEF IInv, MQTypeOK, Lives, ReceiveHigh
<1>6. QED
  BY <1>3, <1>4, <1>5 DEF IInv

LEMMA ReceiveLowKeeps == ASSUME IInv, NEW q \in Queues, ReceiveLow(q) PROVE IInv'
<1>1. low[q] \in Seq(Ids) /\ low[q] # <<>> /\ taken[q] \in Seq(Ids)
  BY DEF IInv, MQTypeOK, ReceiveLow
<1>2. Head(low[q]) \in Ids /\ Tail(low[q]) \in Seq(Ids) /\ Append(taken[q], Head(low[q])) \in Seq(Ids)
  BY <1>1
<1>3. MQTypeOK'
  BY <1>2, AfterType DEF IInv, MQTypeOK, ReceiveLow
<1>4. \A r \in Queues : Lives(r)' /\ QuitSent(r)'
  BY AfterType DEF IInv, MQTypeOK, Lives, QuitSent, ReceiveLow
<1>5. QED
  BY <1>3, <1>4 DEF IInv

LEMMA HandlerReturnsKeeps == ASSUME IInv, NEW q \in Queues, HandlerReturns(q) PROVE IInv'
<1>1. MQTypeOK'
  <2>1. funcs_[q] \subseteq Ids /\ handled[q] \in Seq(Ids)
    BY DEF IInv, MQTypeOK
  <2>2. msg[q] \in funcs_[q] => Append(handled[q], msg[q]) \in Seq(Ids)
    BY <2>1
  <2>3. handled' \in [Queues -> Seq(Ids)]
    BY <2>2 DEF IInv, MQTypeOK, HandlerReturns
  <2>4. QED
    BY <2>3 DEF IInv, MQTypeOK, HandlerReturns, queue
<1>2. \A r \in Queues : QuitSent(r)'
  BY DEF IInv, QuitSent, HandlerReturns, queue
<1>3. \A r \in Queues : Lives(r)'
  BY DEF IInv, MQTypeOK, Lives, HandlerReturns, queue
<1>4. QED
  BY <1>1, <1>2, <1>3 DEF IInv

LEMMA StopKeeps == ASSUME IInv, NEW q \in Queues, Stop(q) PROVE IInv'
<1>1. CASE StopBegin(q)
  <2>1. MQTypeOK'
    BY <1>1 DEF IInv, MQTypeOK, StopBegin, queue, thread, history
  <2>2. \A r \in Queues : Lives(r)' /\ QuitSent(r)'
    BY <1>1 DEF IInv, MQTypeOK, Lives, QuitSent, StopBegin, queue, thread, history
  <2>3. QED
    BY <2>1, <2>2 DEF IInv
<1>2. CASE StopQuit(q)
  <2>1. Append(high[q], MSG_QUIT) \in Seq({MSG_QUIT})
    BY DEF IInv, MQTypeOK
  <2>2. MQTypeOK'
    BY <1>2, <2>1 DEF IInv, MQTypeOK, StopQuit, SendMessage, thread, history
  <2>5. \A r \in Queues : Lives(r)'
    BY <1>2 DEF IInv, MQTypeOK, Lives, StopQuit, SendMessage, thread, history
  <2>6. high[q] \in Seq({MSG_QUIT}) /\ Append(high[q], MSG_QUIT) # <<>>
    <3>1. high[q] \in Seq({MSG_QUIT})
      BY DEF IInv, MQTypeOK
    <3>2. QED
      BY <3>1
  <2>7. ASSUME NEW r \in Queues PROVE QuitSent(r)'
    <3>1. CASE r = q
      BY <1>2, <2>6, <3>1 DEF IInv, MQTypeOK, QuitSent, StopQuit, SendMessage, thread
    <3>2. CASE r # q
      BY <1>2, <3>2 DEF IInv, MQTypeOK, QuitSent, StopQuit, SendMessage, thread
    <3>3. QED
      BY <3>1, <3>2
  <2>3. \A r \in Queues : Lives(r)' /\ QuitSent(r)'
    BY <2>5, <2>7
  <2>4. QED
    BY <2>2, <2>3 DEF IInv
<1>3. CASE StopJoin(q)
  <2>1. MQTypeOK'
    BY <1>3 DEF IInv, MQTypeOK, StopJoin, queue, history
  <2>2. \A r \in Queues : Lives(r)' /\ QuitSent(r)'
    BY <1>3 DEF IInv, MQTypeOK, Lives, QuitSent, StopJoin, queue, history
  <2>3. QED
    BY <2>1, <2>2 DEF IInv
<1>4. CASE StopReset(q)
  <2>1. <<>> \in Seq(Ids) /\ <<>> \in Seq({MSG_QUIT})
    OBVIOUS
  <2>2. MQTypeOK'
    BY <1>4, <2>1 DEF IInv, MQTypeOK, StopReset, thread, history
  <2>3. \A r \in Queues : Lives(r)' /\ QuitSent(r)'
    BY <1>4 DEF IInv, MQTypeOK, Lives, QuitSent, StopReset, thread, history
  <2>4. QED
    BY <2>2, <2>3 DEF IInv
<1>5. QED
  BY <1>1, <1>2, <1>3, <1>4 DEF Stop

LEMMA InitIInv == Init => IInv
<1> SUFFICES ASSUME Init PROVE IInv
  OBVIOUS
<1>1. \A S : <<>> \in Seq(S)
  OBVIOUS
<1>2. MQTypeOK
  BY <1>1 DEF Init, MQTypeOK
<1>3. ASSUME NEW q \in Queues PROVE Lives(q) /\ QuitSent(q)
  BY DEF Init, Lives, QuitSent
<1>4. QED
  BY <1>2, <1>3 DEF IInv

LEMMA NextIInv == IInv /\ [Next]_mqvars => IInv'
<1> SUFFICES ASSUME IInv, [Next]_mqvars PROVE IInv'
  OBVIOUS
<1>1. CASE Next
  BY <1>1, LaunchKeeps, PostMessageKeeps, PostSendKeeps, ReceiveHighKeeps, ReceiveLowKeeps,
     HandlerReturnsKeeps, StopKeeps DEF Next, MessageThread
<1>2. CASE UNCHANGED mqvars
  BY <1>2 DEF mqvars, queue, thread, history, IInv, MQTypeOK, Lives, QuitSent
<1>3. QED
  BY <1>1, <1>2

LEMMA Invariance == Spec => []IInv
  BY InitIInv, NextIInv, PTL DEF Spec

-----------------------------------------------------------------------------
(* The results                                                             *)

\* Every variable keeps its type: Stop puts nothing but MSG_QUIT before the messages.
THEOREM QueueTypeCorrect == Spec => []MQTypeOK
<1>1. IInv => MQTypeOK
  BY DEF IInv
<1>2. QED
  BY <1>1, Invariance, PTL

\* While Stop waits for the thread nothing that was posted is received: MSG_QUIT, with its
\* priority of 10, comes before everything that waits (MessageQueue.cpp:39-44 and 62-91).
THEOREM QuitIsFirst == Spec => QuitComesFirst
<1>1. ASSUME IInv, [Next]_mqvars, ~UNCHANGED mqvars, NEW q \in Queues, stopper[q] = "join"
      PROVE  taken'[q] = taken[q]
  <2>1. PICK r \in Queues :
          \/ Launch(r) \/ MessageThread(r) \/ Stop(r)
          \/ \E id \in Ids : PostMessage(r, id)
          \/ PostSend(r)
    BY <1>1 DEF Next
  <2>2. CASE ReceiveLow(r)
    <3>1. r # q
      BY <1>1, <2>2 DEF IInv, QuitSent, ReceiveLow
    <3>2. QED
      BY <2>2, <3>1 DEF ReceiveLow, IInv, MQTypeOK
  <2>3. CASE ~ReceiveLow(r)
    <3>1. taken' = taken
      BY <2>1, <2>3 DEF Launch, MessageThread, ReceiveHigh, HandlerReturns, Stop, StopBegin, StopQuit,
                        StopJoin, StopReset, PostMessage, PostSend, history
    <3>2. QED
      BY <3>1
  <2>4. QED
    BY <2>2, <2>3
<1>2. IInv /\ [Next]_mqvars =>
        [\A q \in Queues : stopper[q] = "join" => taken'[q] = taken[q]]_mqvars
  BY <1>1
<1>3. QED
  BY <1>2, Invariance, PTL DEF Spec, QuitComesFirst

\* Stop joins the thread before it resets the queue (MessageQueue.cpp:62-69).
THEOREM QueueOutlivesThread == Spec => []ThreadHasQueue
<1>1. IInv => ThreadHasQueue
  BY DEF IInv, Lives, ThreadHasQueue
<1>2. QED
  BY <1>1, Invariance, PTL

=============================================================================

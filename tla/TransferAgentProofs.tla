------------------------- MODULE TransferAgentProofs -------------------------
(***************************************************************************)
(* The lifetimes the service manages, for any number of clients and of     *)
(* connections of the data-process: one receiver at a time is destroyed,   *)
(* a receiver that has handled the end of its client is no longer posted   *)
(* to, and links that come one after the other are served one after the    *)
(* other. The three say nothing about each other; the inductive invariant  *)
(* is a conjunction of one part for each, and of the types.                *)
(***************************************************************************)
EXTENDS TransferAgent, FiniteSetTheorems, SequenceTheorems, TLAPS

-----------------------------------------------------------------------------
(* The inductive invariant                                                 *)

\* mtx_filercv_ is held by thread_idle for its whole walk through filercv_, and by the
\* accept handler while it makes a receiver; StopService goes on when thread_idle has
\* ended.
Locked ==
  /\ mtx = "idle" <=> ipc \in {"scan", "look", "destroy"}
  /\ mtx = "accept" <=> apc = "couple"
  /\ spc \in {"autofree", "clear", "done"} => ipc = "ended"
  /\ ipc \in {"look", "destroy"} => it <= Len(filercv_)

\* Each receiver is in filercv_ once.
NoneTwice == \A i, j \in 1 .. Len(filercv_) : filercv_[i] = filercv_[j] => i = j

\* A client is accepted once, and its receiver is new until it is put in filercv_.
Known(c) ==
  /\ Contains(filercv_, c) \/ stopper[c] # "none" \/ aconn = c => peer[c] # "away"
  /\ aconn = c /\ apc \in {"lock", "couple"} => ~Contains(filercv_, c) /\ stopper[c] = "none"

\* The two places at which a receiver is destroyed: thread_idle, and clear.
AtIterator(c) == ipc = "destroy" /\ it <= Len(filercv_) /\ filercv_[it] = c

AtFront(c) == spc = "clear" /\ filercv_ # <<>> /\ filercv_[1] = c

\* A receiver is stopped there only, and leaves filercv_ when it has been.
StoppedThere(c) ==
  /\ stopper[c] \in {"quit", "join", "reset"} => Contains(filercv_, c)
  /\ stopper[c] # "none" /\ Contains(filercv_, c) => AtIterator(c) \/ AtFront(c)

Lives == Locked /\ NoneTwice /\ \A c \in Conns : Known(c) /\ StoppedThere(c)

\* NETWORK_CLOSE is what the io thread of a client posts last.
Quiet(c) ==
  /\ \/ Contains(low[c], MSG_NETWORK_CLOSE)
     \/ msg[c] = MSG_NETWORK_CLOSE
     \/ Contains(handled[c], MSG_NETWORK_CLOSE)
     => iopc[c] = "done"
  /\ poster[c] # -1 => iopc[c] \in {"posting", "closing"}
  /\ poster[c] = MSG_NETWORK_CLOSE => iopc[c] = "closing"
  /\ peer[c] = "away" => iopc[c] = "none"
  /\ aconn = c /\ apc # "release" => iopc[c] = "none"

Quiets == \A c \in Conns : Quiet(c)

\* The io thread of a link has nothing to do yet, or any more.
Over(l) == ldp[l] \in {"none", "done"}

AllOver == \A l \in Links : Over(l)

\* The life of the one link there is: served, taken from the writer, closed.
Serving(l) ==
  /\ \A k \in Links \ {l} : Over(k)
  /\ \/ ldp[l] \in {"reading", "decouple"} /\ writerdp = l /\ tcpc_dp_ = l /\ lsock[l] = "open"
     \/ ldp[l] = "close" /\ writerdp = NoClient

\* While the accept handler sets the two pointers, no link is served yet.
OneAtATime ==
  ~overlap =>
    /\ lpc = "wait" => (AllOver /\ writerdp = NoClient) \/ \E l \in Links : Serving(l)
    /\ lpc # "wait" => AllOver /\ lsock[lconn] = "open"
    /\ lpc = "set" => writerdp = NoClient /\ tcpc_dp_ # lconn
    /\ lpc = "couple" => writerdp = NoClient /\ tcpc_dp_ = lconn
    /\ lpc = "join" => writerdp = lconn /\ tcpc_dp_ = lconn

\* A link that is pointed to has been accepted, and so has the one that is coupled.
Accepted ==
  /\ lpc = "wait" <=> lconn = NoClient
  /\ lpc # "wait" => lsock[lconn] # "none"
  /\ tcpc_dp_ # NoClient => lsock[tcpc_dp_] # "none"

Linked == OneAtATime /\ Accepted

IInv == TypeOK /\ Lives /\ Quiets /\ Linked

-----------------------------------------------------------------------------
(* Sequences                                                               *)

LEMMA ContainsNone == ASSUME NEW x PROVE ~Contains(<<>>, x)
  BY DEF Contains

LEMMA ContainsAppend ==
  ASSUME NEW S, NEW s \in Seq(S), NEW e \in S, NEW x
  PROVE  Contains(Append(s, e), x) <=> Contains(s, x) \/ e = x
<1>1. /\ Len(Append(s, e)) = Len(s) + 1 /\ Append(s, e)[Len(s) + 1] = e
      /\ \A i \in 1 .. Len(s) : Append(s, e)[i] = s[i]
  OBVIOUS
<1>2. 1 .. Len(s) + 1 = 1 .. Len(s) \cup {Len(s) + 1}
  OBVIOUS
<1>3. QED
  BY <1>1, <1>2 DEF Contains

LEMMA TailKeeps ==
  ASSUME NEW S, NEW s \in Seq(S), s # <<>>
  PROVE  /\ Tail(s) \in Seq(S) /\ Len(Tail(s)) = Len(s) - 1 /\ Len(s) \in Nat \ {0}
         /\ Head(s) = s[1] /\ Head(s) \in S
         /\ \A i \in 1 .. Len(s) - 1 : Tail(s)[i] = s[i + 1]
  OBVIOUS

LEMMA ContainsTail ==
  ASSUME NEW S, NEW s \in Seq(S), s # <<>>, NEW x
  PROVE  /\ Contains(Tail(s), x) => Contains(s, x)
         /\ Contains(s, Head(s))
<1>1. /\ Len(Tail(s)) = Len(s) - 1 /\ Len(s) \in Nat \ {0} /\ Head(s) = s[1]
      /\ \A i \in 1 .. Len(s) - 1 : Tail(s)[i] = s[i + 1]
  BY TailKeeps
<1>2. \A i \in 1 .. Len(s) - 1 : i + 1 \in 1 .. Len(s)
  BY <1>1
<1>3. 1 \in 1 .. Len(s)
  BY <1>1
<1>4. QED
  BY <1>1, <1>2, <1>3 DEF Contains

\* erase: what is behind the place moves up.
LEMMA RemoveAtProperties ==
  ASSUME NEW S, NEW s \in Seq(S), NEW k \in 1 .. Len(s)
  PROVE  /\ RemoveAt(s, k) \in Seq(S) /\ Len(RemoveAt(s, k)) = Len(s) - 1
         /\ \A i \in 1 .. Len(s) - 1 : RemoveAt(s, k)[i] = s[IF i < k THEN i ELSE i + 1]
<1> DEFINE u == SubSeq(s, 1, k - 1)
           v == SubSeq(s, k + 1, Len(s))
<1>1. Len(s) \in Nat /\ k \in Nat /\ 1 <= k /\ k <= Len(s)
  OBVIOUS
<1>2. u \in Seq(S) /\ Len(u) = k - 1 /\ \A i \in 1 .. k - 1 : u[i] = s[i]
  BY <1>1
<1>3. v \in Seq(S) /\ Len(v) = Len(s) - k /\ \A i \in 1 .. Len(s) - k : v[i] = s[k + i]
  BY <1>1
<1>4. RemoveAt(s, k) = u \o v
  BY DEF RemoveAt
<1> HIDE DEF u, v
<1>5. u \o v \in Seq(S) /\ Len(u \o v) = Len(s) - 1
  <2>1. u \o v \in Seq(S) /\ Len(u \o v) = Len(u) + Len(v)
    BY <1>2, <1>3, ConcatProperties, Zenon
  <2>2. QED
    BY <1>1, <1>2, <1>3, <2>1
<1>6. ASSUME NEW i \in 1 .. Len(s) - 1
      PROVE  (u \o v)[i] = s[IF i < k THEN i ELSE i + 1]
  <2>1. CASE i < k
    BY <1>1, <1>2, <1>3, <2>1
  <2>2. CASE ~(i < k)
    <3>1. i - (k - 1) \in 1 .. Len(s) - k /\ k + (i - (k - 1)) = i + 1
      BY <1>1, <2>2
    <3>2. (u \o v)[i] = v[i - (k - 1)]
      BY <1>1, <1>2, <1>3, <2>2
    <3>3. QED
      BY <1>3, <2>2, <3>1, <3>2
  <2>3. QED
    BY <2>1, <2>2
<1>7. QED
  BY <1>4, <1>5, <1>6

\* In a sequence without repetitions an element that is removed is gone, and nothing
\* else changes.
LEMMA RemoveAtOnce ==
  ASSUME NEW S, NEW s \in Seq(S), NEW k \in 1 .. Len(s),
         \A i, j \in 1 .. Len(s) : s[i] = s[j] => i = j
  PROVE  /\ \A i, j \in 1 .. Len(RemoveAt(s, k)) : RemoveAt(s, k)[i] = RemoveAt(s, k)[j] => i = j
         /\ \A x : Contains(RemoveAt(s, k), x) <=> Contains(s, x) /\ x # s[k]
<1> DEFINE t     == RemoveAt(s, k)
           at(i) == IF i < k THEN i ELSE i + 1
<1>1. Len(s) \in Nat /\ k \in Nat /\ 1 <= k /\ k <= Len(s)
  OBVIOUS
<1>2. t \in Seq(S) /\ Len(t) = Len(s) - 1 /\ \A i \in 1 .. Len(s) - 1 : t[i] = s[at(i)]
  BY RemoveAtProperties
<1> HIDE DEF t
<1>3. \A i \in 1 .. Len(s) - 1 : at(i) \in 1 .. Len(s) /\ at(i) # k
  BY <1>1
<1>4. \A i, j \in 1 .. Len(s) - 1 : at(i) = at(j) => i = j
  BY <1>1
<1>5. \A i \in 1 .. Len(s) : i # k => \E j \in 1 .. Len(s) - 1 : at(j) = i
  <2> SUFFICES ASSUME NEW i \in 1 .. Len(s), i # k
               PROVE  \E j \in 1 .. Len(s) - 1 : at(j) = i
    OBVIOUS
  <2>1. CASE i < k
    <3>1. i \in 1 .. Len(s) - 1 /\ at(i) = i
      BY <1>1, <2>1
    <3>2. QED
      BY <3>1
  <2>2. CASE ~(i < k)
    <3>1. i - 1 \in 1 .. Len(s) - 1 /\ at(i - 1) = i
      BY <1>1, <2>2
    <3>2. QED
      BY <3>1
  <2>3. QED
    BY <2>1, <2>2
<1> HIDE DEF at
<1>6. \A i, j \in 1 .. Len(t) : t[i] = t[j] => i = j
  BY <1>2, <1>3, <1>4
<1>7. ASSUME NEW x PROVE Contains(t, x) <=> Contains(s, x) /\ x # s[k]
  <2>1. ASSUME NEW i \in 1 .. Len(t), t[i] = x PROVE Contains(s, x) /\ x # s[k]
    BY <1>2, <1>3, <2>1 DEF Contains
  <2>2. ASSUME NEW i \in 1 .. Len(s), s[i] = x, x # s[k] PROVE \E j \in 1 .. Len(t) : t[j] = x
    <3>1. PICK j \in 1 .. Len(s) - 1 : at(j) = i
      BY <1>5, <2>2
    <3>2. t[j] = x /\ j \in 1 .. Len(t)
      BY <1>2, <2>2, <3>1
    <3>3. QED
      BY <3>2
  <2>3. QED
    BY <2>1, <2>2 DEF Contains
<1>8. QED
  BY <1>6, <1>7 DEF t

\* clear: the first is removed.
LEMMA TailRemoves ==
  ASSUME NEW S, NEW s \in Seq(S), s # <<>>
  PROVE  Tail(s) = RemoveAt(s, 1) /\ 1 \in 1 .. Len(s)
<1>1. /\ Tail(s) \in Seq(S) /\ Len(Tail(s)) = Len(s) - 1 /\ Len(s) \in Nat \ {0}
      /\ \A i \in 1 .. Len(s) - 1 : Tail(s)[i] = s[i + 1]
  BY TailKeeps
<1>2. 1 \in 1 .. Len(s) /\ \A i \in 1 .. Len(s) - 1 : ~(i < 1)
  BY <1>1
<1>3. /\ RemoveAt(s, 1) \in Seq(S) /\ Len(RemoveAt(s, 1)) = Len(s) - 1
      /\ \A i \in 1 .. Len(s) - 1 : RemoveAt(s, 1)[i] = s[IF i < 1 THEN i ELSE i + 1]
  BY <1>2, RemoveAtProperties
<1>4. Tail(s) = RemoveAt(s, 1)
  BY <1>1, <1>2, <1>3, SeqEqual
<1>5. QED
  BY <1>2, <1>4

-----------------------------------------------------------------------------
(* The types                                                               *)

USE ClientAssumption, CapAssumption
USE DEF MSG_NETWORK_RECEIVE, MSG_NETWORK_CLOSE, MQ!MSG_QUIT, MQ!Idle, MQ!queue, MQ!thread,
        MQ!history, session, accept, idle, mqvars, Crash

Ids == {MSG_NETWORK_RECEIVE, MSG_NETWORK_CLOSE}

LEMMA StartType ==
  ASSUME MQ!MQTypeOK, NEW c \in Conns, MQ!Start(c), MQ!RegisterMessages(c, Ids),
         UNCHANGED <<msg, poster, stopper, posted, taken, handled, freed>>
  PROVE  MQ!MQTypeOK'
<1>1. <<>> \in Seq(Ids) /\ <<>> \in Seq({0})
  OBVIOUS
<1>2. {id \in Ids : MQ!InRange(id)} \subseteq Ids
  OBVIOUS
<1>3. funcs_' \in [Conns -> SUBSET Ids]
  BY <1>2 DEF MQ!MQTypeOK, MQ!RegisterMessages, Ids
<1>4. QED
  BY <1>1, <1>3 DEF MQ!MQTypeOK, MQ!Start, Ids

LEMMA PostMessageType ==
  ASSUME MQ!MQTypeOK, NEW c \in Conns, NEW id \in Ids, MQ!PostMessage(c, id)
  PROVE  MQ!MQTypeOK'
  BY DEF MQ!MQTypeOK, MQ!PostMessage, Ids

LEMMA PostSendType ==
  ASSUME MQ!MQTypeOK, NEW c \in Conns, MQ!PostSend(c)
  PROVE  MQ!MQTypeOK'
<1>1. poster[c] \in Ids /\ low[c] \in Seq(Ids) /\ posted[c] \in Seq(Ids)
  BY DEF MQ!MQTypeOK, MQ!PostSend, Ids
<1>2. Append(low[c], poster[c]) \in Seq(Ids) /\ Append(posted[c], poster[c]) \in Seq(Ids)
  BY <1>1
<1>3. CASE mq_[c]
  <2>1. /\ low' = [low EXCEPT ![c] = Append(low[c], poster[c])]
        /\ posted' = [posted EXCEPT ![c] = Append(posted[c], poster[c])]
        /\ poster' = [poster EXCEPT ![c] = -1]
        /\ UNCHANGED <<mq_, high, thrdmsg_, mpc, msg, funcs_, stopper, taken, handled, freed>>
    BY <1>3 DEF MQ!PostSend
  <2>2. low' \in [Conns -> Seq(Ids)] /\ posted' \in [Conns -> Seq(Ids)]
    BY <1>2, <2>1 DEF MQ!MQTypeOK, Ids
  <2>3. QED
    BY <2>1, <2>2 DEF MQ!MQTypeOK, Ids
<1>4. CASE ~mq_[c]
  BY <1>4 DEF MQ!MQTypeOK, MQ!PostSend, Ids
<1>5. QED
  BY <1>3, <1>4

LEMMA AfterType == \A id : MQ!After(id) \in {"receive", "handle", "done"}
  BY DEF MQ!After

LEMMA ReceiveType ==
  ASSUME MQ!MQTypeOK, NEW c \in Conns, MQ!ReceiveHigh(c) \/ MQ!ReceiveLow(c)
  PROVE  MQ!MQTypeOK'
<1>1. CASE MQ!ReceiveHigh(c)
  <2>1. high[c] \in Seq({0}) /\ high[c] # <<>>
    BY <1>1 DEF MQ!MQTypeOK, MQ!ReceiveHigh
  <2>2. Head(high[c]) = 0 /\ Tail(high[c]) \in Seq({0})
    BY <2>1
  <2>3. QED
    BY <1>1, <2>2, AfterType DEF MQ!MQTypeOK, MQ!ReceiveHigh
<1>2. CASE MQ!ReceiveLow(c)
  <2>1. low[c] \in Seq(Ids) /\ low[c] # <<>> /\ taken[c] \in Seq(Ids)
    BY <1>2 DEF MQ!MQTypeOK, MQ!ReceiveLow, Ids
  <2>2. /\ Head(low[c]) \in Ids /\ Tail(low[c]) \in Seq(Ids)
        /\ Append(taken[c], Head(low[c])) \in Seq(Ids)
    BY <2>1
  <2>3. QED
    BY <1>2, <2>2, AfterType DEF MQ!MQTypeOK, MQ!ReceiveLow, Ids
<1>3. QED
  BY <1>1, <1>2

LEMMA HandlerType ==
  ASSUME MQ!MQTypeOK, NEW c \in Conns, MQ!HandlerReturns(c)
  PROVE  MQ!MQTypeOK'
<1>1. funcs_[c] \subseteq Ids /\ handled[c] \in Seq(Ids)
  BY DEF MQ!MQTypeOK, Ids
<1>2. msg[c] \in funcs_[c] => Append(handled[c], msg[c]) \in Seq(Ids)
  BY <1>1
<1>3. handled' \in [Conns -> Seq(Ids)]
  BY <1>2 DEF MQ!MQTypeOK, MQ!HandlerReturns, Ids
<1>4. QED
  BY <1>3 DEF MQ!MQTypeOK, MQ!HandlerReturns, Ids

LEMMA StopType ==
  ASSUME MQ!MQTypeOK, NEW c \in Conns, MQ!Stop(c)
  PROVE  MQ!MQTypeOK'
<1>1. CASE MQ!StopBegin(c)
  BY <1>1 DEF MQ!MQTypeOK, MQ!StopBegin
<1>2. CASE MQ!StopQuit(c)
  <2>1. Append(high[c], 0) \in Seq({0})
    BY DEF MQ!MQTypeOK
  <2>2. QED
    BY <1>2, <2>1 DEF MQ!MQTypeOK, MQ!StopQuit, MQ!SendMessage
<1>3. CASE MQ!StopJoin(c)
  BY <1>3 DEF MQ!MQTypeOK, MQ!StopJoin
<1>4. CASE MQ!StopReset(c)
  <2>1. <<>> \in Seq(Ids) /\ <<>> \in Seq({0})
    OBVIOUS
  <2>2. QED
    BY <1>4, <2>1 DEF MQ!MQTypeOK, MQ!StopReset, Ids
<1>5. QED
  BY <1>1, <1>2, <1>3, <1>4 DEF MQ!Stop

\* The variables of this module.
ServiceType ==
  /\ peer \in [Conns -> {"away", "up", "down"}] /\ sock \in [Conns -> {"none", "open", "closed"}]
  /\ tcpptr_ \in [Conns -> BOOLEAN]
  /\ iopc \in [Conns -> {"none", "reading", "posting", "closing", "done"}]
  /\ apc \in {"wait", "lock", "couple", "start", "release"}
  /\ aconn \in Conns \cup {NoClient} /\ (apc = "wait" <=> aconn = NoClient)
  /\ mtx \in {"free", "accept", "idle"} /\ filercv_ \in Seq(Conns)
  /\ ipc \in {"sleep", "lock", "scan", "look", "destroy", "ended"}
  /\ it \in Nat \ {0} /\ (ipc \in {"scan", "destroy"} => it <= Len(filercv_) + 1)
  /\ (ipc = "look" => it <= Len(filercv_))
  /\ spc \in {"run", "join", "autofree", "clear", "done"}
  /\ lpc \in {"wait", "set", "couple", "join"} /\ lconn \in Links \cup {NoClient}
  /\ lsock \in [Links -> {"none", "open", "closed"}]
  /\ ldp \in [Links -> {"none", "reading", "decouple", "close", "done"}]
  /\ tcpc_dp_ \in Links \cup {NoClient} /\ writerdp \in Links \cup {NoClient}
  /\ overlap \in BOOLEAN
  /\ crashed \in {"no", "race", "endpoint", "fresh", "freed", "null", "interrupted", "selfjoin"}

LEMMA TypeParts == TypeOK <=> MQ!MQTypeOK /\ ServiceType
  BY DEF TypeOK, ServiceType

LEMMA TypePartsNext == MQ!MQTypeOK' /\ ServiceType' => TypeOK'
  BY DEF TypeOK, ServiceType

-----------------------------------------------------------------------------
(* What the parts of the invariant do not see                              *)

LEMMA QueueFrame == ASSUME MQ!MQTypeOK, UNCHANGED mqvars PROVE MQ!MQTypeOK'
  BY DEF MQ!MQTypeOK

LEMMA LivesFrame ==
  ASSUME Lives, UNCHANGED <<stopper, filercv_, peer, accept, mtx, idle, spc>>
  PROVE  Lives'
  BY DEF Lives, Locked, NoneTwice, Known, StoppedThere, AtIterator, AtFront

LEMMA QuietsFrame ==
  ASSUME Quiets, UNCHANGED <<low, msg, handled, poster, peer, iopc, accept>>
  PROVE  Quiets'
  BY DEF Quiets, Quiet

LEMMA LinkedFrame == ASSUME Linked, UNCHANGED links PROVE Linked'
  BY DEF Linked, OneAtATime, Accepted, AllOver, Serving, Over, links

-----------------------------------------------------------------------------
(* The clients and the accept handler                                      *)

LEMMA HangupKeeps == ASSUME IInv, NEW c \in Conns, Hangup(c) PROVE IInv'
<1>0. MQ!MQTypeOK /\ ServiceType /\ Lives /\ Quiets /\ Linked
  BY TypeParts DEF IInv
<1>1. MQ!MQTypeOK' /\ Linked'
  BY <1>0, QueueFrame, LinkedFrame DEF Hangup
<1>2. ServiceType'
  BY <1>0 DEF ServiceType, Hangup, links
<1>3. Lives'
  BY <1>0 DEF Hangup, ServiceType, Lives, Locked, NoneTwice, Known, StoppedThere, AtIterator, AtFront
<1>4. Quiets'
  BY <1>0 DEF Hangup, ServiceType, Quiets, Quiet
<1>5. QED
  BY <1>1, <1>2, <1>3, <1>4, TypePartsNext DEF IInv

LEMMA AcceptKeeps == ASSUME IInv, NEW c \in Conns, Accept(c) PROVE IInv'
<1>0. MQ!MQTypeOK /\ ServiceType /\ Lives /\ Quiets /\ Linked
  BY TypeParts DEF IInv
<1>1. MQ!MQTypeOK' /\ Linked'
  BY <1>0, QueueFrame, LinkedFrame DEF Accept
<1>2. ServiceType'
  BY <1>0 DEF ServiceType, Accept, links
<1>3. Lives'
  BY <1>0 DEF Accept, ServiceType, Lives, Locked, NoneTwice, Known, StoppedThere, AtIterator, AtFront
<1>4. Quiets'
  BY <1>0 DEF Accept, ServiceType, Quiets, Quiet
<1>5. QED
  BY <1>1, <1>2, <1>3, <1>4, TypePartsNext DEF IInv

LEMMA AcceptLockKeeps == ASSUME IInv, AcceptLock PROVE IInv'
<1>0. MQ!MQTypeOK /\ ServiceType /\ Lives /\ Quiets /\ Linked
  BY TypeParts DEF IInv
<1>1. MQ!MQTypeOK' /\ Linked'
  BY <1>0, QueueFrame, LinkedFrame DEF AcceptLock
<1>2. ServiceType'
  BY <1>0 DEF ServiceType, AcceptLock, links
<1>3. Lives'
  BY <1>0 DEF AcceptLock, ServiceType, Lives, Locked, NoneTwice, Known, StoppedThere, AtIterator, AtFront
<1>4. Quiets'
  BY <1>0 DEF AcceptLock, ServiceType, Quiets, Quiet
<1>5. QED
  BY <1>1, <1>2, <1>3, <1>4, TypePartsNext DEF IInv

\* The receiver is put at the end of filercv_: it was not there, nobody is destroying
\* one behind the lock, and its queue is empty.
LEMMA AcceptCoupleKeeps == ASSUME IInv, AcceptCouple PROVE IInv'
<1>0. MQ!MQTypeOK /\ ServiceType /\ Lives /\ Quiets /\ Linked
  BY TypeParts DEF IInv
<1>1. /\ aconn \in Conns /\ apc = "couple" /\ apc' = "start" /\ mtx' = "free"
      /\ MQ!Start(aconn) /\ MQ!RegisterMessages(aconn, Ids)
      /\ tcpptr_' = [tcpptr_ EXCEPT ![aconn] = TRUE]
      /\ filercv_' = Append(filercv_, aconn)
      /\ crashed' \in {crashed, "race"}
      /\ UNCHANGED <<msg, poster, stopper, posted, taken, handled, freed, peer, sock, iopc,
                     aconn, ipc, it, spc, links>>
  BY <1>0 DEF AcceptCouple, Ids, ServiceType
<1>2. MQ!MQTypeOK' /\ Linked'
  BY <1>0, <1>1, StartType, LinkedFrame
<1>3. /\ filercv_ \in Seq(Conns) /\ filercv_' \in Seq(Conns) /\ Len(filercv_') = Len(filercv_) + 1
      /\ \A i \in 1 .. Len(filercv_) : filercv_'[i] = filercv_[i]
      /\ filercv_'[Len(filercv_) + 1] = aconn
      /\ \A x : Contains(filercv_', x) <=> Contains(filercv_, x) \/ aconn = x
  <2>1. filercv_ \in Seq(Conns)
    BY <1>0 DEF ServiceType
  <2>2. \A x : Contains(Append(filercv_, aconn), x) <=> Contains(filercv_, x) \/ aconn = x
    BY <1>1, <2>1, ContainsAppend
  <2>3. QED
    BY <1>1, <2>1, <2>2
<1>4. ServiceType'
  BY <1>0, <1>1, <1>3 DEF ServiceType, links
<1>5. mtx = "accept" /\ ipc \notin {"scan", "look", "destroy"}
  BY <1>0, <1>1 DEF Lives, Locked
<1>6. Locked'
  BY <1>0, <1>1, <1>5 DEF Lives, Locked
<1>7. NoneTwice'
  <2>1. ~Contains(filercv_, aconn) /\ NoneTwice
    BY <1>0, <1>1 DEF Lives, Known
  <2>2. \A i \in 1 .. Len(filercv_) : filercv_[i] # aconn
    BY <2>1 DEF Contains
  <2>3. 1 .. Len(filercv_') = 1 .. Len(filercv_) \cup {Len(filercv_) + 1}
    BY <1>3
  <2>4. QED
    BY <1>3, <2>1, <2>2, <2>3 DEF NoneTwice
<1>8. ASSUME NEW c \in Conns PROVE (Known(c) /\ StoppedThere(c))'
  <2>1. Known(c) /\ StoppedThere(c) /\ stopper[aconn] = "none" /\ peer[aconn] # "away"
    BY <1>0, <1>1 DEF Lives, Known
  <2>2. Known(c)'
    BY <1>1, <1>3, <2>1 DEF Known
  <2>3. AtFront(c) => AtFront(c)'
    <3>1. filercv_ # <<>> => 1 \in 1 .. Len(filercv_)
      BY <1>3
    <3>2. filercv_' # <<>>
      BY <1>3
    <3>3. QED
      BY <1>1, <1>3, <3>1, <3>2 DEF AtFront
  <2>4. ~AtIterator(c)
    BY <1>5 DEF AtIterator
  <2>5. StoppedThere(c)'
    BY <1>1, <1>3, <2>1, <2>3, <2>4 DEF StoppedThere
  <2>6. QED
    BY <2>2, <2>5
<1>9. Quiets'
  <2>1. ASSUME NEW c \in Conns, c # aconn PROVE low'[c] = low[c]
    BY <1>0, <1>1, <2>1 DEF MQ!Start, MQ!MQTypeOK
  <2>2. low'[aconn] = <<>>
    BY <1>0, <1>1 DEF MQ!Start, MQ!MQTypeOK
  <2>3. \A c \in Conns : Contains(low'[c], 129) => Contains(low[c], 129)
    BY <2>1, <2>2, ContainsNone
  <2>4. QED
    BY <1>0, <1>1, <2>3 DEF Quiets, Quiet
<1>10. QED
  BY <1>2, <1>4, <1>6, <1>7, <1>8, <1>9, TypePartsNext DEF IInv, Lives

\* The other steps of the accept handler leave filercv_ and the queues alone.
LEMMA AcceptOtherKeeps ==
  ASSUME IInv, AcceptCoupleFails \/ AcceptCoupleThrows \/ AcceptStart \/ AcceptClose \/ AcceptRelease
  PROVE  IInv'
<1>0. MQ!MQTypeOK /\ ServiceType /\ Lives /\ Quiets /\ Linked
  BY TypeParts DEF IInv
<1>1. MQ!MQTypeOK' /\ Linked'
  BY <1>0, QueueFrame, LinkedFrame
     DEF AcceptCoupleFails, AcceptCoupleThrows, AcceptStart, AcceptClose, AcceptRelease
<1>2. ServiceType'
  BY <1>0 DEF ServiceType, links,
     AcceptCoupleFails, AcceptCoupleThrows, AcceptStart, AcceptClose, AcceptRelease
<1>3. Lives'
  BY <1>0 DEF ServiceType, Lives, Locked, NoneTwice, Known, StoppedThere, AtIterator, AtFront,
     AcceptCoupleFails, AcceptCoupleThrows, AcceptStart, AcceptClose, AcceptRelease
<1>4. Quiets'
  BY <1>0 DEF ServiceType, Quiets, Quiet,
     Lives, Known,
     AcceptCoupleFails, AcceptCoupleThrows, AcceptStart, AcceptClose, AcceptRelease
<1>5. QED
  BY <1>1, <1>2, <1>3, <1>4, TypePartsNext DEF IInv

-----------------------------------------------------------------------------
(* The threads of a receiver                                               *)

\* The io thread posts NETWORK_CLOSE as the last of its messages.
LEMMA IoKeeps == ASSUME IInv, NEW c \in Conns, Io(c) PROVE IInv'
<1>0. MQ!MQTypeOK /\ ServiceType /\ Lives /\ Quiets /\ Linked
  BY TypeParts DEF IInv
<1>1. CASE IoIntoGone(c)
  <2>1. MQ!MQTypeOK' /\ Linked' /\ Lives' /\ Quiets'
    BY <1>0, <1>1, QueueFrame, LinkedFrame, LivesFrame, QuietsFrame DEF IoIntoGone
  <2>2. ServiceType'
    BY <1>0, <1>1 DEF ServiceType, IoIntoGone, links
  <2>3. QED
    BY <2>1, <2>2, TypePartsNext DEF IInv
<1>2. CASE IoReceive(c) \/ IoError(c)
  <2>1. PICK id \in Ids :
          /\ MQ!PostMessage(c, id) /\ iopc[c] = "reading"
          /\ iopc' = [iopc EXCEPT ![c] = IF id = 129 THEN "closing" ELSE "posting"]
          /\ UNCHANGED <<peer, sock, tcpptr_, accept, mtx, filercv_, idle, spc, links, crashed>>
    BY <1>2 DEF IoReceive, IoError, Ids
  <2>2. MQ!MQTypeOK'
    BY <1>0, <2>1, PostMessageType
  <2>3. Linked'
    BY <1>0, <2>1, LinkedFrame
  <2>4. Lives'
    BY <1>0, <2>1, LivesFrame DEF MQ!PostMessage
  <2>5. ServiceType'
    BY <1>0, <2>1 DEF ServiceType, links
  <2>6. Quiets'
    BY <1>0, <2>1 DEF Quiets, Quiet, ServiceType, MQ!PostMessage, MQ!MQTypeOK, Ids
  <2>7. QED
    BY <2>2, <2>3, <2>4, <2>5, <2>6, TypePartsNext DEF IInv
<1>3. CASE IoStopped(c)
  <2>1. MQ!MQTypeOK' /\ Linked' /\ Lives'
    BY <1>0, <1>3, QueueFrame, LinkedFrame, LivesFrame DEF IoStopped
  <2>2. ServiceType'
    BY <1>0, <1>3 DEF ServiceType, IoStopped, links
  <2>3. Quiets'
    BY <1>0, <1>3 DEF Quiets, Quiet, ServiceType, IoStopped
  <2>4. QED
    BY <2>1, <2>2, <2>3, TypePartsNext DEF IInv
<1>4. CASE IoPosted(c)
  <2>1. /\ iopc[c] \in {"posting", "closing"}
        /\ iopc' \in {[iopc EXCEPT ![c] = "done"], [iopc EXCEPT ![c] = "reading"]}
        /\ iopc[c] = "closing" => iopc'[c] = "done"
        /\ crashed' \in {crashed, "freed"}
        /\ UNCHANGED <<peer, sock, tcpptr_, accept, mtx, filercv_, idle, spc, links>>
    BY <1>0, <1>4 DEF IoPosted, ServiceType
  <2>2. MQ!MQTypeOK'
    <3>1. CASE poster[c] = -1
      BY <1>0, <1>4, <3>1, QueueFrame DEF IoPosted
    <3>2. CASE poster[c] # -1
      BY <1>0, <1>4, <3>2, PostSendType DEF IoPosted
    <3>3. QED
      BY <3>1, <3>2
  <2>3. Linked'
    BY <1>0, <2>1, LinkedFrame
  <2>4. stopper' = stopper /\ msg' = msg /\ handled' = handled
    BY <1>4 DEF IoPosted, MQ!PostSend
  <2>5. Lives'
    BY <1>0, <2>1, <2>4, LivesFrame
  <2>6. ServiceType'
    BY <1>0, <2>1 DEF ServiceType, links
  <2>7. poster'[c] = -1 /\ \A d \in Conns \ {c} : poster'[d] = poster[d] /\ low'[d] = low[d]
    BY <1>0, <1>4 DEF IoPosted, MQ!PostSend, MQ!MQTypeOK
  <2>8. Contains(low'[c], 129) => Contains(low[c], 129) \/ poster[c] = 129
    <3>1. CASE low' = low
      BY <3>1
    <3>2. CASE low' # low
      <4>1. poster[c] \in Ids /\ low[c] \in Seq(Ids) /\ low'[c] = Append(low[c], poster[c])
        BY <1>0, <1>4, <3>2 DEF IoPosted, MQ!PostSend, MQ!MQTypeOK, Ids
      <4>2. QED
        BY <4>1, ContainsAppend
    <3>3. QED
      BY <3>1, <3>2
  <2>9. Quiet(c)'
    BY <1>0, <2>1, <2>4, <2>7, <2>8 DEF Quiets, Quiet, ServiceType
  <2>10. ASSUME NEW d \in Conns \ {c} PROVE Quiet(d)'
    BY <1>0, <2>1, <2>4, <2>7 DEF Quiets, Quiet, ServiceType
  <2>11. Quiets'
    BY <2>9, <2>10 DEF Quiets
  <2>12. QED
    BY <2>2, <2>3, <2>5, <2>6, <2>11, TypePartsNext DEF IInv
<1>5. QED
  BY <1>1, <1>2, <1>3, <1>4 DEF Io, IoEnds

\* What the message thread takes from the queue was in it, and what it handles it has
\* taken: NETWORK_CLOSE when the io thread has done its work.
LEMMA MsgKeeps == ASSUME IInv, NEW c \in Conns, Msg(c) PROVE IInv'
<1>0. MQ!MQTypeOK /\ ServiceType /\ Lives /\ Quiets /\ Linked
  BY TypeParts DEF IInv
<1>1. CASE MsgReceive(c)
  <2>1. /\ MQ!ReceiveHigh(c) \/ MQ!ReceiveLow(c)
        /\ UNCHANGED <<session, accept, mtx, filercv_, idle, spc, links, crashed>>
    BY <1>1 DEF MsgReceive
  <2>2. UNCHANGED <<stopper, poster, handled>>
    BY <2>1 DEF MQ!ReceiveHigh, MQ!ReceiveLow
  <2>3. MQ!MQTypeOK' /\ Linked' /\ Lives'
    BY <1>0, <2>1, <2>2, ReceiveType, LinkedFrame, LivesFrame
  <2>4. ServiceType'
    BY <1>0, <2>1 DEF ServiceType, links
  <2>5. \A d \in Conns \ {c} : msg'[d] = msg[d] /\ low'[d] = low[d]
    BY <1>0, <2>1 DEF MQ!ReceiveHigh, MQ!ReceiveLow, MQ!MQTypeOK
  <2>6. /\ Contains(low'[c], 129) => Contains(low[c], 129)
        /\ msg'[c] = 129 => Contains(low[c], 129)
    <3>1. CASE MQ!ReceiveHigh(c)
      <4>1. high[c] \in Seq({0}) /\ high[c] # <<>> /\ low' = low /\ msg'[c] = Head(high[c])
        BY <1>0, <3>1 DEF MQ!MQTypeOK, MQ!ReceiveHigh
      <4>2. Head(high[c]) = 0
        BY <4>1
      <4>3. QED
        BY <4>1, <4>2
    <3>2. CASE MQ!ReceiveLow(c)
      <4>1. /\ low[c] \in Seq(Ids) /\ low[c] # <<>>
            /\ low'[c] = Tail(low[c]) /\ msg'[c] = Head(low[c])
        BY <1>0, <3>2 DEF MQ!MQTypeOK, MQ!ReceiveLow, Ids
      <4>2. Contains(low[c], Head(low[c])) /\ (Contains(Tail(low[c]), 129) => Contains(low[c], 129))
        BY <4>1, ContainsTail
      <4>3. QED
        BY <4>1, <4>2
    <3>3. QED
      BY <2>1, <3>1, <3>2
  <2>7. Quiets'
    BY <1>0, <2>1, <2>2, <2>5, <2>6 DEF Quiets, Quiet, ServiceType
  <2>8. QED
    BY <2>3, <2>4, <2>7, TypePartsNext DEF IInv
<1>2. CASE MsgNetworkReceive(c) \/ MsgNetworkClose(c)
  <2>1. /\ MQ!HandlerReturns(c)
        /\ tcpptr_' \in {tcpptr_, [tcpptr_ EXCEPT ![c] = FALSE]}
        /\ sock' \in {sock, [sock EXCEPT ![c] = "closed"]}
        /\ UNCHANGED <<peer, iopc, accept, mtx, filercv_, idle, spc, links, crashed>>
    BY <1>2 DEF MsgNetworkReceive, MsgNetworkClose
  <2>2. UNCHANGED <<stopper, poster, msg, low>>
    BY <2>1 DEF MQ!HandlerReturns
  <2>3. MQ!MQTypeOK' /\ Linked' /\ Lives'
    BY <1>0, <2>1, <2>2, HandlerType, LinkedFrame, LivesFrame
  <2>4. ServiceType'
    <3>1. tcpptr_' \in [Conns -> BOOLEAN]
      BY <1>0, <2>1 DEF ServiceType
    <3>2. sock' \in [Conns -> {"none", "open", "closed"}]
      BY <1>0, <2>1 DEF ServiceType
    <3>3. QED
      BY <1>0, <2>1, <3>1, <3>2 DEF ServiceType, links
  <2>5. \A d \in Conns \ {c} : handled'[d] = handled[d]
    BY <1>0, <2>1 DEF MQ!HandlerReturns, MQ!MQTypeOK
  <2>6. Contains(handled'[c], 129) => Contains(handled[c], 129) \/ msg[c] = 129
    <3>1. CASE handled' = handled
      BY <3>1
    <3>2. CASE handled' # handled
      <4>1. handled[c] \in Seq(Ids) /\ msg[c] \in Ids /\ handled'[c] = Append(handled[c], msg[c])
        BY <1>0, <2>1, <3>2 DEF MQ!HandlerReturns, MQ!MQTypeOK, Ids
      <4>2. QED
        BY <4>1, ContainsAppend
    <3>3. QED
      BY <3>1, <3>2
  <2>7. Quiets'
    BY <1>0, <2>1, <2>2, <2>5, <2>6 DEF Quiets, Quiet, ServiceType
  <2>8. QED
    BY <2>3, <2>4, <2>7, TypePartsNext DEF IInv
<1>3. QED
  BY <1>1, <1>2 DEF Msg

-----------------------------------------------------------------------------
(* Destroying a receiver                                                   *)

\* Stop of the receiver that thread_idle or clear is at.
LEMMA StopKeeps ==
  ASSUME IInv, NEW c \in Conns, Contains(filercv_, c), AtIterator(c) \/ AtFront(c), DestroyStop(c)
  PROVE  IInv'
<1>0. MQ!MQTypeOK /\ ServiceType /\ Lives /\ Quiets /\ Linked
  BY TypeParts DEF IInv
<1>1. /\ MQ!Stop(c)
      /\ UNCHANGED <<session, accept, mtx, filercv_, idle, spc, links, crashed>>
  BY DEF DestroyStop
<1>2. /\ UNCHANGED <<msg, poster, handled>>
      /\ \A d \in Conns \ {c} : stopper'[d] = stopper[d]
  BY <1>0, <1>1 DEF MQ!Stop, MQ!StopBegin, MQ!StopQuit, MQ!StopJoin, MQ!StopReset, MQ!SendMessage,
     MQ!MQTypeOK
<1>3. \A d \in Conns : low'[d] \in {low[d], <<>>}
  BY <1>0, <1>1 DEF MQ!Stop, MQ!StopBegin, MQ!StopQuit, MQ!StopJoin, MQ!StopReset, MQ!SendMessage,
     MQ!MQTypeOK
<1>4. MQ!MQTypeOK' /\ Linked'
  BY <1>0, <1>1, StopType, LinkedFrame
<1>5. ServiceType'
  BY <1>0, <1>1 DEF ServiceType, links
<1>6. Locked' /\ NoneTwice'
  BY <1>0, <1>1 DEF Lives, Locked, NoneTwice
<1>7. ASSUME NEW d \in Conns PROVE (Known(d) /\ StoppedThere(d))'
  <2>1. Known(d) /\ StoppedThere(d)
    BY <1>0 DEF Lives
  <2>2. Contains(filercv_, d)' <=> Contains(filercv_, d)
    BY <1>1
  <2>3. (AtIterator(d)' <=> AtIterator(d)) /\ (AtFront(d)' <=> AtFront(d))
    BY <1>1 DEF AtIterator, AtFront
  <2>4. CASE d # c
    BY <1>1, <1>2, <2>1, <2>2, <2>3, <2>4 DEF Known, StoppedThere
  <2>5. CASE d = c
    <3>1. peer[c] # "away"
      BY <2>1, <2>5 DEF Known
    <3>2. ~(aconn = c /\ apc \in {"lock", "couple"})
      BY <2>1, <2>5 DEF Known
    <3>3. QED
      BY <1>1, <2>2, <2>3, <2>5, <3>1, <3>2 DEF Known, StoppedThere
  <2>6. QED
    BY <2>4, <2>5
<1>8. \A d \in Conns : Contains(low'[d], 129) => Contains(low[d], 129)
  BY <1>3, ContainsNone
<1>9. Quiets'
  BY <1>0, <1>1, <1>2, <1>8 DEF Quiets, Quiet
<1>10. QED
  BY <1>4, <1>5, <1>6, <1>7, <1>9, TypePartsNext DEF IInv, Lives

\* A join in its destructor is interrupted, which ends the process.
LEMMA InterruptedKeeps == ASSUME IInv, NEW c \in Conns, DestroyInterrupted(c) PROVE IInv'
<1>0. MQ!MQTypeOK /\ ServiceType /\ Lives /\ Quiets /\ Linked
  BY TypeParts DEF IInv
<1>1. MQ!MQTypeOK' /\ Linked' /\ Lives' /\ Quiets'
  BY <1>0, QueueFrame, LinkedFrame, LivesFrame, QuietsFrame DEF DestroyInterrupted
<1>2. ServiceType'
  BY <1>0 DEF ServiceType, DestroyInterrupted, links
<1>3. QED
  BY <1>1, <1>2, TypePartsNext DEF IInv

\* Its client is closed.
LEMMA CloseKeeps == ASSUME IInv, NEW c \in Conns, DestroyClose(c) PROVE IInv'
<1>0. MQ!MQTypeOK /\ ServiceType /\ Lives /\ Quiets /\ Linked
  BY TypeParts DEF IInv
<1>1. MQ!MQTypeOK' /\ Linked' /\ Lives' /\ Quiets'
  BY <1>0, QueueFrame, LinkedFrame, LivesFrame, QuietsFrame DEF DestroyClose
<1>2. ServiceType'
  BY <1>0 DEF ServiceType, DestroyClose, links
<1>3. QED
  BY <1>1, <1>2, TypePartsNext DEF IInv

\* It leaves filercv_ at the place where it was stopped.
LEMMA RemovedKeeps ==
  ASSUME IInv, NEW k \in 1 .. Len(filercv_),
         DestroyJoined(filercv_[k]), filercv_' = RemoveAt(filercv_, k),
         \/ ipc = "destroy" /\ it = k /\ ipc' = "scan" /\ spc # "clear"
         \/ spc = "clear" /\ k = 1 /\ ipc' = ipc /\ ipc = "ended",
         UNCHANGED <<accept, mtx, it, spc, links, crashed>>
  PROVE  IInv'
<1>0. MQ!MQTypeOK /\ ServiceType /\ Lives /\ Quiets /\ Linked
  BY TypeParts DEF IInv
<1> DEFINE c == filercv_[k]
<1>1. /\ filercv_ \in Seq(Conns) /\ c \in Conns /\ stopper[c] = "stopped"
      /\ UNCHANGED <<mqvars, peer, sock, iopc>>
      /\ tcpptr_' = [tcpptr_ EXCEPT ![c] = FALSE]
  BY <1>0 DEF ServiceType, DestroyJoined
<1>2. NoneTwice
  BY <1>0 DEF Lives
<1>3. /\ filercv_' \in Seq(Conns) /\ Len(filercv_') = Len(filercv_) - 1
      /\ Len(filercv_) \in Nat /\ k \in Nat /\ 1 <= k /\ k <= Len(filercv_)
  BY <1>1, RemoveAtProperties
<1>4. NoneTwice' /\ \A x : Contains(filercv_', x) <=> Contains(filercv_, x) /\ x # c
  <2>1. \A i, j \in 1 .. Len(filercv_) : filercv_[i] = filercv_[j] => i = j
    BY <1>2 DEF NoneTwice
  <2>2. /\ \A i, j \in 1 .. Len(RemoveAt(filercv_, k)) :
             RemoveAt(filercv_, k)[i] = RemoveAt(filercv_, k)[j] => i = j
        /\ \A x : Contains(RemoveAt(filercv_, k), x) <=> Contains(filercv_, x) /\ x # filercv_[k]
    BY <1>1, <2>1, RemoveAtOnce
  <2>3. QED
    BY <2>2 DEF NoneTwice
<1>5. MQ!MQTypeOK' /\ Linked' /\ Quiets'
  BY <1>0, <1>1, QueueFrame, LinkedFrame, QuietsFrame
<1>6. ServiceType'
  <2>1. tcpptr_' \in [Conns -> BOOLEAN]
    BY <1>0, <1>1 DEF ServiceType
  <2>2. ipc' \in {"scan", "destroy"} => it' <= Len(filercv_') + 1
    BY <1>0, <1>3 DEF ServiceType
  <2>3. QED
    BY <1>0, <1>1, <1>3, <2>1, <2>2 DEF ServiceType, links
<1>7. Locked'
  BY <1>0 DEF Lives, Locked
<1>8. ASSUME NEW d \in Conns PROVE (Known(d) /\ StoppedThere(d))'
  <2>1. Known(d) /\ StoppedThere(d)
    BY <1>0 DEF Lives
  <2>2. Known(d)'
    BY <1>1, <1>4, <2>1 DEF Known
  <2>3. c = filercv_[k] /\ (AtIterator(d) \/ AtFront(d) => d = c)
    BY <1>0 DEF AtIterator, AtFront, Lives, Locked
  <2>4. StoppedThere(d)'
    BY <1>1, <1>4, <2>1, <2>3 DEF StoppedThere
  <2>5. QED
    BY <2>2, <2>4
<1>9. QED
  BY <1>4, <1>5, <1>6, <1>7, <1>8, TypePartsNext DEF IInv, Lives

-----------------------------------------------------------------------------
(* thread_idle and StopService                                             *)

LEMMA IdleKeeps == ASSUME IInv, IdleWake \/ Idle PROVE IInv'
<1>0. MQ!MQTypeOK /\ ServiceType /\ Lives /\ Quiets /\ Linked
  BY TypeParts DEF IInv
<1>1. CASE IdleWake \/ IdleLock \/ IdleUnique \/ IdleOpen \/ IdleIntoNull \/ IdleUnlock \/ IdleEnds
  <2>1. MQ!MQTypeOK' /\ Linked' /\ Quiets'
    BY <1>0, <1>1, QueueFrame, LinkedFrame, QuietsFrame
       DEF IdleWake, IdleLock, IdleUnique, IdleOpen, IdleIntoNull, IdleUnlock, IdleEnds
  <2>2. ServiceType'
    BY <1>0, <1>1 DEF ServiceType, links, IdleWake, IdleLock, IdleUnique, IdleOpen, IdleIntoNull, IdleUnlock, IdleEnds
  <2>3. Lives'
    BY <1>0, <1>1 DEF ServiceType, Lives, Locked, NoneTwice, Known, StoppedThere, AtIterator, AtFront,
       IdleWake, IdleLock, IdleUnique, IdleOpen, IdleIntoNull, IdleUnlock, IdleEnds, Interrupted
  <2>4. QED
    BY <2>1, <2>2, <2>3, TypePartsNext DEF IInv
<1>2. CASE IdleErased
  <2>1. PICK c \in Conns : Erasing(c) /\ DestroyJoined(c)
    BY <1>2 DEF IdleErased
  <2>2. /\ ipc = "destroy" /\ it \in 1 .. Len(filercv_) /\ filercv_[it] = c
        /\ filercv_' = RemoveAt(filercv_, it) /\ ipc' = "scan" /\ spc # "clear"
        /\ UNCHANGED <<accept, mtx, it, spc, links, crashed>>
    BY <1>0, <1>2, <2>1 DEF IdleErased, Erasing, ServiceType, Lives, Locked
  <2>3. QED
    BY <2>1, <2>2, RemovedKeeps
<1>3. ASSUME NEW c \in Conns, Erasing(c), DestroyStop(c) PROVE IInv'
  <2>1. AtIterator(c)
    BY <1>3 DEF Erasing, AtIterator
  <2>2. Contains(filercv_, c)
    BY <1>0, <1>3 DEF Erasing, ServiceType, Contains
  <2>3. QED
    BY <1>3, <2>1, <2>2, StopKeeps
<1>4. ASSUME NEW c \in Conns, DestroyClose(c) PROVE IInv'
  BY <1>4, CloseKeeps
<1>5. ASSUME NEW c \in Conns, DestroyInterrupted(c) PROVE IInv'
  BY <1>5, InterruptedKeeps
<1>6. QED
  BY <1>1, <1>2, <1>3, <1>4, <1>5 DEF Idle

LEMMA StoppingKeeps == ASSUME IInv, StopService \/ Stopping PROVE IInv'
<1>0. MQ!MQTypeOK /\ ServiceType /\ Lives /\ Quiets /\ Linked
  BY TypeParts DEF IInv
<1>1. CASE StopService \/ StopJoined \/ StopAutoFreed \/ StopDone
  <2>1. MQ!MQTypeOK' /\ Linked' /\ Quiets'
    BY <1>0, <1>1, QueueFrame, LinkedFrame, QuietsFrame DEF StopService, StopJoined, StopAutoFreed, StopDone
  <2>2. ServiceType'
    BY <1>0, <1>1 DEF ServiceType, links, StopService, StopJoined, StopAutoFreed, StopDone
  <2>3. Lives'
    BY <1>0, <1>1 DEF ServiceType, Lives, Locked, NoneTwice, Known, StoppedThere, AtIterator, AtFront,
       StopService, StopJoined, StopAutoFreed, StopDone
  <2>4. QED
    BY <2>1, <2>2, <2>3, TypePartsNext DEF IInv
<1>2. ASSUME spc = "clear", filercv_ # <<>>
      PROVE  1 \in 1 .. Len(filercv_) /\ filercv_[1] \in Conns /\ Contains(filercv_, filercv_[1])
  <2>1. filercv_ \in Seq(Conns)
    BY <1>0 DEF ServiceType
  <2>2. 1 \in 1 .. Len(filercv_)
    BY <1>2, <2>1, TailRemoves
  <2>3. QED
    BY <2>1, <2>2 DEF Contains
<1>3. CASE StopCleared
  <2>1. /\ spc = "clear" /\ filercv_ # <<>> /\ DestroyJoined(filercv_[1])
        /\ filercv_' = Tail(filercv_) /\ UNCHANGED <<accept, mtx, idle, spc, links, crashed>>
    BY <1>3 DEF StopCleared
  <2>2. Tail(filercv_) = RemoveAt(filercv_, 1)
    BY <1>0, <2>1, TailRemoves DEF ServiceType
  <2>3. ipc = "ended"
    BY <1>0, <2>1 DEF Lives, Locked
  <2>4. 1 \in 1 .. Len(filercv_)
    BY <1>2, <2>1
  <2>5. QED
    BY <2>1, <2>2, <2>3, <2>4, RemovedKeeps
<1>4. ASSUME spc = "clear", filercv_ # <<>>, DestroyStop(filercv_[1]) PROVE IInv'
  <2>1. AtFront(filercv_[1])
    BY <1>4 DEF AtFront
  <2>2. QED
    BY <1>2, <1>4, <2>1, StopKeeps
<1>5. ASSUME spc = "clear", filercv_ # <<>>, DestroyClose(filercv_[1]) PROVE IInv'
  BY <1>2, <1>5, CloseKeeps
<1>6. QED
  BY <1>1, <1>3, <1>4, <1>5 DEF Stopping

-----------------------------------------------------------------------------
(* The link to the data-process                                            *)

\* Its steps see nothing of the receivers.
LEMMA LinkTypes ==
  ASSUME MQ!MQTypeOK, ServiceType, Lives, Quiets,
         UNCHANGED <<mqvars, session, accept, mtx, filercv_, idle, spc>>,
         crashed' \in {crashed, "selfjoin"},
         lpc' \in {"wait", "set", "couple", "join"}, lconn' \in Links \cup {NoClient},
         lsock' \in [Links -> {"none", "open", "closed"}],
         ldp' \in [Links -> {"none", "reading", "decouple", "close", "done"}],
         tcpc_dp_' \in Links \cup {NoClient}, writerdp' \in Links \cup {NoClient},
         overlap' \in BOOLEAN
  PROVE  TypeOK' /\ Lives' /\ Quiets'
<1>1. MQ!MQTypeOK' /\ Lives' /\ Quiets'
  BY QueueFrame, LivesFrame, QuietsFrame
<1>2. ServiceType'
  BY DEF ServiceType
<1>3. QED
  BY <1>1, <1>2, TypePartsNext

\* The accept handler: the pointers of the link before are replaced; it has ended, if
\* they do not overlap.
LEMMA LinkAcceptKeeps == ASSUME IInv, NEW l \in Links, LinkAccept(l) PROVE IInv'
<1>0. MQ!MQTypeOK /\ ServiceType /\ Lives /\ Quiets /\ OneAtATime /\ Accepted
  BY TypeParts DEF IInv, Linked
<1>1. TypeOK' /\ Lives' /\ Quiets'
  BY <1>0, LinkTypes DEF LinkAccept, ServiceType
<1>2. Accepted'
  BY <1>0 DEF LinkAccept, ServiceType, Accepted
<1>3. OneAtATime'
  BY <1>0 DEF LinkAccept, ServiceType, Accepted, OneAtATime, AllOver, Over, Serving
<1>4. QED
  BY <1>1, <1>2, <1>3 DEF IInv, Linked

LEMMA LinkHandlerKeeps == ASSUME IInv, LinkHandler PROVE IInv'
<1>0. MQ!MQTypeOK /\ ServiceType /\ Lives /\ Quiets /\ OneAtATime /\ Accepted
  BY TypeParts DEF IInv, Linked
<1>1. lpc # "wait" /\ lconn \in Links
  BY <1>0 DEF LinkHandler, LinkSet, LinkCouple, LinkStart, ServiceType, Accepted
<1>2. lsock' \in [Links -> {"none", "open", "closed"}]
  BY <1>0 DEF LinkHandler, LinkSet, LinkCouple, LinkStart, ServiceType, Closed
<1>3. TypeOK' /\ Lives' /\ Quiets'
  BY <1>0, <1>1, <1>2, LinkTypes DEF LinkHandler, LinkSet, LinkCouple, LinkStart, ServiceType
<1>4. CASE LinkSet
  <2>1. /\ lpc = "set" /\ lpc' = "couple" /\ tcpc_dp_' = lconn
        /\ UNCHANGED <<lconn, ldp, writerdp, overlap>>
    BY <1>4 DEF LinkSet
  <2>2. ~overlap => AllOver /\ lsock[lconn] = "open" /\ writerdp = NoClient /\ tcpc_dp_ # lconn
    BY <1>0, <2>1 DEF OneAtATime
  <2>3. AllOver' <=> AllOver
    BY <2>1 DEF AllOver, Over
  <2>4. \A l \in Links : lsock'[l] \in {lsock[l], "closed"} /\ (l # tcpc_dp_ => lsock'[l] = lsock[l])
    BY <1>0, <1>4 DEF LinkSet, Closed, ServiceType
  <2>5. OneAtATime'
    BY <1>1, <2>1, <2>2, <2>3, <2>4 DEF OneAtATime
  <2>6. Accepted'
    <3>1. lsock[lconn] # "none"
      BY <1>0, <2>1 DEF Accepted
    <3>2. QED
      BY <1>1, <2>1, <2>4, <3>1 DEF Accepted
  <2>7. QED
    BY <1>3, <2>5, <2>6 DEF IInv, Linked
<1>5. CASE LinkCouple
  BY <1>0, <1>1, <1>3, <1>5
     DEF IInv, Linked, LinkCouple, ServiceType, Accepted, OneAtATime, AllOver, Over, Serving, Orphan, Closed
<1>6. CASE LinkStart
  <2>1. Accepted'
    BY <1>0, <1>1, <1>6 DEF LinkStart, ServiceType, Accepted
  <2>2. PICK l \in Links : l = lconn
    BY <1>1
  <2>3. /\ lpc = "join" /\ lpc' = "wait" /\ ldp' = [ldp EXCEPT ![l] = "reading"]
        /\ UNCHANGED <<lsock, tcpc_dp_, writerdp, overlap>>
    BY <1>6, <2>2 DEF LinkStart
  <2>4. ~overlap => Serving(l)'
    BY <1>0, <2>2, <2>3 DEF ServiceType, OneAtATime, AllOver, Over, Serving
  <2>5. OneAtATime'
    BY <2>3, <2>4 DEF OneAtATime
  <2>6. QED
    BY <1>3, <2>1, <2>5 DEF IInv, Linked
<1>7. QED
  BY <1>4, <1>5, <1>6 DEF LinkHandler

\* The io thread of a link: it is the one that is served, and takes itself from the
\* writer before it closes.
LEMMA LinkIoKeeps == ASSUME IInv, NEW l \in Links, LinkIo(l) PROVE IInv'
<1>0. MQ!MQTypeOK /\ ServiceType /\ Lives /\ Quiets /\ OneAtATime /\ Accepted
  BY TypeParts DEF IInv, Linked
<1>1. /\ lsock' \in [Links -> {"none", "open", "closed"}]
      /\ ldp' \in [Links -> {"none", "reading", "decouple", "close", "done"}]
  BY <1>0 DEF LinkIo, LinkError, LinkDecouple, LinkClose, ServiceType, Closed
<1>2. TypeOK' /\ Lives' /\ Quiets'
  BY <1>0, <1>1, LinkTypes DEF LinkIo, LinkError, LinkDecouple, LinkClose, ServiceType
<1>3. Accepted'
  BY <1>0 DEF LinkIo, LinkError, LinkDecouple, LinkClose, ServiceType, Accepted, Closed, Orphan
<1>4. lpc' = lpc /\ lconn' = lconn /\ tcpc_dp_' = tcpc_dp_ /\ overlap' = overlap /\ ~Over(l)
  BY DEF LinkIo, LinkError, LinkDecouple, LinkClose, Over
<1>5. ASSUME ~overlap PROVE lpc = "wait" /\ Serving(l)
  BY <1>0, <1>4, <1>5 DEF OneAtATime, AllOver, Serving, ServiceType
<1>6. ASSUME ~overlap PROVE (AllOver' /\ writerdp' = NoClient) \/ Serving(l)'
  BY <1>0, <1>5, <1>6 DEF LinkIo, LinkError, LinkDecouple, LinkClose, ServiceType, Closed, Orphan,
     AllOver, Over, Serving
<1>7. OneAtATime'
  BY <1>4, <1>5, <1>6 DEF OneAtATime
<1>8. QED
  BY <1>2, <1>3, <1>7 DEF IInv, Linked

-----------------------------------------------------------------------------
(* The results                                                             *)

LEMMA InitIInv == Init => IInv
<1> SUFFICES ASSUME Init PROVE IInv
  OBVIOUS
<1>1. \A S : <<>> \in Seq(S)
  OBVIOUS
<1>2. MQ!MQTypeOK
  BY <1>1 DEF Init, MQ!Init, MQ!MQTypeOK
<1>3. ServiceType
  <2>1. filercv_ \in Seq(Conns)
    BY <1>1 DEF Init
  <2>2. it \in Nat \ {0} /\ ipc = "sleep"
    BY DEF Init
  <2>3. QED
    BY <2>1, <2>2 DEF Init, ServiceType
<1>4. Len(filercv_) = 0 /\ 1 .. 0 = {} /\ filercv_ = <<>>
  BY DEF Init
<1>5. Lives
  BY <1>4, ContainsNone
     DEF Init, MQ!Init, Lives, Locked, NoneTwice, Known, StoppedThere, AtIterator, AtFront
<1>6. Quiets
  BY ContainsNone DEF Init, MQ!Init, Quiets, Quiet
<1>7. Linked
  BY DEF Init, Linked, OneAtATime, Accepted, AllOver, Over
<1>8. QED
  BY <1>2, <1>3, <1>5, <1>6, <1>7, TypeParts DEF IInv

LEMMA NextIInv == IInv /\ [Next]_vars => IInv'
<1> SUFFICES ASSUME IInv, [Next]_vars PROVE IInv'
  OBVIOUS
<1>1. CASE Next
  BY <1>1, HangupKeeps, AcceptKeeps, AcceptLockKeeps, AcceptCoupleKeeps, AcceptOtherKeeps, IoKeeps,
     MsgKeeps, IdleKeeps, StoppingKeeps, LinkAcceptKeeps, LinkIoKeeps, LinkHandlerKeeps
     DEF Next, AcceptHandler
<1>2. CASE UNCHANGED vars
  <2>1. MQ!MQTypeOK' /\ Linked' /\ Lives' /\ Quiets'
    BY <1>2, TypeParts, QueueFrame, LinkedFrame, LivesFrame, QuietsFrame DEF vars, IInv
  <2>2. ServiceType'
    BY <1>2, TypeParts DEF vars, IInv, ServiceType, links
  <2>3. QED
    BY <2>1, <2>2, TypePartsNext DEF IInv
<1>3. QED
  BY <1>1, <1>2

\* Every reachable state of the service satisfies the inductive invariant.
THEOREM ServiceInvariance == Spec => []IInv
  BY InitIInv, NextIInv, PTL DEF Spec

\* The place of thread_idle in filercv_ is one, and every queue, client and link is in
\* one of the states its threads know, whatever the clients do.
THEOREM ServiceTypeCorrect == Spec => []TypeOK
<1>1. IInv => TypeOK
  BY DEF IInv
<1>2. QED
  BY <1>1, ServiceInvariance, PTL

\* thread_idle and StopService never destroy two receivers at a time, nor one that has
\* left filercv_: StopService waits for the thread, the accept handler for the lock.
THEOREM OneAtATimeIsDestroyed == Spec => []OneIsDestroyed
<1>1. IInv => OneIsDestroyed
  <2> SUFFICES ASSUME IInv PROVE OneIsDestroyed
    OBVIOUS
  <2> DEFINE destroyed == {c \in Conns : stopper[c] \in {"quit", "join", "reset"}}
  <2>1. \A c \in destroyed : Contains(filercv_, c) /\ (AtIterator(c) \/ AtFront(c))
    BY DEF IInv, Lives, StoppedThere
  <2>2. \A c, d \in destroyed : c = d
    BY <2>1 DEF IInv, Lives, Locked, AtIterator, AtFront
  <2>3. Cardinality(destroyed) <= 1
    <3>1. CASE destroyed = {}
      BY <3>1, FS_EmptySet
    <3>2. CASE destroyed # {}
      <4>1. PICK c \in destroyed : TRUE
        BY <3>2
      <4>2. destroyed = {c}
        BY <2>2, <4>1
      <4> HIDE DEF destroyed
      <4>3. Cardinality(destroyed) = 1
        BY <4>2, FS_Singleton
      <4>4. QED
        BY <4>3
    <3>3. QED
      BY <3>1, <3>2
  <2>4. QED
    BY <2>1, <2>3 DEF OneIsDestroyed
<1>2. QED
  BY <1>1, ServiceInvariance, PTL

\* A receiver that has handled NETWORK_CLOSE is not posted to any more: thread_idle,
\* which waits for that, can destroy its queue.
THEOREM NothingIsPostedLate == Spec => []ClosedIsQuiet
<1>1. IInv => ClosedIsQuiet
  BY DEF IInv, Quiets, Quiet, ClosedIsQuiet
<1>2. QED
  BY <1>1, ServiceInvariance, PTL

\* Links of the data-process that do not overlap are served one after the other, and
\* the writer has none when the last has ended (TransferAgent.cpp:98-111).
THEOREM LinksAreServed == Spec => []SeparateLinksServed
<1>1. IInv => SeparateLinksServed
  BY TypeParts DEF IInv, Linked, OneAtATime, AllOver, Over, Serving, SeparateLinksServed, ServiceType
<1>2. QED
  BY <1>1, ServiceInvariance, PTL

=============================================================================

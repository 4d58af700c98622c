--------------------------- MODULE NTPClientProofs ---------------------------
(***************************************************************************)
(* What the clock client guarantees for every period, timeout, limit and   *)
(* drift, on a network that delays, reorders, repeats and loses what it    *)
(* likes.                                                                  *)
(*                                                                         *)
(* The answer to the latest request is exact because the time stamp it     *)
(* brings back was taken by the clock that is about to be set: between     *)
(* sending and select's return nobody touches the clock (LatestExact), and *)
(* the next request is sent later than the last (Times), so that no two    *)
(* requests are confused. A new socket starts with nothing under way       *)
(* (OfSocket).                                                             *)
(***************************************************************************)
EXTENDS NTPClient, TLAPS

USE TimeAssumption, LimitAssumption, ErrsAssumption

\* Requests were sent no later than the latest, and answered at the times they say.
Stamped(p) ==
  /\ p.sent <= asked
  /\ p.t3 # Void => p.t2 # Void /\ p.sent <= p.t2 /\ p.t2 <= p.t3 /\ p.t3 <= now

Times ==
  /\ asked <= now /\ (pc = "sleep" => asked < wake)
  /\ \A p \in net : Stamped(p)
  /\ \A i \in 1 .. Len(inbox) : Stamped(inbox[i]) /\ inbox[i].t3 # Void

\* While select waits, the clock is as far off as it was when the request was sent.
LatestExact ==
  pc = "select" =>
    /\ \A p \in net : p.sent = asked => p.t1 = p.sent + err
    /\ \A i \in 1 .. Len(inbox) : inbox[i].sent = asked => inbox[i].t1 = inbox[i].sent + err

\* Nothing under way is older than the socket.
OfSocket ==
  /\ opened <= asked
  /\ \A p \in net : opened <= p.sent
  /\ \A i \in 1 .. Len(inbox) : opened <= inbox[i].sent

IInv == TypeOK /\ Times /\ LatestExact /\ OfSocket /\ OffsetIsTrue

-----------------------------------------------------------------------------
(* Every step preserves IInv                                               *)

LEMMA TickKeeps == ASSUME IInv, Tick PROVE IInv'
<1>1. TypeOK'
  BY DEF IInv, TypeOK, Packets, Void, Tick
<1>2. Times'
  <2>1. now \in Nat /\ now' = now + 1 /\ UNCHANGED <<asked, pc, wake, net, inbox>>
    BY DEF Tick, IInv, TypeOK
  <2>2. ASSUME NEW p \in Packets, Stamped(p)
        PROVE Stamped(p)'
    BY <2>1, <2>2 DEF Stamped, Packets, Void
  <2>3. \A p \in net : p \in Packets /\ Stamped(p)
    BY DEF IInv, TypeOK, Times
  <2>4. \A i \in 1 .. Len(inbox) : inbox[i] \in Packets /\ Stamped(inbox[i]) /\ inbox[i].t3 # Void
    BY DEF IInv, TypeOK, Times
  <2>5. \A p \in net' : Stamped(p)'
    BY <2>1, <2>2, <2>3
  <2>6. \A i \in 1 .. Len(inbox') : (Stamped(inbox[i]) /\ inbox[i].t3 # Void)'
    BY <2>1, <2>2, <2>4
  <2>7. asked' <= now' /\ (pc' = "sleep" => asked' < wake')
    BY <2>1 DEF IInv, TypeOK, Times, Void
  <2>8. QED
    BY <2>5, <2>6, <2>7 DEF Times
<1>3. LatestExact'
  BY DEF IInv, TypeOK, Packets, Times, Stamped, LatestExact, Void, Tick
<1>4. OfSocket'
  BY DEF IInv, TypeOK, Packets, Times, OfSocket, Void, Tick
<1>5. OffsetIsTrue'
  BY DEF IInv, TypeOK, OffsetIsTrue, Tick
<1>6. QED
  BY <1>1, <1>2, <1>3, <1>4, <1>5 DEF IInv

LEMMA DriftKeeps == ASSUME IInv, Drift PROVE IInv'
<1>1. TypeOK'
  BY DEF IInv, TypeOK, Packets, Void, Drift
<1>2. Times'
  BY DEF IInv, TypeOK, Packets, Times, Stamped, Void, Drift
<1>3. LatestExact'
  BY DEF IInv, TypeOK, Packets, Times, Stamped, LatestExact, Void, Drift
<1>4. OfSocket'
  BY DEF IInv, TypeOK, Packets, Times, OfSocket, Void, Drift
<1>5. OffsetIsTrue'
  BY DEF IInv, TypeOK, OffsetIsTrue, Drift
<1>6. QED
  BY <1>1, <1>2, <1>3, <1>4, <1>5 DEF IInv

LEMMA Answered ==
  ASSUME NEW p \in Packets, NEW n \in Nat, NEW t2 \in p.sent .. n
  PROVE  \E q \in Packets :
           /\ q = [p EXCEPT !.t2 = t2, !.t3 = n]
           /\ q.sent = p.sent /\ q.t1 = p.t1 /\ q.t2 = t2 /\ q.t3 = n
           /\ t2 \in Nat /\ p.sent <= t2 /\ t2 <= n
<1> DEFINE q == [p EXCEPT !.t2 = t2, !.t3 = n]
<1>1. p.sent \in Nat /\ p.t1 \in Int
  BY DEF Packets
<1>2. t2 \in Nat /\ p.sent <= t2 /\ t2 <= n
  BY <1>1
<1>3. q \in Packets /\ q.sent = p.sent /\ q.t1 = p.t1 /\ q.t2 = t2 /\ q.t3 = n
  BY <1>1, <1>2 DEF Packets
<1>4. QED
  BY <1>2, <1>3

LEMMA AnswerKeeps == ASSUME IInv, NEW p \in net, Answer(p) PROVE IInv'
<1>1. p \in Packets /\ Stamped(p) /\ now \in Nat /\ net \subseteq Packets
  BY DEF IInv, TypeOK, Times
<1>2. PICK t2 \in p.sent .. now : net' = (net \ {p}) \cup {[p EXCEPT !.t2 = t2, !.t3 = now]}
  BY DEF Answer
<1>3. UNCHANGED <<now, err, pc, wake, sock_, inbox, valid_, offset_, nfail_, autoSync_, asked,
                  opened, silent, measured>>
  BY DEF Answer
<1>4. PICK q \in Packets :
        /\ q = [p EXCEPT !.t2 = t2, !.t3 = now]
        /\ q.sent = p.sent /\ q.t1 = p.t1 /\ q.t2 = t2 /\ q.t3 = now
        /\ t2 \in Nat /\ p.sent <= t2 /\ t2 <= now
  BY <1>1, Answered
<1>5. net' = (net \ {p}) \cup {q}
  BY <1>2, <1>4
<1>6. TypeOK'
  <2>1. net' \subseteq Packets
    BY <1>1, <1>4, <1>5
  <2>2. (~sock_ => net = {} /\ inbox = <<>>)'
    BY <1>3 DEF IInv, TypeOK
  <2>3. inbox' \in Seq(Packets)
    BY <1>3 DEF IInv, TypeOK
  <2>4. QED
    BY <1>3, <2>1, <2>2, <2>3 DEF IInv, TypeOK
<1>7. Times'
  <2>1. q.sent <= asked' /\ now' = now
    BY <1>1, <1>3, <1>4 DEF Stamped
  <2>2. Stamped(q)'
    BY <1>1, <1>4, <2>1 DEF Stamped, Void
  <2>3. \A r \in net : Stamped(r)'
    BY <1>3 DEF IInv, Times, Stamped
  <2>4. \A r \in net' : Stamped(r)'
    BY <1>5, <2>2, <2>3
  <2>5. \A i \in 1 .. Len(inbox') : (Stamped(inbox[i]) /\ inbox[i].t3 # Void)'
    BY <1>3 DEF IInv, Times, Stamped
  <2>6. QED
    BY <1>3, <2>4, <2>5 DEF IInv, Times
<1>8. LatestExact'
  BY <1>3, <1>4, <1>5 DEF IInv, LatestExact
<1>9. OfSocket'
  <2>1. opened' <= q.sent
    BY <1>3, <1>4 DEF IInv, OfSocket
  <2>2. QED
    BY <1>3, <1>5, <2>1 DEF IInv, OfSocket
<1>10. OffsetIsTrue'
  BY <1>3 DEF IInv, OffsetIsTrue
<1>11. QED
  BY <1>6, <1>7, <1>8, <1>9, <1>10 DEF IInv

LEMMA DeliverKeeps == ASSUME IInv, \E p \in net : Deliver(p) PROVE IInv'
<1>1. TypeOK'
  BY DEF IInv, TypeOK, Packets, Void, Deliver
<1>2. Times'
  BY DEF IInv, TypeOK, Packets, Times, Stamped, Void, Deliver
<1>3. LatestExact'
  <2>1. PICK p \in net : Deliver(p)
    OBVIOUS
  <2>2. p \in Packets /\ inbox \in Seq(Packets) /\ Len(inbox) \in Nat
    BY DEF IInv, TypeOK
  <2>3. inbox' = Append(inbox, p) /\ net' \subseteq net /\ UNCHANGED <<pc, asked, err>>
    BY <2>1 DEF Deliver
  <2>4. \A i \in 1 .. Len(inbox') : inbox'[i] = p \/ (i \in 1 .. Len(inbox) /\ inbox'[i] = inbox[i])
    BY <2>2, <2>3
  <2>5. QED
    BY <2>3, <2>4 DEF IInv, LatestExact
<1>4. OfSocket'
  BY DEF IInv, TypeOK, Packets, Times, OfSocket, Void, Deliver
<1>5. OffsetIsTrue'
  BY DEF IInv, TypeOK, OffsetIsTrue, Deliver
<1>6. QED
  BY <1>1, <1>2, <1>3, <1>4, <1>5 DEF IInv

LEMMA LoseKeeps == ASSUME IInv, \E p \in net : Lose(p) PROVE IInv'
<1>1. TypeOK'
  BY DEF IInv, TypeOK, Packets, Void, Lose
<1>2. Times'
  BY DEF IInv, TypeOK, Packets, Times, Stamped, Void, Lose
<1>3. LatestExact'
  BY DEF IInv, TypeOK, Packets, Times, Stamped, LatestExact, Void, Lose
<1>4. OfSocket'
  BY DEF IInv, TypeOK, Packets, Times, OfSocket, Void, Lose
<1>5. OffsetIsTrue'
  BY DEF IInv, TypeOK, OffsetIsTrue, Lose
<1>6. QED
  BY <1>1, <1>2, <1>3, <1>4, <1>5 DEF IInv

LEMMA EnableAutoSynchKeeps == ASSUME IInv, EnableAutoSynch PROVE IInv'
<1>1. TypeOK'
  BY DEF IInv, TypeOK, Packets, Void, EnableAutoSynch
<1>2. Times'
  BY DEF IInv, TypeOK, Packets, Times, Stamped, Void, EnableAutoSynch
<1>3. LatestExact'
  BY DEF IInv, TypeOK, Packets, Times, Stamped, LatestExact, Void, EnableAutoSynch
<1>4. OfSocket'
  BY DEF IInv, TypeOK, Packets, Times, OfSocket, Void, EnableAutoSynch
<1>5. OffsetIsTrue'
  BY DEF IInv, TypeOK, OffsetIsTrue, EnableAutoSynch
<1>6. QED
  BY <1>1, <1>2, <1>3, <1>4, <1>5 DEF IInv

LEMMA ResolveFailsKeeps == ASSUME IInv, ResolveFails PROVE IInv'
<1>1. TypeOK'
  BY DEF IInv, TypeOK, Packets, Void, ResolveFails, Woken, Sleep
<1>2. Times'
  BY DEF IInv, TypeOK, Packets, Times, Stamped, Void, ResolveFails, Woken, Sleep
<1>3. LatestExact'
  BY DEF IInv, TypeOK, Packets, Times, Stamped, LatestExact, Void, ResolveFails, Woken, Sleep
<1>4. OfSocket'
  BY DEF IInv, TypeOK, Packets, Times, OfSocket, Void, ResolveFails, Woken, Sleep
<1>5. OffsetIsTrue'
  BY DEF IInv, TypeOK, OffsetIsTrue, ResolveFails, Woken, Sleep
<1>6. QED
  BY <1>1, <1>2, <1>3, <1>4, <1>5 DEF IInv

LEMMA SendFailsKeeps == ASSUME IInv, SendFails PROVE IInv'
<1>1. TypeOK'
  <2>1. valid_' \in BOOLEAN
    BY Zenon DEF SendFails, Woken, Sleep, CloseSocket, Failed
  <2>2. /\ net' = {} /\ inbox' = <<>> /\ sock_' = FALSE /\ pc' = "sleep"
        /\ wake' = now + Period /\ nfail_' = nfail_ + 1 /\ silent' = silent + 1
        /\ UNCHANGED <<now, err, offset_, autoSync_, asked, opened, measured>>
    BY DEF SendFails, Woken, Sleep, CloseSocket, Failed
  <2>3. inbox' \in Seq(Packets) /\ net' \subseteq Packets
    BY <2>2
  <2>4. now \in Nat /\ nfail_ \in Nat /\ silent \in Nat
    BY DEF IInv, TypeOK
  <2>5. wake' \in Nat /\ nfail_' \in Nat /\ silent' \in Nat
    BY <2>2, <2>4
  <2>6. /\ now' \in Nat /\ err' \in Int /\ offset_' \in Int /\ autoSync_' \in BOOLEAN
        /\ asked' \in Nat \cup {Void} /\ opened' \in Nat \cup {Void} /\ measured' \in Int
    BY <2>2 DEF IInv, TypeOK
  <2>7. QED
    BY <2>1, <2>2, <2>3, <2>5, <2>6 DEF TypeOK
<1>2. Times'
  BY DEF IInv, TypeOK, Packets, Times, Stamped, Void, SendFails, Woken, Sleep, CloseSocket, Failed
<1>3. LatestExact'
  BY DEF IInv, TypeOK, Packets, Times, Stamped, LatestExact, Void, SendFails, Woken, Sleep, CloseSocket, Failed
<1>4. OfSocket'
  BY DEF IInv, TypeOK, Packets, Times, OfSocket, Void, SendFails, Woken, Sleep, CloseSocket, Failed
<1>5. OffsetIsTrue'
  <2>1. (valid_' => valid_) /\ UNCHANGED <<err, offset_, measured>>
    BY Zenon DEF SendFails, Woken, Sleep, CloseSocket, Failed
  <2>2. QED
    BY <2>1 DEF IInv, OffsetIsTrue
<1>6. QED
  BY <1>1, <1>2, <1>3, <1>4, <1>5 DEF IInv

LEMMA SendRequestKeeps == ASSUME IInv, SendRequest PROVE IInv'
<1>1. TypeOK'
  BY DEF IInv, TypeOK, Packets, Void, SendRequest, Woken, Request, Clock
<1>2. Times'
  <2>1. now \in Nat /\ asked \in Int /\ asked < now
    BY DEF SendRequest, Woken, IInv, TypeOK, Times, Void
  <2>2. asked' = now /\ now' = now /\ inbox' = inbox /\ pc' = "select" /\ net' = net \cup {Request}
    BY DEF SendRequest
  <2>3. ASSUME NEW p \in Packets, Stamped(p)
        PROVE Stamped(p)'
    BY <2>1, <2>2, <2>3 DEF Stamped, Packets
  <2>5. \A p \in net : p \in Packets /\ Stamped(p)
    BY DEF IInv, TypeOK, Times
  <2>6. \A i \in 1 .. Len(inbox) : inbox[i] \in Packets /\ Stamped(inbox[i]) /\ inbox[i].t3 # Void
    BY DEF IInv, TypeOK, Times
  <2>8. \A p \in net' : Stamped(p)'
    <3> SUFFICES ASSUME NEW p \in net' PROVE Stamped(p)'
      OBVIOUS
    <3>1. CASE p \in net
      BY <3>1, <2>3, <2>5
    <3>2. CASE p = Request
      BY <3>2, <2>1, <2>2 DEF Stamped, Request, Void
    <3>3. QED
      BY <3>1, <3>2, <2>2
  <2>9. \A i \in 1 .. Len(inbox') : (Stamped(inbox[i]) /\ inbox[i].t3 # Void)'
    BY <2>2, <2>3, <2>6
  <2>10. QED
    BY <2>1, <2>2, <2>8, <2>9 DEF Times
<1>3. LatestExact'
  BY DEF IInv, TypeOK, Packets, Times, Stamped, LatestExact, Void, SendRequest, Woken, Request, Clock
<1>4. OfSocket'
  BY DEF IInv, TypeOK, Packets, Times, OfSocket, Void, SendRequest, Woken, Request, Clock
<1>5. OffsetIsTrue'
  BY DEF IInv, TypeOK, OffsetIsTrue, SendRequest, Woken, Request, Clock
<1>6. QED
  BY <1>1, <1>2, <1>3, <1>4, <1>5 DEF IInv

LEMMA TimedOutKeeps == ASSUME IInv, TimedOut PROVE IInv'
<1>1. TypeOK'
  BY DEF IInv, TypeOK, Packets, Void, TimedOut, Sleep, Failed
<1>2. Times'
  BY DEF IInv, TypeOK, Packets, Times, Stamped, Void, TimedOut, Sleep, Failed
<1>3. LatestExact'
  BY DEF IInv, TypeOK, Packets, Times, Stamped, LatestExact, Void, TimedOut, Sleep, Failed
<1>4. OfSocket'
  BY DEF IInv, TypeOK, Packets, Times, OfSocket, Void, TimedOut, Sleep, Failed
<1>5. OffsetIsTrue'
  <2>1. (valid_' => valid_) /\ UNCHANGED <<err, offset_, measured>>
    BY Zenon DEF TimedOut, Sleep, Failed
  <2>2. QED
    BY <2>1 DEF IInv, OffsetIsTrue
<1>6. QED
  BY <1>1, <1>2, <1>3, <1>4, <1>5 DEF IInv

LEMMA ReceiveFailsKeeps == ASSUME IInv, ReceiveFails PROVE IInv'
<1>1. TypeOK'
  <2>1. valid_' \in BOOLEAN
    BY Zenon DEF ReceiveFails, Sleep, CloseSocket, Failed
  <2>2. /\ net' = {} /\ inbox' = <<>> /\ sock_' = FALSE /\ pc' = "sleep"
        /\ wake' = now + Period /\ nfail_' = nfail_ + 1 /\ silent' = silent + 1
        /\ UNCHANGED <<now, err, offset_, autoSync_, asked, opened, measured>>
    BY DEF ReceiveFails, Sleep, CloseSocket, Failed
  <2>3. inbox' \in Seq(Packets) /\ net' \subseteq Packets
    BY <2>2
  <2>4. now \in Nat /\ nfail_ \in Nat /\ silent \in Nat
    BY DEF IInv, TypeOK
  <2>5. wake' \in Nat /\ nfail_' \in Nat /\ silent' \in Nat
    BY <2>2, <2>4
  <2>6. /\ now' \in Nat /\ err' \in Int /\ offset_' \in Int /\ autoSync_' \in BOOLEAN
        /\ asked' \in Nat \cup {Void} /\ opened' \in Nat \cup {Void} /\ measured' \in Int
    BY <2>2 DEF IInv, TypeOK
  <2>7. QED
    BY <2>1, <2>2, <2>3, <2>5, <2>6 DEF TypeOK
<1>2. Times'
  BY DEF IInv, TypeOK, Packets, Times, Stamped, Void, ReceiveFails, Sleep, CloseSocket, Failed
<1>3. LatestExact'
  BY DEF IInv, TypeOK, Packets, Times, Stamped, LatestExact, Void, ReceiveFails, Sleep, CloseSocket, Failed
<1>4. OfSocket'
  BY DEF IInv, TypeOK, Packets, Times, OfSocket, Void, ReceiveFails, Sleep, CloseSocket, Failed
<1>5. OffsetIsTrue'
  <2>1. (valid_' => valid_) /\ UNCHANGED <<err, offset_, measured>>
    BY Zenon DEF ReceiveFails, Sleep, CloseSocket, Failed
  <2>2. QED
    BY <2>1 DEF IInv, OffsetIsTrue
<1>6. QED
  BY <1>1, <1>2, <1>3, <1>4, <1>5 DEF IInv

LEMMA Halves == \A n \in Int : n \div 2 \in Int /\ (2 * (n \div 2) = n \/ 2 * (n \div 2) = n - 1)
OBVIOUS

\* What was measured, as the server's clock tells it: the way there and the way back.
LEMMA Exchange ==
  ASSUME IInv, Receive, SameClock(Head(inbox))
  PROVE  /\ Offset(Head(inbox)) \in Int
         /\ \E there \in Nat, back \in Nat :
              /\ Offset(Head(inbox)) = (there - back) - 2 * err
              /\ Delay(Head(inbox)) = there + back
<1> DEFINE p == Head(inbox)
           there == p.t2 - p.sent
           back  == now - p.t3
<1>1. p \in Packets /\ p = inbox[1] /\ 1 \in 1 .. Len(inbox)
  BY DEF Receive, IInv, TypeOK
<1>2. /\ p.sent \in Nat /\ p.t1 \in Int /\ p.t2 \in Int /\ p.t3 \in Int
      /\ now \in Int /\ err \in Int
  BY <1>1 DEF Packets, Void, IInv, TypeOK
<1>3. there \in Nat /\ back \in Nat
  BY <1>1, <1>2 DEF IInv, Times, Stamped
<1>4. p.t1 = p.sent + err
  BY <1>1 DEF IInv, LatestExact, Receive, SameClock
<1>5. Offset(p) = (there - back) - 2 * err /\ Delay(p) = there + back /\ Offset(p) \in Int
  BY <1>2, <1>4 DEF Offset, Delay, Clock
<1>6. QED
  BY <1>3, <1>5

LEMMA ReceiveKeeps == ASSUME IInv, Receive PROVE IInv'
<1>0. /\ inbox \in Seq(Packets) /\ inbox # <<>> /\ Tail(inbox) \in Seq(Packets)
      /\ Len(Tail(inbox)) = Len(inbox) - 1 /\ Len(inbox) \in Nat
      /\ \A i \in 1 .. Len(Tail(inbox)) : i + 1 \in 1 .. Len(inbox) /\ Tail(inbox)[i] = inbox[i + 1]
  BY DEF Receive, IInv, TypeOK
<1>1. TypeOK'
  <2>1. Head(inbox) \in Packets /\ Head(inbox) = inbox[1] /\ 1 \in 1 .. Len(inbox)
    BY <1>0
  <2>2. Head(inbox).t3 # Void /\ Head(inbox).t2 # Void
    BY <2>1 DEF IInv, Times, Stamped
  <2>3. Offset(Head(inbox)) \in Int
    BY <2>1, <2>2 DEF Offset, Clock, Packets, IInv, TypeOK
  <2>4. /\ inbox' = Tail(inbox) /\ offset_' = Offset(Head(inbox)) /\ nfail_' = 0 /\ silent' = 0
        /\ pc' = "sleep" /\ wake' = now + Period
        /\ UNCHANGED <<now, sock_, net, autoSync_, asked, opened>>
    BY DEF Receive, Sleep
  <2>5. valid_' \in BOOLEAN /\ err' \in {err, err + Offset(Head(inbox)) \div 2}
    BY DEF Receive, SynchClock
  <2>6. err' \in Int
    BY <2>3, <2>5 DEF IInv, TypeOK
  <2>7. sock_
    BY DEF Receive, IInv, TypeOK
  <2>8. measured' \in {Delay(Head(inbox)), Void}
    BY DEF Receive
  <2>9. measured' \in Int
    BY <2>1, <2>2, <2>8 DEF Delay, Clock, Packets, Void, IInv, TypeOK
  <2>10. QED
    BY <1>0, <2>3, <2>4, <2>5, <2>6, <2>7, <2>9 DEF IInv, TypeOK
<1>2. Times'
  <2>1. inbox' = Tail(inbox) /\ pc' = "sleep" /\ wake' = now + Period /\ UNCHANGED <<now, net, asked>>
    BY DEF Receive, Sleep
  <2>2. asked' <= now' /\ asked' < wake'
    BY <2>1 DEF IInv, TypeOK, Times, Void
  <2>3. \A p \in net' : Stamped(p)'
    BY <2>1 DEF IInv, Times, Stamped
  <2>4. \A i \in 1 .. Len(inbox') : (Stamped(inbox[i]) /\ inbox[i].t3 # Void)'
    BY <1>0, <2>1 DEF IInv, Times, Stamped
  <2>5. QED
    BY <2>2, <2>3, <2>4 DEF Times
<1>3. LatestExact'
  BY DEF IInv, TypeOK, Packets, Times, Stamped, LatestExact, Void, Receive, Sleep, SynchClock, Offset, Clock, Drifted
<1>4. OfSocket'
  BY <1>0 DEF IInv, OfSocket, Receive
<1>5. OffsetIsTrue'
  <2> SUFFICES ASSUME valid_', measured' # Void PROVE Abs(offset_' + 2 * err') <= measured'
    BY DEF OffsetIsTrue
  <2>1. SameClock(Head(inbox)) /\ measured' = Delay(Head(inbox)) /\ offset_' = Offset(Head(inbox))
    BY DEF Receive
  <2>2. err' = err /\ err \in Int
    BY DEF Receive, SynchClock, IInv, TypeOK
  <2>3. PICK there \in Nat, back \in Nat :
          Offset(Head(inbox)) = (there - back) - 2 * err /\ Delay(Head(inbox)) = there + back
    BY <2>1, Exchange
  <2>4. QED
    BY <2>1, <2>2, <2>3 DEF Abs
<1>6. QED
  BY <1>1, <1>2, <1>3, <1>4, <1>5 DEF IInv

LEMMA InitIInv == Init => IInv
<1> SUFFICES ASSUME Init PROVE IInv
  OBVIOUS
<1>1. /\ inbox = <<>> /\ inbox \in Seq(Packets) /\ Len(inbox) = 0 /\ net = {}
  BY DEF Init
<1>2. TypeOK
  <2>1. err \in Int
    BY DEF Init
  <2>2. wake \in Nat
    BY DEF Init
  <2>3. valid_ \in BOOLEAN /\ autoSync_ \in BOOLEAN /\ sock_ \in BOOLEAN
    BY DEF Init
  <2>4. /\ now \in Nat /\ offset_ \in Int /\ nfail_ \in Nat /\ asked \in Nat \cup {Void}
        /\ silent \in Nat /\ opened \in Nat \cup {Void} /\ measured \in Int
    BY DEF Init, Void
  <2>5. pc = "sleep" /\ net \subseteq Packets
    BY DEF Init
  <2>6. QED
    BY <1>1, <2>1, <2>2, <2>3, <2>4, <2>5 DEF TypeOK
<1>3. Times /\ LatestExact /\ OfSocket /\ OffsetIsTrue
  BY <1>1 DEF Init, Times, LatestExact, OfSocket, OffsetIsTrue, Void
<1>4. QED
  BY <1>2, <1>3 DEF IInv

LEMMA NextIInv == IInv /\ [Next]_vars => IInv'
<1> SUFFICES ASSUME IInv, [Next]_vars PROVE IInv'
  OBVIOUS
<1>1. CASE World
  BY <1>1, TickKeeps, DriftKeeps, AnswerKeeps, DeliverKeeps, LoseKeeps DEF World
<1>2. CASE EnableAutoSynch
  BY <1>2, EnableAutoSynchKeeps
<1>3. CASE Round
  BY <1>3, ResolveFailsKeeps, SendFailsKeeps, SendRequestKeeps, TimedOutKeeps,
     ReceiveFailsKeeps, ReceiveKeeps DEF Round
<1>4. CASE UNCHANGED vars
  BY <1>4 DEF vars, IInv, TypeOK, Times, Stamped, LatestExact, OfSocket, OffsetIsTrue
<1>5. QED
  BY <1>1, <1>2, <1>3, <1>4 DEF Next

LEMMA Invariance == Spec => []IInv
  BY InitIInv, NextIInv, PTL DEF Spec

-----------------------------------------------------------------------------
(* The results                                                             *)

\* Every variable keeps its type; without a socket nothing is under way to it.
THEOREM ClockTypeCorrect == Spec => []TypeOK
<1>1. IInv => TypeOK
  BY DEF IInv
<1>2. QED
  BY <1>1, Invariance, PTL

\* An answer in the socket is to a request of this socket, no later than the latest one
\* (NTPClient.cpp:156-198): a new socket ends what late and repeated answers can do.
THEOREM NoStaleAnswer == Spec => []AnswersAreCurrent
<1>1. IInv => AnswersAreCurrent
  BY DEF IInv, Times, Stamped, OfSocket, AnswersAreCurrent
<1>2. QED
  BY <1>1, Invariance, PTL

\* A valid offset is the one the clock has, give or take half the delay of its answer,
\* until somebody else sets the clock: SynchClock voids what it has corrected
\* (NTPClient.cpp:68-81 and 110-131).
THEOREM ValidOffsetIsTrue == Spec => []OffsetIsTrue
<1>1. IInv => OffsetIsTrue
  BY DEF IInv
<1>2. QED
  BY <1>1, Invariance, PTL

\* The arithmetic of it: e is the error before, f the error after.
LEMMA HalfTheWay ==
  ASSUME NEW e \in Int, NEW f, NEW there \in Nat, NEW back \in Nat, NEW o \in Int,
         o = (there - back) - 2 * e, f = e + o \div 2
  PROVE  f \in Int /\ 2 * Abs(f) <= (there + back) + 1
<1>1. f \in Int /\ (2 * f = there - back \/ 2 * f = (there - back) - 1)
  BY Halves
<1>2. QED
  BY <1>1 DEF Abs

LEMMA LeftAlone ==
  ASSUME NEW e \in Int, NEW there \in Nat, NEW back \in Nat, NEW o \in Int,
         o = (there - back) - 2 * e, ~Drifted(o)
  PROVE  2 * Abs(e) <= (there + back) + 2 * Limit
<1>1. o < 2 * Limit /\ o > -2 * Limit
  BY DEF Drifted
<1>2. QED
  BY <1>1 DEF Abs

LEMMA ReceiveIsExact ==
  ASSUME IInv, Receive, autoSync_, SameClock(Head(inbox))
  PROVE 2 * Abs(err') <= Delay(Head(inbox)) + Larger(2 * Limit, 1)
<1> DEFINE o == Offset(Head(inbox))
           d == Delay(Head(inbox))
<1>1. err \in Int /\ o \in Int
  BY Exchange DEF IInv, TypeOK
<1>2. PICK there \in Nat, back \in Nat : o = (there - back) - 2 * err /\ d = there + back
  BY Exchange
<1>3. Larger(2 * Limit, 1) \in Nat /\ 2 * Limit <= Larger(2 * Limit, 1) /\ 1 <= Larger(2 * Limit, 1)
  BY DEF Larger
<1>4. IF Drifted(o) THEN err' = err + o \div 2 ELSE err' = err
  BY DEF Receive, SynchClock
<1> HIDE DEF o, d
<1>5. CASE Drifted(o)
  <2>1. err' = err + o \div 2
    BY <1>4, <1>5
  <2>2. err' \in Int /\ 2 * Abs(err') <= (there + back) + 1
    BY <2>1, <1>1, <1>2, HalfTheWay
  <2>3. Abs(err') \in Int
    BY <2>2 DEF Abs
  <2>4. 2 * Abs(err') <= d + Larger(2 * Limit, 1)
    BY <2>2, <2>3, <1>2, <1>3
  <2>5. QED
    BY <2>4 DEF d
<1>6. CASE ~Drifted(o)
  <2>1. err' = err /\ Abs(err) \in Int
    BY <1>1, <1>4, <1>6 DEF Abs
  <2>2. 2 * Abs(err) <= (there + back) + 2 * Limit
    BY <1>1, <1>2, <1>6, LeftAlone
  <2>3. 2 * Abs(err') <= d + Larger(2 * Limit, 1)
    BY <2>1, <2>2, <1>2, <1>3
  <2>4. QED
    BY <2>3 DEF d
<1>7. QED
  BY <1>5, <1>6

\* Setting the clock by an answer leaves it off by no more than half the delay of that
\* exchange and the limit below which it is left alone, if nobody changed the clock since
\* it was asked for (NTPClient.cpp:110-126 and SynchClock).
THEOREM ClockIsExact == Spec => SyncIsExact
<1>1. IInv /\ [Next]_vars =>
        [Receive /\ autoSync_ /\ SameClock(Head(inbox))
           => 2 * Abs(err') <= Delay(Head(inbox)) + Larger(2 * Limit, 1)]_vars
  BY ReceiveIsExact
<1>2. QED
  BY <1>1, Invariance, PTL DEF Spec, SyncIsExact

=============================================================================

------------------------------ MODULE NTPClient ------------------------------
(***************************************************************************)
(* NTPClient (NTPClient.cpp): a thread that asks an NTP server for the     *)
(* time once a minute over UDP, and sets the clock by the answer. Answers  *)
(* are lost, late, come twice, or come after the client has stopped        *)
(* waiting for them.                                                       *)
(*                                                                         *)
(* Time is in whole ticks. The server's clock is the true time `now'; the  *)
(* local clock is off by `err'. offset_ is kept as twice its value, which  *)
(* is a whole number.                                                      *)
(***************************************************************************)
EXTENDS Integers, Sequences

CONSTANTS
  Period,      \* sleep between two rounds: 1 minute
  Timeout,     \* how long select waits: 10 seconds
  Limit,       \* tSync_: offsets below it are left alone
  FailLimit,   \* rounds without an answer after which offset_ is void: 5
  Errs,        \* by how much the local clock may be off
  MaxInbox,    \* bound: datagrams that wait in the socket
  MaxTime      \* bound: when the last round starts

ASSUME TimeAssumption == Period \in Nat \ {0} /\ Timeout \in Nat /\ MaxTime \in Nat
ASSUME LimitAssumption == Limit \in Nat /\ FailLimit \in Nat \ {0} /\ MaxInbox \in Nat
ASSUME ErrsAssumption == Errs \subseteq Int

VARIABLES
  now,         \* the true time
  err,         \* the local clock minus the true time
  pc,          \* the thread: asleep or in select
  wake,        \* when sleep or select ends
  sock_,       \* there is a socket
  net,         \* requests on their way, and answers on their way back
  inbox,       \* answers in the socket
  valid_, offset_, nfail_, autoSync_,
  asked,       \* history: when the latest request was sent
  opened,      \* history: when the first request was sent on this socket
  silent,      \* history: rounds since the last answer
  measured     \* history: the delay of the answer that offset_ is from, while it can be
               \* compared with the clock: nobody has changed the clock since it was asked for

vars == <<now, err, pc, wake, sock_, net, inbox, valid_, offset_, nfail_, autoSync_, asked, opened, silent, measured>>

Void == -1

Clock == now + err

Abs(i) == IF i < 0 THEN -i ELSE i

Init ==
  /\ now = 0 /\ err \in Errs /\ pc = "sleep" /\ wake = Period
  /\ sock_ = FALSE /\ net = {} /\ inbox = <<>>
  /\ valid_ = FALSE /\ offset_ = 0 /\ nfail_ = 0 /\ autoSync_ = FALSE
  /\ asked = Void /\ opened = Void /\ silent = 0 /\ measured = Void

-----------------------------------------------------------------------------
(* The world                                                               *)

Tick ==
  /\ now < MaxTime + Timeout
  /\ now' = now + 1
  /\ UNCHANGED <<err, pc, wake, sock_, net, inbox, valid_, offset_, nfail_, autoSync_, asked, opened, silent, measured>>

\* Between two rounds the clock drifts, or somebody sets it.
Drift ==
  /\ pc = "sleep" /\ err' \in Errs \ {err} /\ measured' = Void
  /\ UNCHANGED <<now, pc, wake, sock_, net, inbox, valid_, offset_, nfail_, autoSync_, asked, opened, silent>>

\* The server stamps a request at its arrival and its answer at its departure.
Answer(p) ==
  /\ p.t3 = Void
  /\ \E t2 \in p.sent .. now : net' = (net \ {p}) \cup {[p EXCEPT !.t2 = t2, !.t3 = now]}
  /\ UNCHANGED <<now, err, pc, wake, sock_, inbox, valid_, offset_, nfail_, autoSync_, asked, opened, silent, measured>>

\* UDP may deliver an answer more than once: it is gone, or has a copy under way.
Deliver(p) ==
  /\ p.t3 # Void /\ Len(inbox) < MaxInbox
  /\ net' \in {net, net \ {p}} /\ inbox' = Append(inbox, p)
  /\ UNCHANGED <<now, err, pc, wake, sock_, valid_, offset_, nfail_, autoSync_, asked, opened, silent, measured>>

Lose(p) ==
  /\ net' = net \ {p}
  /\ UNCHANGED <<now, err, pc, wake, sock_, inbox, valid_, offset_, nfail_, autoSync_, asked, opened, silent, measured>>

World == Tick \/ Drift \/ \E p \in net : Answer(p) \/ Deliver(p) \/ Lose(p)

-----------------------------------------------------------------------------
(* The client                                                              *)

EnableAutoSynch ==
  /\ autoSync_' = TRUE
  /\ UNCHANGED <<now, err, pc, wake, sock_, net, inbox, valid_, offset_, nfail_, asked, opened, silent, measured>>

\* The round is over; back to sleep_for(duration).
Sleep == pc' = "sleep" /\ wake' = now + Period

Woken == pc = "sleep" /\ now >= wake /\ now <= MaxTime

\* "if (++nfail_ >= 5 && valid_) valid_ = false"
Failed ==
  /\ nfail_' = nfail_ + 1
  /\ valid_' = (valid_ /\ nfail_' < FailLimit)

\* A possible slip: another socket, but what came for the old one is kept.
CloseSocketOnly == sock_' = FALSE /\ UNCHANGED <<net, inbox>>

\* close(sock_): what was under way to it is lost.
CloseSocket == sock_' = FALSE /\ net' = {} /\ inbox' = <<>>

\* No socket, and getaddrinfo or socket fails: "continue", which counts as nothing.
ResolveFails ==
  /\ Woken /\ ~sock_ /\ Sleep
  /\ silent' = silent + 1
  /\ UNCHANGED <<now, err, sock_, net, inbox, valid_, offset_, nfail_, autoSync_, asked, opened, measured>>

SendFails ==
  /\ Woken /\ Sleep /\ CloseSocket /\ Failed
  /\ silent' = silent + 1
  /\ UNCHANGED <<now, err, offset_, autoSync_, asked, opened, measured>>

\* construct_packet: the transmit timestamp, which the server gives back as t1.
Request == [sent |-> now, t1 |-> Clock, t2 |-> Void, t3 |-> Void]

SendRequest ==
  /\ Woken /\ sock_' = TRUE
  /\ net' = net \cup {Request} /\ asked' = now /\ opened' = IF sock_ THEN opened ELSE now
  /\ pc' = "select" /\ wake' = now + Timeout
  /\ UNCHANGED <<now, err, inbox, valid_, offset_, nfail_, autoSync_, silent, measured>>

TimedOut ==
  /\ pc = "select" /\ inbox = <<>> /\ now >= wake
  /\ Sleep /\ Failed
  /\ silent' = silent + 1
  /\ UNCHANGED <<now, err, sock_, net, inbox, offset_, autoSync_, asked, opened, measured>>

\* recvfrom reports an error, such as a port nobody listens on.
ReceiveFails ==
  /\ pc = "select"
  /\ Sleep /\ CloseSocket /\ Failed
  /\ silent' = silent + 1
  /\ UNCHANGED <<now, err, offset_, autoSync_, asked, opened, measured>>

\* A possible slip: the way back is not looked at.
OffsetOneWay(p) == 2 * (p.t2 - p.t1)

\* Twice ((t2 - t1) + (t3 - t4)) * 0.5.
Offset(p) == (p.t2 - p.t1) + (p.t3 - Clock)

Delay(p) == (Clock - p.t1) - (p.t3 - p.t2)

\* "offset_ >= tSync_ || offset_ <= -tSync_"
Drifted(offset) == offset >= 2 * Limit \/ offset <= -2 * Limit

\* A possible slip: the offset is kept as if it were still to be corrected.
SynchClockKeeps(offset) == err' = err + offset \div 2 /\ valid_' = TRUE

\* SynchClock, called with valid_ and the offset it needs: gettimeofday plus offset_,
\* cut to what settimeofday takes.
SynchClock(offset) == err' = err + offset \div 2 /\ valid_' = FALSE

\* Nobody has changed the clock since the request: the answer is to the latest one, or is
\* late or a copy and finds the clock as it was.
SameClock(p) == p.sent = asked \/ p.t1 = p.sent + err

\* recvfrom takes what came first, and the clock is set by it.
Receive ==
  /\ pc = "select" /\ inbox # <<>>
  /\ inbox' = Tail(inbox)
  /\ offset_' = Offset(Head(inbox)) /\ nfail_' = 0
  /\ IF Drifted(offset_') /\ autoSync_
     THEN SynchClock(offset_')
     ELSE valid_' = TRUE /\ UNCHANGED err
  /\ Sleep
  /\ silent' = 0 /\ measured' = IF SameClock(Head(inbox)) THEN Delay(Head(inbox)) ELSE Void
  /\ UNCHANGED <<now, sock_, net, autoSync_, asked, opened>>

Round == ResolveFails \/ SendFails \/ SendRequest \/ TimedOut \/ ReceiveFails \/ Receive

Next == World \/ EnableAutoSynch \/ Round

Spec == Init /\ [][Next]_vars

-----------------------------------------------------------------------------
(* Properties                                                              *)

Packets == [sent : Nat, t1 : Int, t2 : Nat \cup {Void}, t3 : Nat \cup {Void}]

TypeOK ==
  /\ now \in Nat /\ err \in Int /\ pc \in {"sleep", "select"} /\ wake \in Nat
  /\ sock_ \in BOOLEAN /\ net \subseteq Packets /\ inbox \in Seq(Packets)
  /\ valid_ \in BOOLEAN /\ offset_ \in Int /\ nfail_ \in Nat /\ autoSync_ \in BOOLEAN
  /\ asked \in Nat \cup {Void} /\ opened \in Nat \cup {Void} /\ silent \in Nat /\ measured \in Int
  /\ pc = "select" => sock_
  /\ ~sock_ => net = {} /\ inbox = <<>>

\* A late or repeated answer is taken for the one to the latest request, but it never
\* survives the socket it was asked for on: no answer that waits is from before.
AnswersAreCurrent ==
  \A i \in 1 .. Len(inbox) : opened <= inbox[i].sent /\ inbox[i].sent <= asked

Larger(i, j) == IF i < j THEN j ELSE i

\* An answer brings the clock as near to the server's as the way there and back allows:
\* half the delay that is logged, or the limit below which nothing is done. A late or
\* repeated answer does so too, unless the clock was changed since it was asked for.
SyncIsExact ==
  [][Receive /\ autoSync_ /\ SameClock(Head(inbox))
       => 2 * Abs(err') <= Delay(Head(inbox)) + Larger(2 * Limit, 1)]_vars

\* valid_ never vouches for an offset the clock does not have: until somebody else sets
\* the clock a valid offset_ is the true one, give or take half the delay of its answer.
\* What SynchClock has corrected is not offered again.
OffsetIsTrue == valid_ /\ measured # Void => Abs(offset_ + 2 * err) <= measured

\* "the offset is valid for 5 periods" (the comment at NTPClient.cpp:129): after FailLimit
\* rounds without an answer it is void.
OffsetExpires == valid_ => silent < FailLimit

\* "Checks the offset between this machine and the NTP server, and corrects this
\* machine's clock" (NTPClient.h:4): no answer that is used leaves the clock farther off
\* than the longest exchange the client waits for explains.
ClockIsCorrected ==
  [][Receive /\ autoSync_ /\ now <= wake
       => 2 * Abs(err') <= Timeout + Larger(2 * Limit, 1)]_vars

=============================================================================

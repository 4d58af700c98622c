------------------------------ MODULE TCPClient ------------------------------
(***************************************************************************)
(* A TCPClient with its own buffers (tcpasio.cpp after UseBuffer), the way *)
(* the data-process link uses it: Write may be called by any thread and    *)
(* queues bytes in crcsnd_, the io thread sends them with one              *)
(* async_write_some after the other, and what arrives is queued in crcrcv_ *)
(* for Lookup and Read. mtxsnd_ and mtxrcv_ make each of these one step.   *)
(*                                                                         *)
(* Sent bytes are numbered in the order Write is asked for them; received  *)
(* bytes are letters, since Lookup compares them.                          *)
(***************************************************************************)
EXTENDS Integers, Sequences

CONSTANTS
  Capacity,   \* capacity of crcsnd_ and crcrcv_
  Lengths,    \* lengths of the lines given to Write
  MaxAsked,   \* bound: bytes given to Write
  Letters,    \* what received bytes can be
  MaxRcvd,    \* bound: bytes received
  Flags,      \* what Lookup searches for
  ReadFrom    \* the third argument of Read

ASSUME CapacityAssumption == Capacity \in Nat \ {0}
ASSUME LengthAssumption == Lengths \subseteq Nat \ {0}
ASSUME LetterAssumption == Flags \subseteq Seq(Letters) \ {<<>>}
ASSUME BoundAssumption == MaxAsked \in Nat /\ MaxRcvd \in Nat /\ ReadFrom \subseteq Nat

VARIABLES
  crcsnd,     \* the send buffer
  sending,    \* the async_write_some under way: how many bytes each was given
  failed,     \* a write has ended with an error
  asked,      \* history: bytes given to Write
  accepted,   \* history: bytes Write has taken
  wire,       \* history: bytes the socket has sent
  crcrcv,     \* the receive buffer
  looked,     \* the size a Lookup under way has read, or NoSize
  rcvd,       \* history: bytes received
  taken,      \* history: bytes Read has returned
  overwritten \* history: how many bytes a full buffer has lost

sendvars == <<crcsnd, sending, failed, asked, accepted, wire>>
rcvvars  == <<crcrcv, looked, rcvd, taken, overwritten>>
vars     == <<sendvars, rcvvars>>

NoSize == -1

Init ==
  /\ crcsnd = <<>> /\ sending = <<>> /\ failed = FALSE
  /\ asked = 0 /\ accepted = <<>> /\ wire = <<>>
  /\ crcrcv = <<>> /\ looked = NoSize
  /\ rcvd = <<>> /\ taken = <<>> /\ overwritten = 0

-----------------------------------------------------------------------------
(* Sending                                                                 *)

\* start_write: send what there is, if there is anything.
StartWrite(others, buffer) ==
  sending' = IF buffer = <<>> THEN others ELSE Append(others, Len(buffer))

\* A possible slip: the capacity is not looked at.
RoomUnbounded(len) == len

\* How much of len bytes Write takes: what fits.
Room(len) == IF Capacity - Len(crcsnd) > len THEN len ELSE Capacity - Len(crcsnd)

\* A possible slip: a write is started whenever something was queued.
WriteEager(len) ==
  LET n     == Room(len)
      bytes == [i \in 1 .. n |-> asked + i]
  IN /\ asked + len <= MaxAsked
     /\ asked' = asked + len
     /\ crcsnd' = crcsnd \o bytes
     /\ accepted' = accepted \o bytes
     /\ IF n # 0 THEN StartWrite(sending, crcsnd') ELSE UNCHANGED sending
     /\ UNCHANGED <<failed, wire, rcvvars>>

\* A possible slip: no write is started.
WriteLazy(len) ==
  LET n     == Room(len)
      bytes == [i \in 1 .. n |-> asked + i]
  IN /\ asked + len <= MaxAsked
     /\ asked' = asked + len
     /\ crcsnd' = crcsnd \o bytes
     /\ accepted' = accepted \o bytes
     /\ UNCHANGED <<sending, failed, wire, rcvvars>>

\* Write: queue what fits; start a write only if nothing was queued before.
Write(len) ==
  LET n     == Room(len)
      bytes == [i \in 1 .. n |-> asked + i]
  IN /\ asked + len <= MaxAsked
     /\ asked' = asked + len
     /\ crcsnd' = crcsnd \o bytes
     /\ accepted' = accepted \o bytes
     /\ IF crcsnd = <<>> /\ n # 0 THEN StartWrite(sending, crcsnd') ELSE UNCHANGED sending
     /\ UNCHANGED <<failed, wire, rcvvars>>

\* A possible slip: the whole buffer is erased, whatever was sent.
HandleWriteClears(n) ==
  /\ sending # <<>> /\ n <= Head(sending)
  /\ wire' = wire \o SubSeq(crcsnd, 1, n)
  /\ crcsnd' = <<>>
  /\ StartWrite(Tail(sending), crcsnd')
  /\ UNCHANGED <<failed, asked, accepted, rcvvars>>

\* handle_write: the socket has sent n bytes; erase them, send the rest.
HandleWrite(n) ==
  /\ sending # <<>> /\ n <= Head(sending)
  /\ wire' = wire \o SubSeq(crcsnd, 1, n)
  /\ crcsnd' = SubSeq(crcsnd, n + 1, Len(crcsnd))
  /\ StartWrite(Tail(sending), crcsnd')
  /\ UNCHANGED <<failed, asked, accepted, rcvvars>>

\* handle_write with an error code does nothing at all.
HandleWriteError ==
  /\ sending # <<>>
  /\ sending' = Tail(sending) /\ failed' = TRUE
  /\ UNCHANGED <<crcsnd, asked, accepted, wire, rcvvars>>

-----------------------------------------------------------------------------
(* Receiving                                                               *)

\* The last Capacity elements: push_back on a full circular buffer overwrites
\* its first element.
Newest(s) == IF Len(s) > Capacity THEN SubSeq(s, Len(s) - Capacity + 1, Len(s)) ELSE s

\* handle_read, one byte at a time.
HandleRead(c) ==
  /\ Len(rcvd) < MaxRcvd
  /\ crcrcv' = Newest(Append(crcrcv, c))
  /\ rcvd' = Append(rcvd, c)
  /\ overwritten' = overwritten + Len(crcrcv) + 1 - Len(crcrcv')
  /\ UNCHANGED <<sendvars, looked, taken>>

\* What Read(len, from) copies.
Copied(len, from) == SubSeq(crcrcv, from + 1, IF from + len < Len(crcrcv) THEN from + len ELSE Len(crcrcv))

\* A possible slip: one byte too few is erased.
ReadKeepsOne(len, from) ==
  /\ looked = NoSize /\ Copied(len, from) # <<>>
  /\ taken' = taken \o Copied(len, from)
  /\ crcrcv' = SubSeq(crcrcv, Len(Copied(len, from)), Len(crcrcv))
  /\ UNCHANGED <<sendvars, looked, rcvd, overwritten>>

\* Read: copy from position from on, erase as many bytes from the beginning.
\* The thread that looks is the one that reads.
Read(len, from) ==
  /\ looked = NoSize /\ Copied(len, from) # <<>>
  /\ taken' = taken \o Copied(len, from)
  /\ crcrcv' = SubSeq(crcrcv, Len(Copied(len, from)) + 1, Len(crcrcv))
  /\ UNCHANGED <<sendvars, looked, rcvd, overwritten>>

\* Lookup(flag, len, from) takes the size before it locks mtxrcv_: bytes may
\* arrive, and overwrite others, before it scans.
LookupSize ==
  /\ looked = NoSize /\ looked' = Len(crcrcv)
  /\ UNCHANGED <<sendvars, crcrcv, rcvd, taken, overwritten>>

\* The bytes from position p (counted from 0) on that agree with the beginning
\* of flag,
Matched(s, flag, p) ==
  LET agree == [i \in 0 .. Len(flag) |-> \A j \in 1 .. i : s[p + j] = flag[j]]
  IN CHOOSE i \in 0 .. Len(flag) : agree[i] /\ (i = Len(flag) \/ ~agree[i + 1])

\* A possible slip: the last position is not tried.
LookupShort(s, flag, from, size) ==
  LET n == size - Len(flag)
      scan[p \in from .. size + 1] ==
        IF p >= n THEN -1 ELSE IF Matched(s, flag, p) = Len(flag) THEN p ELSE scan[p + 1]
  IN scan[from]

\* and the scan that stops at the first position where all of flag agrees.
Lookup(s, flag, from, size) ==
  LET n == size - Len(flag)
      scan[p \in from .. size + 1] ==
        IF p > n THEN -1 ELSE IF Matched(s, flag, p) = Len(flag) THEN p ELSE scan[p + 1]
  IN scan[from]

\* It returns Lookup(crcrcv, flag, from, looked) and changes nothing.
LookupScan ==
  /\ looked # NoSize /\ looked' = NoSize
  /\ UNCHANGED <<sendvars, crcrcv, rcvd, taken, overwritten>>

Next ==
  \/ \E len \in Lengths : Write(len)
  \/ \E n \in 1 .. Capacity : HandleWrite(n)
  \/ HandleWriteError
  \/ \E c \in Letters : HandleRead(c)
  \/ \E len \in 1 .. Capacity, from \in ReadFrom : Read(len, from)
  \/ LookupSize
  \/ LookupScan

Spec == Init /\ [][Next]_vars

\* The io thread runs, and TCP sends or reports an error.
Fairness == WF_vars((\E n \in 1 .. Capacity : HandleWrite(n)) \/ HandleWriteError)

FairSpec == Spec /\ Fairness

-----------------------------------------------------------------------------
(* Properties                                                              *)

\* The buffers never hold more than their capacity: Write takes only what fits
\* and handle_read overwrites. A Lookup under way never believes there is more
\* than the buffer holds.
TypeOK ==
  /\ crcsnd \in Seq(Nat) /\ accepted \in Seq(Nat) /\ wire \in Seq(Nat)
  /\ sending \in Seq(Nat) /\ asked \in Nat /\ failed \in BOOLEAN
  /\ Len(crcsnd) <= Capacity
  /\ crcrcv \in Seq(Letters) /\ rcvd \in Seq(Letters) /\ taken \in Seq(Letters)
  /\ Len(crcrcv) <= Capacity /\ overwritten \in Nat
  /\ looked \in {NoSize} \cup 0 .. Len(crcrcv)

\* What has been sent, followed by what is still queued, is exactly what Write
\* has taken: no byte is lost, repeated or out of order between the threads
\* that write and the partial writes of the io thread.
StreamKept == wire \o crcsnd = accepted

\* One async_write_some is under way exactly while there is something to send
\* and no write has failed: the io thread and the threads that call Write never
\* start a second one, which would send bytes twice, and never forget to start
\* one. It was not given more bytes than the buffer still holds.
OneWriteUnderWay ==
  /\ Len(sending) = IF crcsnd = <<>> \/ failed THEN 0 ELSE 1
  /\ sending # <<>> => Head(sending) \in 1 .. Len(crcsnd)

\* Everything Write has taken is sent, unless a write fails.
AllIsSent == [](crcsnd # <<>> => <>(crcsnd = <<>> \/ failed))

\* With a reader that starts at position 0: the buffer holds the newest bytes
\* received, all but as many as have been read or overwritten, however often it
\* has been filled and emptied; and while nothing has been overwritten, Read has
\* returned the bytes received first, in order, each once.
ReadInOrder ==
  LET gone == Len(taken) + overwritten
  IN /\ gone <= Len(rcvd) /\ crcrcv = SubSeq(rcvd, gone + 1, Len(rcvd))
     /\ overwritten = 0 => taken = SubSeq(rcvd, 1, gone)

\* Lookup returns the first position at or after from where flag stands in what
\* the buffer held when the size was read, or -1, whatever has arrived since.
LookupIsFirst ==
  looked # NoSize =>
    \A flag \in Flags : \A from \in 0 .. looked :
      LET at == {p \in from .. looked - Len(flag) :
                   SubSeq(crcrcv, p + 1, p + Len(flag)) = flag}
      IN Lookup(crcrcv, flag, from, looked) =
           IF at = {} THEN -1 ELSE CHOOSE p \in at : \A q \in at : p <= q

=============================================================================

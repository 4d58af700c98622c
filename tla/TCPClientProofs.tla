--------------------------- MODULE TCPClientProofs ---------------------------
(***************************************************************************)
(* A buffered TCPClient, for every capacity and every length of line.      *)
(*                                                                         *)
(* What Write takes reaches the wire in order and once, and exactly one    *)
(* asynchronous write is under way while there is something to send.       *)
(* OneWriteUnderWay is what makes StreamKept inductive: a completed write  *)
(* never covers more than the buffer still holds.                          *)
(*                                                                         *)
(* If Read always starts at the front, the buffer holds what has arrived   *)
(* last, and what Read returns is in order; and Lookup finds the first     *)
(* place, with a size that is older than what it scans.                    *)
(***************************************************************************)
EXTENDS TCPClient, SequenceTheorems, WellFoundedInduction, TLAPS

\* A write fails while there are bytes to send, and they are never erased: no
\* later Write finds the buffer empty and starts a write again.
FailureSticks == failed => crcsnd # <<>>

IInv == TypeOK /\ OneWriteUnderWay /\ StreamKept /\ FailureSticks

-----------------------------------------------------------------------------
(* Sequences                                                               *)

\* Moving n elements from the front of t to the end of s keeps s \o t.
LEMMA MoveFront ==
  ASSUME NEW S, NEW s \in Seq(S), NEW t \in Seq(S), NEW n \in 1 .. Len(t)
  PROVE  /\ SubSeq(t, 1, n) \in Seq(S) /\ SubSeq(t, n + 1, Len(t)) \in Seq(S)
         /\ Len(SubSeq(t, n + 1, Len(t))) = Len(t) - n
         /\ (s \o SubSeq(t, 1, n)) \o SubSeq(t, n + 1, Len(t)) = s \o t
<1>1. SubSeq(t, 1, n) \in Seq(S) /\ SubSeq(t, n + 1, Len(t)) \in Seq(S)
  OBVIOUS
<1>2. Len(SubSeq(t, n + 1, Len(t))) = Len(t) - n
  OBVIOUS
<1>3. SubSeq(t, 1, n) \o SubSeq(t, n + 1, Len(t)) = t
  <2> DEFINE u == SubSeq(t, 1, n) \o SubSeq(t, n + 1, Len(t))
  <2>1. u \in Seq(S) /\ Len(u) = Len(t)
    BY <1>1
  <2>2. \A i \in 1 .. Len(t) : u[i] = t[i]
    BY <1>1
  <2>3. QED
    BY <2>1, <2>2, SeqEqual
<1>4. (s \o SubSeq(t, 1, n)) \o SubSeq(t, n + 1, Len(t))
      = s \o (SubSeq(t, 1, n) \o SubSeq(t, n + 1, Len(t)))
  <2> DEFINE u == SubSeq(t, 1, n)
             v == SubSeq(t, n + 1, Len(t))
  <2>1. u \in Seq(S) /\ v \in Seq(S)
    BY <1>1
  <2> HIDE DEF u, v
  <2>2. (s \o u) \o v = s \o (u \o v)
    BY <2>1
  <2>3. QED
    BY <2>2 DEF u, v
<1>5. QED
  BY <1>1, <1>2, <1>3, <1>4

\* A sequence is empty exactly if it has length 0,
LEMMA EmptyLen ==
  ASSUME NEW S, NEW s \in Seq(S)
  PROVE  s = <<>> <=> Len(s) = 0
  OBVIOUS

\* and the tail of one of length 1 is.
LEMMA TailOfOne ==
  ASSUME NEW S, NEW s \in Seq(S), Len(s) = 1
  PROVE  Tail(s) = <<>>
<1>1. s # <<>>
  BY EmptyLen
<1>2. Tail(s) \in Seq(S) /\ Len(Tail(s)) = Len(s) - 1
  BY <1>1, HeadTailProperties
<1>3. Len(Tail(s)) = 0
  BY <1>2
<1>4. QED
  BY <1>2, <1>3, EmptyLen

USE CapacityAssumption, LengthAssumption
USE DEF sendvars, rcvvars

\* What the circular buffer keeps when a byte is pushed.
LEMMA NewestFits ==
  ASSUME NEW S, NEW s \in Seq(S), NEW e \in S, Len(s) <= Capacity
  PROVE  Newest(Append(s, e)) \in Seq(S) /\ Len(Newest(Append(s, e))) <= Capacity
  BY DEF Newest

-----------------------------------------------------------------------------
(* Every step preserves IInv                                               *)

LEMMA WriteKeeps ==
  ASSUME IInv, NEW len \in Lengths, Write(len)
  PROVE  IInv'
<1> DEFINE n     == Room(len)
           bytes == [i \in 1 .. n |-> asked + i]
<1>1. /\ crcsnd \in Seq(Nat) /\ accepted \in Seq(Nat) /\ wire \in Seq(Nat)
      /\ asked \in Nat /\ len \in Nat \ {0} /\ Len(crcsnd) <= Capacity
      /\ wire \o crcsnd = accepted
  BY DEF IInv, TypeOK, StreamKept
<1>2. n \in Nat /\ Len(crcsnd) + n <= Capacity
  BY <1>1 DEF Room
<1>3. bytes \in Seq(Nat) /\ Len(bytes) = n
  <2>1. \A i \in 1 .. n : asked + i \in Nat
    BY <1>1, <1>2
  <2> HIDE DEF n
  <2>2. bytes \in [1 .. n -> Nat]
    BY <2>1
  <2>3. QED
    BY <1>2, <2>2
<1> HIDE DEF n, bytes
<1>4. /\ crcsnd' = crcsnd \o bytes /\ accepted' = accepted \o bytes
      /\ asked' = asked + len /\ UNCHANGED <<failed, wire, rcvvars>>
      /\ sending' = IF crcsnd = <<>> /\ n # 0
                    THEN IF crcsnd' = <<>> THEN sending ELSE Append(sending, Len(crcsnd'))
                    ELSE sending
  BY DEF Write, StartWrite, n, bytes
<1>5. /\ crcsnd' \in Seq(Nat) /\ Len(crcsnd') = Len(crcsnd) + n
      /\ accepted' \in Seq(Nat) /\ asked' \in Nat
  <2>1. asked' \in Nat
    BY <1>1, <1>4
  <2>2. crcsnd \o bytes \in Seq(Nat) /\ Len(crcsnd \o bytes) = Len(crcsnd) + Len(bytes)
    BY <1>1, <1>3, ConcatProperties, Zenon
  <2>3. accepted \o bytes \in Seq(Nat)
    BY <1>1, <1>3, ConcatProperties, Zenon
  <2>4. QED
    BY <1>3, <1>4, <2>1, <2>2, <2>3
<1>6. TypeOK'
  BY <1>1, <1>2, <1>4, <1>5 DEF IInv, TypeOK
<1>7. (crcsnd' = <<>>) <=> (crcsnd = <<>> /\ n = 0)
  <2>1. (crcsnd = <<>> <=> Len(crcsnd) = 0) /\ (crcsnd' = <<>> <=> Len(crcsnd') = 0)
    BY <1>1, <1>5, EmptyLen
  <2>2. QED
    BY <1>1, <1>2, <1>5, <2>1
<1>8. OneWriteUnderWay' /\ FailureSticks'
  <2>1. /\ sending \in Seq(Nat) /\ failed \in BOOLEAN /\ failed' = failed
        /\ Len(sending) = IF crcsnd = <<>> \/ failed THEN 0 ELSE 1
        /\ sending # <<>> => Head(sending) \in 1 .. Len(crcsnd)
        /\ failed => crcsnd # <<>>
    BY <1>4 DEF IInv, TypeOK, OneWriteUnderWay, FailureSticks
  <2>2. CASE crcsnd = <<>> /\ n # 0
    <3>1. crcsnd' # <<>> /\ sending = <<>> /\ ~failed
      BY <1>7, <2>1, <2>2
    <3>2. Len(crcsnd') \in Nat \ {0}
      BY <1>2, <1>5, <2>2
    <3>3. sending' = <<Len(crcsnd')>>
      BY <1>4, <2>2, <3>1
    <3>4. Len(sending') = 1 /\ Head(sending') \in 1 .. Len(crcsnd')
      BY <3>2, <3>3
    <3>5. QED
      BY <2>1, <3>1, <3>4 DEF OneWriteUnderWay, FailureSticks
  <2>3. CASE ~(crcsnd = <<>> /\ n # 0)
    <3>1. sending' = sending /\ (crcsnd' = <<>> <=> crcsnd = <<>>)
      BY <1>4, <1>7, <2>3
    <3>2. 1 .. Len(crcsnd) \subseteq 1 .. Len(crcsnd')
      BY <1>1, <1>2, <1>5
    <3>3. QED
      BY <2>1, <3>1, <3>2 DEF OneWriteUnderWay, FailureSticks
  <2>4. QED
    BY <2>2, <2>3
<1>9. StreamKept'
  <2>1. (wire \o crcsnd) \o bytes = wire \o (crcsnd \o bytes)
    <3>1. crcsnd \in Seq(Nat) /\ wire \in Seq(Nat) /\ bytes \in Seq(Nat)
      BY <1>1, <1>3
    <3>2. QED
      BY <3>1
  <2>2. wire' = wire /\ wire \o crcsnd = accepted
    BY <1>1, <1>4
  <2>3. QED
    BY <1>4, <2>1, <2>2 DEF StreamKept
<1>10. QED
  BY <1>6, <1>8, <1>9 DEF IInv

LEMMA HandleWriteKeeps ==
  ASSUME IInv, NEW n \in 1 .. Capacity, HandleWrite(n)
  PROVE  IInv'
<1>1. /\ crcsnd \in Seq(Nat) /\ accepted \in Seq(Nat) /\ wire \in Seq(Nat)
      /\ sending \in Seq(Nat) /\ Len(crcsnd) <= Capacity
      /\ wire \o crcsnd = accepted
      /\ Len(sending) = IF crcsnd = <<>> \/ failed THEN 0 ELSE 1
      /\ sending # <<>> => Head(sending) \in 1 .. Len(crcsnd)
  BY DEF IInv, TypeOK, StreamKept, OneWriteUnderWay
<1>2. /\ sending # <<>> /\ n <= Head(sending)
      /\ wire' = wire \o SubSeq(crcsnd, 1, n)
      /\ crcsnd' = SubSeq(crcsnd, n + 1, Len(crcsnd))
      /\ sending' = IF crcsnd' = <<>> THEN Tail(sending) ELSE Append(Tail(sending), Len(crcsnd'))
      /\ UNCHANGED <<failed, asked, accepted, rcvvars>>
  BY DEF HandleWrite, StartWrite
<1>3. n \in 1 .. Len(crcsnd) /\ Len(sending) = 1
  <2>1. Len(sending) = 1
    BY <1>1, <1>2, EmptyLen
  <2>2. Head(sending) \in 1 .. Len(crcsnd) /\ Len(crcsnd) \in Nat
    BY <1>1, <1>2
  <2>3. QED
    BY <1>2, <2>1, <2>2
<1>4. ~failed /\ Tail(sending) = <<>>
  <2>1. ~failed
    <3>1. Len(sending) = IF crcsnd = <<>> \/ failed THEN 0 ELSE 1
      BY <1>1
    <3>2. QED
      BY <1>3, <3>1
  <2>2. Tail(sending) = <<>>
    BY <1>1, <1>3, TailOfOne, Zenon
  <2>3. QED
    BY <2>1, <2>2
<1>5. /\ SubSeq(crcsnd, 1, n) \in Seq(Nat) /\ crcsnd' \in Seq(Nat)
      /\ Len(crcsnd') = Len(crcsnd) - n
      /\ wire' \o crcsnd' = wire \o crcsnd
  <2>1. /\ SubSeq(crcsnd, 1, n) \in Seq(Nat) /\ SubSeq(crcsnd, n + 1, Len(crcsnd)) \in Seq(Nat)
        /\ Len(SubSeq(crcsnd, n + 1, Len(crcsnd))) = Len(crcsnd) - n
        /\ (wire \o SubSeq(crcsnd, 1, n)) \o SubSeq(crcsnd, n + 1, Len(crcsnd)) = wire \o crcsnd
    <3>1. crcsnd \in Seq(Nat) /\ wire \in Seq(Nat)
      BY <1>1
    <3>2. \A s, t \in Seq(Nat) : \A m \in 1 .. Len(t) :
            /\ SubSeq(t, 1, m) \in Seq(Nat) /\ SubSeq(t, m + 1, Len(t)) \in Seq(Nat)
            /\ Len(SubSeq(t, m + 1, Len(t))) = Len(t) - m
            /\ (s \o SubSeq(t, 1, m)) \o SubSeq(t, m + 1, Len(t)) = s \o t
      BY MoveFront
    <3>3. QED
      BY <1>3, <3>1, <3>2
  <2>2. QED
    BY <1>2, <2>1
<1>6. sending' = IF crcsnd' = <<>> THEN <<>> ELSE <<Len(crcsnd')>>
  <2>1. sending' = IF crcsnd' = <<>> THEN <<>> ELSE Append(<<>>, Len(crcsnd'))
    BY <1>2, <1>4
  <2>2. Append(<<>>, Len(crcsnd')) = <<Len(crcsnd')>>
    OBVIOUS
  <2>3. QED
    BY <2>1, <2>2
<1>7. TypeOK'
  <2>1. wire' \in Seq(Nat) /\ Len(crcsnd') \in Nat /\ Len(crcsnd') <= Capacity
    <3>1. Len(crcsnd) \in Nat /\ Capacity \in Nat
      BY <1>1
    <3>2. Len(crcsnd') \in Nat /\ Len(crcsnd') <= Capacity
      BY <1>1, <1>3, <1>5, <3>1
    <3>3. wire' \in Seq(Nat)
      BY <1>1, <1>2, <1>5
    <3>4. QED
      BY <3>2, <3>3
  <2>2. sending' \in Seq(Nat)
    BY <1>6, <2>1
  <2>3. QED
    BY <1>2, <1>5, <2>1, <2>2 DEF IInv, TypeOK
<1>8. OneWriteUnderWay' /\ FailureSticks'
  <2>1. ~failed'
    BY <1>2, <1>4
  <2>2. CASE crcsnd' = <<>>
    BY <1>6, <2>1, <2>2 DEF OneWriteUnderWay, FailureSticks
  <2>3. CASE crcsnd' # <<>>
    <3>1. Len(crcsnd') \in Nat \ {0}
      BY <1>5, <2>3
    <3>2. Len(sending') = 1 /\ Head(sending') \in 1 .. Len(crcsnd')
      BY <1>6, <2>3, <3>1
    <3>3. QED
      BY <2>1, <2>3, <3>2 DEF OneWriteUnderWay, FailureSticks
  <2>4. QED
    BY <2>2, <2>3
<1>9. StreamKept'
  BY <1>1, <1>2, <1>5 DEF StreamKept
<1>10. QED
  BY <1>7, <1>8, <1>9 DEF IInv

LEMMA HandleWriteErrorKeeps ==
  ASSUME IInv, HandleWriteError
  PROVE  IInv'
<1>1. /\ crcsnd \in Seq(Nat) /\ sending \in Seq(Nat)
      /\ Len(sending) = IF crcsnd = <<>> \/ failed THEN 0 ELSE 1
      /\ sending # <<>> /\ sending' = Tail(sending) /\ failed' = TRUE
      /\ UNCHANGED <<crcsnd, asked, accepted, wire, rcvvars>>
  BY DEF IInv, TypeOK, OneWriteUnderWay, HandleWriteError
<1>2. Len(sending) = 1 /\ crcsnd # <<>>
  BY <1>1, EmptyLen
<1>3. sending' = <<>>
  BY <1>1, <1>2, TailOfOne
<1>4. sending' \in Seq(Nat) /\ Len(sending') = 0
  BY <1>3
<1>5. TypeOK' /\ StreamKept'
  BY <1>1, <1>4 DEF IInv, TypeOK, StreamKept
<1>6. OneWriteUnderWay' /\ FailureSticks'
  BY <1>1, <1>2, <1>3, <1>4 DEF OneWriteUnderWay, FailureSticks
<1>7. QED
  BY <1>5, <1>6 DEF IInv

\* The send path does not see what the receive path does.
LEMMA ReceivingKeeps ==
  ASSUME IInv, UNCHANGED sendvars,
         crcrcv' \in Seq(Letters), rcvd' \in Seq(Letters), taken' \in Seq(Letters),
         Len(crcrcv') <= Capacity, overwritten' \in Nat,
         looked' \in {NoSize} \cup 0 .. Len(crcrcv')
  PROVE  IInv'
  BY DEF IInv, TypeOK, StreamKept, OneWriteUnderWay, FailureSticks

\* handle_read makes the buffer longer, until it is full: one byte more, or the
\* first one lost.
LEMMA Pushed ==
  ASSUME IInv, NEW c \in Letters, HandleRead(c)
  PROVE  /\ crcrcv' \in Seq(Letters) /\ Len(crcrcv') <= Capacity
         /\ rcvd' = Append(rcvd, c) /\ UNCHANGED <<sendvars, looked, taken>>
         /\ \/ /\ crcrcv' = Append(crcrcv, c) /\ overwritten' = overwritten
               /\ Len(crcrcv') = Len(crcrcv) + 1
            \/ /\ crcrcv' = SubSeq(Append(crcrcv, c), 2, Len(crcrcv) + 1)
               /\ overwritten' = overwritten + 1
               /\ Len(crcrcv') = Len(crcrcv)
<1>1. /\ crcrcv \in Seq(Letters) /\ Len(crcrcv) <= Capacity /\ overwritten \in Nat
  BY DEF IInv, TypeOK
<1>2. /\ crcrcv' = Newest(Append(crcrcv, c)) /\ rcvd' = Append(rcvd, c)
      /\ overwritten' = overwritten + Len(crcrcv) + 1 - Len(crcrcv')
      /\ UNCHANGED <<sendvars, looked, taken>>
  BY DEF HandleRead
<1>3. crcrcv' \in Seq(Letters) /\ Len(crcrcv') <= Capacity
  BY <1>1, <1>2, NewestFits
<1> DEFINE more == Append(crcrcv, c)
<1>4. more \in Seq(Letters) /\ Len(more) = Len(crcrcv) + 1
  BY <1>1
<1>5. CASE Len(crcrcv) < Capacity
  <2>1. crcrcv' = more
    BY <1>1, <1>2, <1>4, <1>5 DEF Newest
  <2>2. QED
    BY <1>1, <1>2, <1>3, <1>4, <2>1
<1>6. CASE Len(crcrcv) = Capacity
  <2>1. Newest(more) = SubSeq(more, Len(more) - Capacity + 1, Len(more))
    <3> HIDE DEF more
    <3>1. QED
      BY <1>1, <1>4, <1>6 DEF Newest
  <2>2. crcrcv' = SubSeq(more, 2, Len(crcrcv) + 1)
    <3>1. Len(more) - Capacity + 1 = 2
      BY <1>1, <1>4, <1>6
    <3> HIDE DEF more
    <3>2. Newest(more) = SubSeq(more, 2, Len(crcrcv) + 1)
      BY <1>4, <2>1, <3>1
    <3>3. QED
      BY <1>2, <3>2 DEF more
  <2>3. Len(crcrcv') = Len(crcrcv)
    <3> HIDE DEF more
    <3>1. QED
      BY <1>1, <1>4, <2>2
  <2>4. Len(crcrcv) \in Nat /\ overwritten' = overwritten + Len(crcrcv) + 1 - Len(crcrcv')
    BY <1>1, <1>2
  <2>5. overwritten' = overwritten + 1
    BY <1>1, <2>3, <2>4
  <2>6. QED
    BY <1>2, <1>3, <2>2, <2>3, <2>5
<1>7. QED
  BY <1>1, <1>5, <1>6

LEMMA HandleReadKeeps ==
  ASSUME IInv, NEW c \in Letters, HandleRead(c)
  PROVE  IInv'
<1>1. /\ rcvd \in Seq(Letters) /\ taken \in Seq(Letters) /\ crcrcv \in Seq(Letters)
      /\ overwritten \in Nat /\ looked \in {NoSize} \cup 0 .. Len(crcrcv)
  BY DEF IInv, TypeOK
<1>2. rcvd' \in Seq(Letters) /\ taken' \in Seq(Letters)
  <2>1. rcvd' = Append(rcvd, c) /\ taken' = taken
    BY Pushed
  <2>2. QED
    BY <1>1, <2>1
<1>3. overwritten' \in Nat /\ looked' \in {NoSize} \cup 0 .. Len(crcrcv')
  <2>1. Len(crcrcv) \in Nat /\ Len(crcrcv') \in {Len(crcrcv), Len(crcrcv) + 1}
    BY <1>1, Pushed
  <2>2. overwritten' \in {overwritten, overwritten + 1} /\ looked' = looked
    BY Pushed
  <2>3. QED
    BY <1>1, <2>1, <2>2
<1>4. QED
  BY <1>2, <1>3, Pushed, ReceivingKeeps

\* A Lookup holds a size that the buffer keeps: only its own thread reads.
LEMMA LookingKeeps ==
  ASSUME IInv, LookupSize \/ LookupScan
  PROVE  IInv'
<1>1. /\ crcrcv \in Seq(Letters) /\ rcvd \in Seq(Letters) /\ taken \in Seq(Letters)
      /\ Len(crcrcv) <= Capacity /\ overwritten \in Nat
  BY DEF IInv, TypeOK
<1>2. /\ UNCHANGED <<sendvars, crcrcv, rcvd, taken, overwritten>>
      /\ looked' \in {NoSize, Len(crcrcv)}
  BY DEF LookupSize, LookupScan
<1>3. looked' \in {NoSize} \cup 0 .. Len(crcrcv')
  BY <1>1, <1>2
<1>4. QED
  BY <1>1, <1>2, <1>3, ReceivingKeeps

LEMMA ReadKeeps ==
  ASSUME IInv, NEW len \in 1 .. Capacity, NEW from \in ReadFrom, Read(len, from)
  PROVE  IInv'
<1> DEFINE last   == IF from + len < Len(crcrcv) THEN from + len ELSE Len(crcrcv)
           copied == Copied(len, from)
<1>1. /\ crcrcv \in Seq(Letters) /\ rcvd \in Seq(Letters) /\ taken \in Seq(Letters)
      /\ Len(crcrcv) <= Capacity /\ from \in Nat
  BY BoundAssumption DEF IInv, TypeOK
<1>2. /\ copied # <<>> /\ taken' = taken \o copied
      /\ crcrcv' = SubSeq(crcrcv, Len(copied) + 1, Len(crcrcv))
      /\ rcvd' = rcvd /\ UNCHANGED <<sendvars, looked, overwritten>>
      /\ looked = NoSize /\ overwritten \in Nat
  BY DEF Read, IInv, TypeOK
<1>3. copied \in Seq(Letters) /\ Len(copied) \in Nat
  <2>1. last \in Nat /\ last <= Len(crcrcv) /\ copied = SubSeq(crcrcv, from + 1, last)
    BY <1>1 DEF Copied
  <2> HIDE DEF last, copied
  <2>2. QED
    BY <1>1, <2>1
<1> HIDE DEF copied
<1>4. crcrcv' \in Seq(Letters) /\ Len(crcrcv') <= Capacity
  BY <1>1, <1>2, <1>3
<1>5. rcvd' \in Seq(Letters) /\ taken' \in Seq(Letters)
  BY <1>1, <1>2, <1>3
<1>6. QED
  BY <1>2, <1>4, <1>5, ReceivingKeeps

-----------------------------------------------------------------------------
(* The theorems                                                            *)

\* Every reachable state of the client satisfies the inductive invariant.
THEOREM Invariance == Spec => []IInv
<1>1. Init => IInv
  <2> SUFFICES ASSUME Init PROVE IInv
    OBVIOUS
  <2>1. /\ crcsnd = <<>> /\ sending = <<>> /\ failed = FALSE
        /\ asked = 0 /\ accepted = <<>> /\ wire = <<>>
        /\ crcrcv = <<>> /\ rcvd = <<>> /\ taken = <<>>
        /\ looked = NoSize /\ overwritten = 0
    BY DEF Init
  <2>2. /\ <<>> \in Seq(Nat) /\ <<>> \in Seq(Letters)
        /\ <<>> \o <<>> = <<>> /\ Len(<<>>) = 0 /\ 0 <= Capacity
    OBVIOUS
  <2>3. TypeOK
    BY <2>1, <2>2 DEF TypeOK
  <2>4. OneWriteUnderWay /\ StreamKept /\ FailureSticks
    BY <2>1, <2>2 DEF StreamKept, OneWriteUnderWay, FailureSticks
  <2>5. QED
    BY <2>3, <2>4 DEF IInv
<1>2. IInv /\ [Next]_vars => IInv'
  <2> SUFFICES ASSUME IInv, [Next]_vars PROVE IInv'
    OBVIOUS
  <2>1. ASSUME NEW len \in Lengths, Write(len) PROVE IInv'
    BY <2>1, WriteKeeps
  <2>2. ASSUME NEW n \in 1 .. Capacity, HandleWrite(n) PROVE IInv'
    BY <2>2, HandleWriteKeeps
  <2>3. CASE HandleWriteError
    BY <2>3, HandleWriteErrorKeeps
  <2>4. ASSUME NEW c \in Letters, HandleRead(c) PROVE IInv'
    BY <2>4, HandleReadKeeps
  <2>5. ASSUME NEW len \in 1 .. Capacity, NEW from \in ReadFrom, Read(len, from) PROVE IInv'
    BY <2>5, ReadKeeps
  <2>6. CASE LookupSize \/ LookupScan
    BY <2>6, LookingKeeps
  <2>7. CASE UNCHANGED vars
    BY <2>7 DEF vars, IInv, TypeOK, StreamKept, OneWriteUnderWay, FailureSticks
  <2>8. QED
    BY <2>1, <2>2, <2>3, <2>4, <2>5, <2>6, <2>7 DEF Next
<1>3. QED
  BY <1>1, <1>2, PTL DEF Spec

\* The circular buffers of UseBuffer never hold more than their capacity,
\* whatever Write is given and however much arrives.
THEOREM ClientTypeCorrect == Spec => []TypeOK
<1>1. IInv => TypeOK
  BY DEF IInv
<1>2. QED
  BY <1>1, Invariance, PTL

\* What Write takes is sent in order, each byte once, for partial writes of any
\* size: handle_write erases exactly what was sent.
THEOREM SentInOrder == Spec => []StreamKept
<1>1. IInv => StreamKept
  BY DEF IInv
<1>2. QED
  BY <1>1, Invariance, PTL

\* Write and handle_write between them keep exactly one async_write_some under
\* way while there is something to send, until one fails.
THEOREM SingleWrite == Spec => []OneWriteUnderWay
<1>1. IInv => OneWriteUnderWay
  BY DEF IInv
<1>2. QED
  BY <1>1, Invariance, PTL

-----------------------------------------------------------------------------
(* What Read returns                                                       *)

\* What the end of r, from g on, is after its first n elements are gone,
LEMMA EndOfEnd ==
  ASSUME NEW S, NEW r \in Seq(S), NEW g \in 0 .. Len(r), NEW n \in 0 .. Len(r) - g
  PROVE  LET s == SubSeq(r, g + 1, Len(r))
         IN /\ Len(s) = Len(r) - g
            /\ SubSeq(s, n + 1, Len(s)) = SubSeq(r, g + n + 1, Len(r))
            /\ SubSeq(r, 1, g) \o SubSeq(s, 1, n) = SubSeq(r, 1, g + n)
<1> DEFINE s == SubSeq(r, g + 1, Len(r))
           t == SubSeq(s, n + 1, Len(s))
           u == SubSeq(r, g + n + 1, Len(r))
           v == SubSeq(r, 1, g)
           w == SubSeq(s, 1, n)
           x == SubSeq(r, 1, g + n)
<1>1. Len(r) \in Nat /\ g \in Nat /\ n \in Nat /\ g + n <= Len(r)
  OBVIOUS
<1>2. s \in Seq(S) /\ Len(s) = Len(r) - g /\ \A i \in 1 .. Len(r) - g : s[i] = r[g + i]
  BY <1>1
<1>3. u \in Seq(S) /\ Len(u) = Len(r) - g - n /\ \A i \in 1 .. Len(r) - g - n : u[i] = r[g + n + i]
  BY <1>1
<1>4. v \in Seq(S) /\ Len(v) = g /\ \A i \in 1 .. g : v[i] = r[i]
  BY <1>1
<1>5. x \in Seq(S) /\ Len(x) = g + n /\ \A i \in 1 .. g + n : x[i] = r[i]
  BY <1>1
<1> HIDE DEF s, u, v, x
<1>6. t \in Seq(S) /\ Len(t) = Len(r) - g - n /\ \A i \in 1 .. Len(r) - g - n : t[i] = s[n + i]
  BY <1>1, <1>2
<1>7. w \in Seq(S) /\ Len(w) = n /\ \A i \in 1 .. n : w[i] = s[i]
  BY <1>1, <1>2
<1> HIDE DEF t, w
<1>8. t = u
  <2>1. \A i \in 1 .. Len(r) - g - n : t[i] = u[i]
    <3> SUFFICES ASSUME NEW i \in 1 .. Len(r) - g - n PROVE t[i] = u[i]
      OBVIOUS
    <3>1. n + i \in 1 .. Len(r) - g /\ g + (n + i) = g + n + i
      BY <1>1
    <3>2. QED
      BY <1>2, <1>3, <1>6, <3>1
  <2>2. QED
    BY <1>3, <1>6, <2>1, SeqEqual
<1>9. v \o w = x
  <2> DEFINE y == v \o w
  <2>1. /\ y \in Seq(S) /\ Len(y) = g + n
        /\ \A i \in 1 .. g + n : y[i] = IF i <= g THEN v[i] ELSE w[i - g]
    <3>1. v \in Seq(S) /\ w \in Seq(S) /\ Len(v) = g /\ Len(w) = n
      BY <1>4, <1>7
    <3>2. \A a, b \in Seq(S) :
            /\ a \o b \in Seq(S) /\ Len(a \o b) = Len(a) + Len(b)
            /\ \A i \in 1 .. Len(a) + Len(b) : (a \o b)[i] = IF i <= Len(a) THEN a[i] ELSE b[i - Len(a)]
      OBVIOUS
    <3>3. QED
      BY <3>1, <3>2
  <2> HIDE DEF y
  <2>2. \A i \in 1 .. g + n : y[i] = x[i]
    <3> SUFFICES ASSUME NEW i \in 1 .. g + n PROVE y[i] = x[i]
      OBVIOUS
    <3>1. CASE i <= g
      <4>1. i \in 1 .. g
        BY <1>1, <3>1
      <4>2. QED
        BY <1>4, <1>5, <2>1, <3>1, <4>1
    <3>2. CASE ~(i <= g)
      <4>1. i - g \in 1 .. n /\ i - g \in 1 .. Len(r) - g /\ g + (i - g) = i
        BY <1>1, <3>2
      <4>2. QED
        BY <1>2, <1>5, <1>7, <2>1, <3>2, <4>1
    <3>3. QED
      BY <3>1, <3>2
  <2>3. QED
    BY <1>5, <2>1, <2>2, SeqEqual DEF y
<1>10. QED
  BY <1>2, <1>8, <1>9 DEF s, t, u, v, w, x

\* and after an element is appended to r.
LEMMA EndOfLonger ==
  ASSUME NEW S, NEW r \in Seq(S), NEW g \in 0 .. Len(r), NEW e \in S
  PROVE  LET s == SubSeq(r, g + 1, Len(r))
             q == Append(r, e)
         IN /\ Append(s, e) = SubSeq(q, g + 1, Len(q))
            /\ SubSeq(q, 1, g) = SubSeq(r, 1, g)
<1> DEFINE s == SubSeq(r, g + 1, Len(r))
           q == Append(r, e)
           t == Append(s, e)
           u == SubSeq(q, g + 1, Len(q))
<1>1. Len(r) \in Nat /\ g \in Nat /\ g <= Len(r)
  OBVIOUS
<1>2. q \in Seq(S) /\ Len(q) = Len(r) + 1 /\ \A i \in 1 .. Len(r) + 1 : q[i] = IF i <= Len(r) THEN r[i] ELSE e
  BY <1>1
<1>3. s \in Seq(S) /\ Len(s) = Len(r) - g /\ \A i \in 1 .. Len(r) - g : s[i] = r[g + i]
  BY <1>1
<1> HIDE DEF q, s
<1>4. t \in Seq(S) /\ Len(t) = Len(r) - g + 1
      /\ \A i \in 1 .. Len(r) - g + 1 : t[i] = IF i <= Len(r) - g THEN s[i] ELSE e
  <2>1. s \in Seq(S) /\ Len(s) = Len(r) - g
    BY <1>3
  <2>2. \A a \in Seq(S) :
          /\ Append(a, e) \in Seq(S) /\ Len(Append(a, e)) = Len(a) + 1
          /\ \A i \in 1 .. Len(a) + 1 : Append(a, e)[i] = IF i <= Len(a) THEN a[i] ELSE e
    OBVIOUS
  <2>3. QED
    BY <2>1, <2>2
<1>5. u \in Seq(S) /\ Len(u) = Len(r) - g + 1 /\ \A i \in 1 .. Len(r) - g + 1 : u[i] = q[g + i]
  BY <1>1, <1>2
<1> HIDE DEF t, u
<1>6. t = u
  <2>1. \A i \in 1 .. Len(r) - g + 1 : t[i] = u[i]
    <3> SUFFICES ASSUME NEW i \in 1 .. Len(r) - g + 1 PROVE t[i] = u[i]
      OBVIOUS
    <3>1. g + i \in 1 .. Len(r) + 1 /\ (i <= Len(r) - g <=> g + i <= Len(r))
      BY <1>1
    <3>2. CASE i <= Len(r) - g
      <4>1. i \in 1 .. Len(r) - g
        BY <1>1, <3>2
      <4>2. QED
        BY <1>2, <1>3, <1>4, <1>5, <3>1, <3>2, <4>1
    <3>3. CASE ~(i <= Len(r) - g)
      BY <1>2, <1>4, <1>5, <3>1, <3>3
    <3>4. QED
      BY <3>2, <3>3
  <2>2. QED
    BY <1>4, <1>5, <2>1, SeqEqual
<1>7. SubSeq(q, 1, g) = SubSeq(r, 1, g)
  <2> DEFINE a == SubSeq(q, 1, g)
             b == SubSeq(r, 1, g)
  <2>1. a \in Seq(S) /\ Len(a) = g /\ \A i \in 1 .. g : a[i] = q[i]
    BY <1>1, <1>2
  <2>2. b \in Seq(S) /\ Len(b) = g /\ \A i \in 1 .. g : b[i] = r[i]
    BY <1>1
  <2> HIDE DEF a, b
  <2>3. \A i \in 1 .. g : a[i] = b[i]
    <3> SUFFICES ASSUME NEW i \in 1 .. g PROVE a[i] = b[i]
      OBVIOUS
    <3>1. i \in 1 .. Len(r) + 1 /\ i <= Len(r)
      BY <1>1
    <3>2. QED
      BY <1>2, <2>1, <2>2, <3>1
  <2>4. QED
    BY <2>1, <2>2, <2>3, SeqEqual DEF a, b
<1>8. QED
  BY <1>6, <1>7 DEF q, s, t, u

\* Read(len, 0) moves the bytes it returns from the front of the buffer.
LEMMA ReadFromFront ==
  ASSUME IInv, ReadInOrder, ReadFrom \subseteq {0},
         NEW len \in 1 .. Capacity, NEW from \in ReadFrom, Read(len, from)
  PROVE  ReadInOrder'
<1> DEFINE last == IF from + len < Len(crcrcv) THEN from + len ELSE Len(crcrcv)
           gone == Len(taken) + overwritten
<1>1. /\ crcrcv \in Seq(Letters) /\ taken \in Seq(Letters) /\ rcvd \in Seq(Letters)
      /\ from = 0 /\ len \in Nat \ {0} /\ overwritten \in Nat
  BY DEF IInv, TypeOK
<1>2. Copied(len, from) = SubSeq(crcrcv, 1, last) /\ last \in 0 .. Len(crcrcv)
  BY <1>1 DEF Copied
<1> HIDE DEF last
<1>3. Len(SubSeq(crcrcv, 1, last)) = last /\ SubSeq(crcrcv, 1, last) \in Seq(Letters)
  BY <1>1, <1>2
<1>4. /\ taken' = taken \o SubSeq(crcrcv, 1, last)
      /\ crcrcv' = SubSeq(crcrcv, last + 1, Len(crcrcv))
      /\ rcvd' = rcvd /\ overwritten' = overwritten
  BY <1>2, <1>3 DEF Read
<1>5. gone \in 0 .. Len(rcvd) /\ crcrcv = SubSeq(rcvd, gone + 1, Len(rcvd))
      /\ (overwritten = 0 => taken = SubSeq(rcvd, 1, gone))
  BY <1>1 DEF ReadInOrder
<1>6. Len(crcrcv) = Len(rcvd) - gone
  <2> HIDE DEF gone
  <2>1. QED
    BY <1>1, <1>5
<1>7. Len(taken') = Len(taken) + last
  BY <1>1, <1>2, <1>3, <1>4
<1>8. /\ crcrcv' = SubSeq(rcvd, gone + last + 1, Len(rcvd))
      /\ SubSeq(rcvd, 1, gone) \o SubSeq(crcrcv, 1, last) = SubSeq(rcvd, 1, gone + last)
  <2> HIDE DEF gone
  <2>1. last \in 0 .. Len(rcvd) - gone
    BY <1>2, <1>6
  <2>2. LET s == SubSeq(rcvd, gone + 1, Len(rcvd))
        IN /\ Len(s) = Len(rcvd) - gone
           /\ SubSeq(s, last + 1, Len(s)) = SubSeq(rcvd, gone + last + 1, Len(rcvd))
           /\ SubSeq(rcvd, 1, gone) \o SubSeq(s, 1, last) = SubSeq(rcvd, 1, gone + last)
    BY <1>1, <1>5, <2>1, EndOfEnd
  <2>3. QED
    BY <1>4, <1>5, <2>2
<1>9. Len(taken') + overwritten' = gone + last /\ gone + last <= Len(rcvd)
  <2>1. Len(taken') + overwritten' = gone + last
    <3>1. Len(taken) \in Nat /\ last \in Nat /\ Len(taken') = Len(taken) + last
      BY <1>1, <1>2, <1>7
    <3>2. overwritten' = overwritten /\ overwritten \in Nat
      BY <1>1, <1>4
    <3>3. QED
      BY <3>1, <3>2
  <2> HIDE DEF gone
  <2>2. gone + last <= Len(rcvd)
    <3>1. last <= Len(rcvd) - gone /\ last \in Nat /\ Len(rcvd) \in Nat /\ gone \in Nat
      BY <1>1, <1>2, <1>5, <1>6
    <3>2. QED
      BY <3>1
  <2>3. QED
    BY <2>1, <2>2
<1>10. overwritten' = 0 => taken' = SubSeq(rcvd', 1, gone + last)
  BY <1>4, <1>5, <1>8
<1> HIDE DEF gone
<1>11. QED
  BY <1>4, <1>8, <1>9, <1>10 DEF ReadInOrder

\* handle_read appends to both; a full buffer loses its first byte, the oldest
\* of those that have not been read.
LEMMA HandleReadInOrder ==
  ASSUME IInv, ReadInOrder, NEW c \in Letters, HandleRead(c)
  PROVE  ReadInOrder'
<1> DEFINE gone == Len(taken) + overwritten
           more == Append(crcrcv, c)
<1>1. /\ crcrcv \in Seq(Letters) /\ taken \in Seq(Letters) /\ rcvd \in Seq(Letters)
      /\ overwritten \in Nat
  BY DEF IInv, TypeOK
<1>2. gone \in 0 .. Len(rcvd) /\ crcrcv = SubSeq(rcvd, gone + 1, Len(rcvd))
      /\ (overwritten = 0 => taken = SubSeq(rcvd, 1, gone))
  BY <1>1 DEF ReadInOrder
<1>3. rcvd' = Append(rcvd, c) /\ taken' = taken
  BY Pushed
<1>4. rcvd' \in Seq(Letters) /\ Len(rcvd') = Len(rcvd) + 1
  BY <1>1, <1>3
<1>5. /\ more = SubSeq(rcvd', gone + 1, Len(rcvd'))
      /\ SubSeq(rcvd', 1, gone) = SubSeq(rcvd, 1, gone)
  <2> HIDE DEF gone
  <2>1. LET s == SubSeq(rcvd, gone + 1, Len(rcvd))
            q == Append(rcvd, c)
        IN /\ Append(s, c) = SubSeq(q, gone + 1, Len(q))
           /\ SubSeq(q, 1, gone) = SubSeq(rcvd, 1, gone)
    BY <1>1, <1>2, EndOfLonger
  <2>2. QED
    BY <1>2, <1>3, <2>1
<1>6. CASE crcrcv' = more /\ overwritten' = overwritten
  <2>1. Len(taken') + overwritten' = gone
    BY <1>3, <1>6
  <2>2. gone <= Len(rcvd')
    BY <1>1, <1>2, <1>4
  <2>3. overwritten' = 0 => taken' = SubSeq(rcvd', 1, gone)
    BY <1>2, <1>3, <1>5, <1>6
  <2> HIDE DEF gone, more
  <2>4. QED
    BY <1>5, <1>6, <2>1, <2>2, <2>3 DEF ReadInOrder
<1>7. CASE crcrcv' = SubSeq(more, 2, Len(crcrcv) + 1) /\ overwritten' = overwritten + 1
  <2>1. Len(taken') + overwritten' = gone + 1
    BY <1>1, <1>3, <1>7
  <2>2. gone + 1 <= Len(rcvd') /\ gone \in 0 .. Len(rcvd')
    BY <1>1, <1>2, <1>4
  <2>3. crcrcv' = SubSeq(rcvd', gone + 1 + 1, Len(rcvd'))
    <3>1. Len(more) = Len(crcrcv) + 1
      BY <1>1
    <3> HIDE DEF gone, more
    <3>2. 1 \in 0 .. Len(rcvd') - gone
      BY <1>4, <2>2
    <3>3. LET s == SubSeq(rcvd', gone + 1, Len(rcvd'))
          IN /\ Len(s) = Len(rcvd') - gone
             /\ SubSeq(s, 1 + 1, Len(s)) = SubSeq(rcvd', gone + 1 + 1, Len(rcvd'))
             /\ SubSeq(rcvd', 1, gone) \o SubSeq(s, 1, 1) = SubSeq(rcvd', 1, gone + 1)
      BY <1>4, <2>2, <3>2, EndOfEnd
    <3>4. SubSeq(more, 1 + 1, Len(more)) = SubSeq(rcvd', gone + 1 + 1, Len(rcvd'))
      BY <1>5, <3>3
    <3>5. 1 + 1 = 2
      OBVIOUS
    <3>6. QED
      BY <1>7, <3>1, <3>4, <3>5
  <2>4. overwritten' # 0
    BY <1>1, <1>7
  <2> HIDE DEF gone, more
  <2>5. QED
    BY <2>1, <2>2, <2>3, <2>4 DEF ReadInOrder
<1>8. QED
  BY <1>6, <1>7, Pushed

\* A reader that starts at position 0 finds the newest bytes in the buffer, all
\* but those it has read or has let be overwritten, however much has arrived;
\* and while nothing was overwritten it has read every byte in order, once.
THEOREM ReceivedInOrder ==
  ASSUME ReadFrom \subseteq {0}
  PROVE  Spec => []ReadInOrder
<1>1. Init => ReadInOrder
  <2> SUFFICES ASSUME Init PROVE ReadInOrder
    OBVIOUS
  <2>1. crcrcv = <<>> /\ rcvd = <<>> /\ taken = <<>> /\ overwritten = 0
    BY DEF Init
  <2>2. Len(<<>>) = 0 /\ SubSeq(<<>>, 1, 0) = <<>> /\ SubSeq(<<>>, 0 + 1, 0) = <<>>
    OBVIOUS
  <2>3. QED
    BY <2>1, <2>2 DEF ReadInOrder
<1>2. IInv /\ ReadInOrder /\ [Next]_vars => ReadInOrder'
  <2> SUFFICES ASSUME IInv, ReadInOrder, [Next]_vars PROVE ReadInOrder'
    OBVIOUS
  <2>1. ASSUME UNCHANGED <<crcrcv, rcvd, taken, overwritten>> PROVE ReadInOrder'
    BY <2>1 DEF ReadInOrder
  <2>2. ASSUME NEW len \in Lengths, Write(len) PROVE ReadInOrder'
    BY <2>1, <2>2 DEF Write
  <2>3. ASSUME NEW n \in 1 .. Capacity, HandleWrite(n) PROVE ReadInOrder'
    BY <2>1, <2>3 DEF HandleWrite
  <2>4. CASE HandleWriteError
    BY <2>1, <2>4 DEF HandleWriteError
  <2>5. ASSUME NEW c \in Letters, HandleRead(c) PROVE ReadInOrder'
    BY <2>5, HandleReadInOrder
  <2>6. ASSUME NEW len \in 1 .. Capacity, NEW from \in ReadFrom, Read(len, from)
        PROVE  ReadInOrder'
    BY <2>6, ReadFromFront
  <2>7. CASE LookupSize \/ LookupScan
    BY <2>1, <2>7 DEF LookupSize, LookupScan
  <2>8. CASE UNCHANGED vars
    BY <2>1, <2>8 DEF vars
  <2>9. QED
    BY <2>2, <2>3, <2>4, <2>5, <2>6, <2>7, <2>8 DEF Next
<1>3. QED
  BY <1>1, <1>2, Invariance, PTL DEF Spec

-----------------------------------------------------------------------------
(* What Lookup finds                                                       *)

\* The positions at or after p where flag stands in the first size elements of
\* s, and the first of them.
Places(s, flag, p, size) ==
  {q \in p .. size - Len(flag) : SubSeq(s, q + 1, q + Len(flag)) = flag}

FirstPlace(s, flag, p, size) ==
  IF Places(s, flag, p, size) = {} THEN -1
  ELSE CHOOSE q \in Places(s, flag, p, size) : \A r \in Places(s, flag, p, size) : q <= r

\* A set of natural numbers has a least element.
LEMMA LeastOf ==
  ASSUME NEW T \in SUBSET Nat, T # {}
  PROVE  \E x \in T : \A y \in T : x <= y
<1> DEFINE R == {ss \in Nat \X Nat : ss[1] < ss[2]}
<1>1. OpToRel(<, Nat) = R
  BY DEF OpToRel
<1>2. IsWellFoundedOn(R, Nat)
  BY <1>1, NatLessThanWellFounded
<1> HIDE DEF R
<1>3. \E x \in T : \A y \in T : ~(<<y, x>> \in R)
  BY <1>2, WFMin
<1>4. PICK x \in T : \A y \in T : ~(<<y, x>> \in R)
  BY <1>3
<1>5. \A y \in T : x <= y
  <2> SUFFICES ASSUME NEW y \in T PROVE x <= y
    OBVIOUS
  <2>1. <<y, x>> \notin R /\ x \in Nat /\ y \in Nat
    BY <1>4
  <2>2. <<y, x>>[1] = y /\ <<y, x>>[2] = x /\ <<y, x>> \in Nat \X Nat
    BY <2>1
  <2>3. ~(y < x)
    BY <2>1, <2>2 DEF R
  <2>4. QED
    BY <2>1, <2>3
<1>6. QED
  BY <1>5

\* The comparison at p goes through all of flag exactly if flag stands there.
LEMMA MatchedAll ==
  ASSUME NEW S, NEW s \in Seq(S), NEW flag \in Seq(S),
         NEW p \in 0 .. Len(s) - Len(flag)
  PROVE  Matched(s, flag, p) = Len(flag) <=> SubSeq(s, p + 1, p + Len(flag)) = flag
<1> DEFINE L     == Len(flag)
           agree == [i \in 0 .. L |-> \A j \in 1 .. i : s[p + j] = flag[j]]
           end(i) == agree[i] /\ (i = L \/ ~agree[i + 1])
<1>1. L \in Nat /\ Len(s) \in Nat /\ p \in Nat /\ p + L <= Len(s)
  OBVIOUS
<1>2. SubSeq(s, p + 1, p + L) = flag <=> \A j \in 1 .. L : s[p + j] = flag[j]
  <2> DEFINE u == SubSeq(s, p + 1, p + L)
  <2>1. u \in Seq(S) /\ Len(u) = L /\ \A j \in 1 .. L : u[j] = s[p + j]
    BY <1>1
  <2> HIDE DEF u
  <2>2. ASSUME \A j \in 1 .. L : s[p + j] = flag[j] PROVE u = flag
    BY <2>1, <2>2, SeqEqual
  <2>3. ASSUME u = flag PROVE \A j \in 1 .. L : s[p + j] = flag[j]
    BY <2>1, <2>3
  <2>4. QED
    BY <2>2, <2>3 DEF u
<1>3. Matched(s, flag, p) = CHOOSE i \in 0 .. L : end(i)
  BY DEF Matched
<1>4. \A i \in 0 .. L : agree[i] <=> \A j \in 1 .. i : s[p + j] = flag[j]
  OBVIOUS
<1> HIDE DEF agree
<1>5. \E i \in 0 .. L : end(i)
  <2> DEFINE T == {i \in 0 .. L : i = L \/ ~agree[i + 1]}
  <2>1. L \in T /\ T \in SUBSET Nat
    BY <1>1
  <2>2. PICK i \in T : \A k \in T : i <= k
    BY <2>1, LeastOf
  <2>3. i \in 0 .. L /\ (i = L \/ ~agree[i + 1])
    OBVIOUS
  <2>4. agree[i]
    <3>1. CASE i = 0
      <4>1. 1 .. i = {}
        BY <3>1
      <4>2. QED
        BY <1>4, <2>3, <4>1
    <3>2. CASE i # 0
      <4>1. i - 1 \in 0 .. L /\ (i - 1) + 1 = i /\ ~(i <= i - 1) /\ i - 1 # L
        BY <1>1, <2>3, <3>2
      <4>2. i - 1 \notin T
        BY <2>2, <4>1
      <4>3. QED
        BY <4>1, <4>2
    <3>3. QED
      BY <3>1, <3>2
  <2>5. QED
    BY <2>3, <2>4
<1>6. ASSUME Matched(s, flag, p) = L PROVE agree[L]
  BY <1>3, <1>5, <1>6
<1>7. ASSUME agree[L] PROVE Matched(s, flag, p) = L
  <2>1. \A i \in 0 .. L : agree[i]
    <3> SUFFICES ASSUME NEW i \in 0 .. L PROVE agree[i]
      OBVIOUS
    <3>1. L \in 0 .. L /\ 1 .. i \subseteq 1 .. L
      BY <1>1
    <3>2. QED
      BY <1>4, <1>7, <3>1
  <2>2. \A i \in 0 .. L : end(i) <=> i = L
    <3> SUFFICES ASSUME NEW i \in 0 .. L PROVE end(i) <=> i = L
      OBVIOUS
    <3>1. i # L => i + 1 \in 0 .. L
      BY <1>1
    <3>2. QED
      BY <2>1, <3>1
  <2>3. QED
    BY <1>1, <1>3, <1>5, <2>2
<1>8. agree[L] <=> \A j \in 1 .. L : s[p + j] = flag[j]
  BY <1>1, <1>4
<1>9. QED
  BY <1>2, <1>6, <1>7, <1>8

\* One step of the scan: at p flag stands or it does not.
LEMMA FirstPlaceStep ==
  ASSUME NEW S, NEW s \in Seq(S), NEW flag \in Seq(S), NEW p \in Nat,
         NEW size \in 0 .. Len(s)
  PROVE  FirstPlace(s, flag, p, size) =
           IF p > size - Len(flag) THEN -1
           ELSE IF Matched(s, flag, p) = Len(flag) THEN p ELSE FirstPlace(s, flag, p + 1, size)
<1> DEFINE n == size - Len(flag)
<1>1. n \in Int /\ n <= Len(s) - Len(flag)
  OBVIOUS
<1>2. CASE p > n
  <2>1. p .. n = {}
    BY <1>1, <1>2
  <2>2. Places(s, flag, p, size) = {}
    BY <2>1 DEF Places
  <2>3. QED
    BY <1>2, <2>2 DEF FirstPlace
<1>3. CASE p <= n
  <2>1. p \in 0 .. n /\ p .. n = {p} \cup (p + 1) .. n
    BY <1>1, <1>3
  <2>2. Matched(s, flag, p) = Len(flag) <=> SubSeq(s, p + 1, p + Len(flag)) = flag
    <3>1. p \in 0 .. Len(s) - Len(flag)
      BY <1>1, <2>1
    <3>2. QED
      BY <3>1, MatchedAll
  <2>3. CASE SubSeq(s, p + 1, p + Len(flag)) = flag
    <3>1. p \in Places(s, flag, p, size)
      BY <2>1, <2>3 DEF Places
    <3>2. \A q \in Places(s, flag, p, size) : q \in Int /\ p <= q
      BY <1>1 DEF Places
    <3> DEFINE q == CHOOSE q \in Places(s, flag, p, size) : \A r \in Places(s, flag, p, size) : q <= r
    <3>3. q \in Places(s, flag, p, size) /\ \A r \in Places(s, flag, p, size) : q <= r
      BY <3>1, <3>2
    <3> HIDE DEF q
    <3>4. q = p
      BY <3>1, <3>2, <3>3
    <3>5. FirstPlace(s, flag, p, size) = p
      BY <3>1, <3>4 DEF FirstPlace, q
    <3>6. QED
      BY <1>1, <1>3, <2>2, <2>3, <3>5
  <2>4. CASE SubSeq(s, p + 1, p + Len(flag)) # flag
    <3>1. Places(s, flag, p, size) = Places(s, flag, p + 1, size)
      BY <2>1, <2>4 DEF Places
    <3>2. FirstPlace(s, flag, p, size) = FirstPlace(s, flag, p + 1, size)
      BY <3>1 DEF FirstPlace
    <3>3. QED
      BY <1>1, <1>3, <2>2, <2>4, <3>2
  <2>5. QED
    BY <2>3, <2>4
<1>4. QED
  BY <1>1, <1>2, <1>3

\* The scan is the first place: the function it is defined by exists, and no
\* other function satisfies its equation, since the last position at which
\* one differed would be no exception.
LEMMA LookupFirst ==
  ASSUME NEW S, NEW s \in Seq(S), NEW flag \in Seq(S) \ {<<>>},
         NEW size \in 0 .. Len(s), NEW from \in 0 .. size
  PROVE  Lookup(s, flag, from, size) = FirstPlace(s, flag, from, size)
<1> DEFINE n       == size - Len(flag)
           D       == from .. size + 1
           step(f) == [p \in D |-> IF p > n THEN -1
                                   ELSE IF Matched(s, flag, p) = Len(flag) THEN p ELSE f[p + 1]]
           first   == [p \in D |-> FirstPlace(s, flag, p, size)]
           scan    == CHOOSE f : f = step(f)
<1>1. Lookup(s, flag, from, size) = scan[from]
  BY DEF Lookup
<1>2. size \in Nat /\ n \in Int /\ n < size /\ from \in D /\ D \subseteq Nat
  <2>1. Len(flag) \in Nat \ {0}
    BY EmptyLen
  <2>2. QED
    BY <2>1
<1>3. \A p \in D : p <= n => p + 1 \in D
  BY <1>2
<1>4. \A p \in D : FirstPlace(s, flag, p, size) =
        IF p > n THEN -1
        ELSE IF Matched(s, flag, p) = Len(flag) THEN p ELSE FirstPlace(s, flag, p + 1, size)
  BY <1>2, FirstPlaceStep
<1> HIDE DEF n, D
<1>5. first = step(first)
  <2>1. \A p \in D : p \in Int /\ (p > n \/ p <= n)
    BY <1>2
  <2>2. \A p \in D : first[p] = step(first)[p]
    BY <1>3, <1>4, <2>1
  <2>3. QED
    BY <2>2
<1>6. scan = step(scan)
  <2>1. \E f : f = step(f)
    BY <1>5
  <2> HIDE DEF step
  <2>2. QED
    BY <2>1
<1> HIDE DEF scan
<1>7. \A p \in D : scan[p] = first[p]
  <2> DEFINE bad == {k \in Nat : size + 1 - k \in D /\ scan[size + 1 - k] # first[size + 1 - k]}
  <2>1. SUFFICES ASSUME NEW p \in D, scan[p] # first[p] PROVE FALSE
    OBVIOUS
  <2>2. size + 1 - p \in bad
    <3>1. size + 1 - p \in Nat /\ size + 1 - (size + 1 - p) = p
      BY <1>2 DEF D
    <3>2. QED
      BY <2>1, <3>1
  <2>3. PICK k \in bad : \A j \in bad : k <= j
    <3>1. bad \in SUBSET Nat
      OBVIOUS
    <3>2. QED
      BY <2>2, <3>1, LeastOf
  <2> DEFINE q == size + 1 - k
  <2>4. q \in D /\ scan[q] # first[q] /\ k \in Nat
    OBVIOUS
  <2>5. scan[q] = IF q > n THEN -1 ELSE IF Matched(s, flag, q) = Len(flag) THEN q ELSE scan[q + 1]
    BY <1>6, <2>4
  <2>6. first[q] = IF q > n THEN -1 ELSE IF Matched(s, flag, q) = Len(flag) THEN q ELSE FirstPlace(s, flag, q + 1, size)
    BY <1>4, <2>4
  <2>7. q <= n /\ scan[q + 1] # FirstPlace(s, flag, q + 1, size)
    BY <1>2, <2>4, <2>5, <2>6
  <2>8. q + 1 \in D /\ scan[q + 1] # first[q + 1]
    BY <1>3, <2>4, <2>7
  <2>9. k - 1 \in Nat /\ size + 1 - (k - 1) = q + 1
    BY <1>2, <2>4, <2>7
  <2>10. k - 1 \in bad
    BY <2>8, <2>9
  <2> HIDE DEF bad
  <2>11. k <= k - 1
    BY <2>3, <2>10
  <2>12. QED
    BY <2>4, <2>11
<1>8. QED
  BY <1>1, <1>2, <1>7

\* Lookup returns the first position at or after from where flag stands in what
\* was there when it read the size, or -1, for every flag and whatever
\* handle_read pushes, or overwrites, before it scans.
THEOREM LookupCorrect == Spec => []LookupIsFirst
<1>1. TypeOK => LookupIsFirst
  <2> SUFFICES ASSUME TypeOK, looked # NoSize, NEW flag \in Flags, NEW from \in 0 .. looked
               PROVE  Lookup(crcrcv, flag, from, looked) = FirstPlace(crcrcv, flag, from, looked)
    BY DEF LookupIsFirst, FirstPlace, Places
  <2>1. crcrcv \in Seq(Letters) /\ flag \in Seq(Letters) \ {<<>>} /\ looked \in 0 .. Len(crcrcv)
    BY LetterAssumption DEF TypeOK
  <2>2. QED
    BY <2>1, LookupFirst
<1>2. QED
  BY <1>1, ClientTypeCorrect, PTL

=============================================================================

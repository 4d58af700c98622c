-------------------------- MODULE HousekeepingProofs --------------------------
(***************************************************************************)
(* The log file and the thread that frees disk space, for days and months  *)
(* of any length, whatever is written when: no line is lost or written     *)
(* twice and each is in the file of its day, the log is flushed in time,   *)
(* and the storage is looked at every noon.                                *)
(***************************************************************************)
EXTENDS Housekeeping, TLAPS

-----------------------------------------------------------------------------
(* The inductive invariant                                                 *)

Entries == [n : Nat, day : Nat]

Times == Nat \cup {-1}

TypeInv ==
  /\ clock \in Nat /\ adjusted \in BOOLEAN /\ low \in BOOLEAN
  /\ day_ \in Int /\ fd_ \in Nat \cup {NoFile} /\ tmlast_ \in Nat
  /\ bytecache_ \in BOOLEAN /\ thrdCycle_ \in BOOLEAN /\ due \in BOOLEAN
  /\ cached \in Seq(Entries) /\ lines \in Seq(Entries)
  /\ files \in [DOMAIN files -> Seq(Entries)] /\ DOMAIN files \subseteq Nat
  /\ denied \in SUBSET Nat /\ age \in Nat /\ setback \in BOOLEAN
  /\ left \in Nat /\ last \in Times

\* Entry e is line e.n, and was not dropped.
Listed(e, ls, den) == e.n \in 1 .. Len(ls) /\ ls[e.n] = e /\ e.n \notin den

\* The files fs and the buffer ca together hold each of the lines ls once, but for
\* those that were dropped.
Stored(fs, ca, ls, den) ==
  /\ \A j \in 1 .. Len(ls) : ls[j].n = j
  /\ den \subseteq 1 .. Len(ls)
  /\ \A d \in DOMAIN fs : \A i \in 1 .. Len(fs[d]) : Listed(fs[d][i], ls, den)
  /\ \A k \in 1 .. Len(ca) : Listed(ca[k], ls, den)
  /\ \A c, d \in DOMAIN fs : \A i \in 1 .. Len(fs[c]), j \in 1 .. Len(fs[d]) :
       fs[c][i].n = fs[d][j].n => c = d /\ i = j
  /\ \A k, m \in 1 .. Len(ca) : ca[k].n = ca[m].n => k = m
  /\ \A d \in DOMAIN fs : \A i \in 1 .. Len(fs[d]), k \in 1 .. Len(ca) : fs[d][i].n # ca[k].n
  /\ \A n \in 1 .. Len(ls) : n \notin den =>
       \/ \E d \in DOMAIN fs : \E i \in 1 .. Len(fs[d]) : fs[d][i].n = n
       \/ \E k \in 1 .. Len(ca) : ca[k].n = n
  /\ \A d \in DOMAIN fs : Len(fs[d]) + Len(ca) <= Len(ls)
  /\ Len(ca) <= Len(ls)

AllStored == Stored(files, cached, lines, denied) /\ (fd_ = NoFile => cached = <<>>)

\* Before line n of ls the day of the month stayed the same over whole months.
SameDay(ls, n) ==
  \E k \in 2 .. n :
    /\ ls[k].day # ls[k - 1].day
    /\ \A j \in k - 1 .. n : ls[j].day % Month = ls[n].day % Month

\* Entry e, one of ls, may be in file d.
Right(d, e, ls) == e.day = d \/ SameDay(ls, e.n)

AllRight(d, s, ls) == \A i \in 1 .. Len(s) : Right(d, s[i], ls)

\* The last of ls may be in file fd.
Current(fd, ls) ==
  /\ Len(ls) # 0 /\ ls[Len(ls)].day % Month = fd % Month
  /\ ls[Len(ls)].day = fd \/ SameDay(ls, Len(ls))

Filed ==
  /\ fd_ # NoFile => day_ = fd_ % Month /\ Current(fd_, lines)
  /\ \A d \in DOMAIN files : AllRight(d, files[d], lines)
  /\ fd_ # NoFile => AllRight(fd_, cached, lines)

\* The flushing thread runs while a file is open; in the second second of silence with
\* something in the buffer it is due.
Flushing ==
  /\ fd_ # NoFile => thrdCycle_
  /\ cached # <<>> =>
    /\ bytecache_ /\ thrdCycle_
    /\ ~setback => tmlast_ + age <= clock /\ age <= 2 /\ (age = 2 => due)

\* When thread_autofree wakes it is noon.
Waiting ==
  ~adjusted /\ last # -1 =>
    /\ (clock + left) % Day = F!Noon
    /\ (clock + left) - last \in MinWait .. Day + MinWait - 1

IInv == TypeInv /\ AllStored /\ Filed /\ Flushing /\ Waiting

-----------------------------------------------------------------------------
(* Quotients and remainders                                                *)

LEMMA DivMod ==
  ASSUME NEW d \in Nat \ {0}, NEW a \in Nat
  PROVE  a = d * (a \div d) + (a % d) /\ a % d \in 0 .. d - 1 /\ a \div d \in Nat
<1>1. a % d = a - d * (a \div d)
  OBVIOUS
<1>2. a % d \in 0 .. d - 1
  OBVIOUS
<1>3. a \div d \in Nat
  OBVIOUS
<1> DEFINE m == d * (a \div d)
<1>4. m \in Int /\ a % d = a - m
  BY <1>1, <1>3
<1> HIDE DEF m
<1>5. a = m + (a % d)
  BY <1>2, <1>4
<1>6. QED
  BY <1>2, <1>3, <1>5 DEF m

LEMMA DivMonotone ==
  ASSUME NEW d \in Nat \ {0}, NEW a \in Nat, NEW b \in Nat, a <= b
  PROVE  a \div d <= b \div d
  OBVIOUS

LEMMA ModOf ==
  ASSUME NEW d \in Nat \ {0}, NEW q \in Nat, NEW r \in 0 .. d - 1
  PROVE  (d * q + r) % d = r
  OBVIOUS

LEMMA NextMultiple ==
  ASSUME NEW d \in Nat, NEW q \in Nat
  PROVE  d * (q + 1) = d * q + d /\ d * q \in Nat
  OBVIOUS

-----------------------------------------------------------------------------
(* Writing out the buffer                                                  *)

\* The files fs after the buffer ca has been written to file fd.
Written(fs, ca, fd) ==
  [d \in DOMAIN fs \cup {fd} |->
     (IF d \in DOMAIN fs THEN fs[d] ELSE <<>>) \o (IF d = fd THEN ca ELSE <<>>)]

\* What was in file fd before.
Before(fs, fd) == IF fd \in DOMAIN fs THEN fs[fd] ELSE <<>>

LEMMA FlushedIsWritten ==
  L!Flushed = IF fd_ = NoFile THEN files ELSE Written(files, cached, fd_)
  BY DEF L!Flushed, L!InFile, Written

\* File fd of g holds b and then ca; the other files of g are those of fs.
Appended(fs, ca, fd, g, b) ==
  /\ DOMAIN g = DOMAIN fs \cup {fd} /\ g \in [DOMAIN g -> Seq(Entries)]
  /\ \A c \in DOMAIN fs : c # fd => g[c] = fs[c]
  /\ b \in Seq(Entries) /\ Len(g[fd]) = Len(b) + Len(ca)
  /\ \A j \in 1 .. Len(b) : g[fd][j] = b[j]
  /\ \A k \in 1 .. Len(ca) : g[fd][Len(b) + k] = ca[k]

LEMMA WrittenFiles ==
  ASSUME NEW fs, fs \in [DOMAIN fs -> Seq(Entries)], NEW ca \in Seq(Entries), NEW fd,
         NEW g, g = Written(fs, ca, fd), NEW b, b = Before(fs, fd)
  PROVE  Appended(fs, ca, fd, g, b)
<1>1. \A e \in Seq(Entries) : e \o <<>> = e
  OBVIOUS
<1>2. b \in Seq(Entries)
  BY DEF Before
<1>3. DOMAIN g = DOMAIN fs \cup {fd} /\ g[fd] = b \o ca
  BY DEF Written, Before
<1>4. \A d \in DOMAIN fs : d # fd => g[d] = fs[d]
  <2> SUFFICES ASSUME NEW d \in DOMAIN fs, d # fd PROVE g[d] = fs[d]
    OBVIOUS
  <2>1. g[d] = fs[d] \o <<>>
    BY DEF Written
  <2>2. fs[d] \in Seq(Entries)
    OBVIOUS
  <2>3. QED
    BY <1>1, <2>1, <2>2
<1>5. \A d \in DOMAIN g : g[d] \in Seq(Entries)
  <2>1. b \o ca \in Seq(Entries)
    BY <1>2
  <2>2. \A d \in DOMAIN fs : fs[d] \in Seq(Entries)
    OBVIOUS
  <2>3. QED
    BY <1>3, <1>4, <2>1, <2>2
<1>6. g \in [DOMAIN g -> Seq(Entries)]
  <2>1. g = [d \in DOMAIN g |-> g[d]]
    BY DEF Written
  <2>2. QED
    BY <1>5, <2>1
<1>7. /\ Len(b \o ca) = Len(b) + Len(ca)
      /\ \A i \in 1 .. Len(b) : (b \o ca)[i] = b[i]
      /\ \A k \in 1 .. Len(ca) : (b \o ca)[Len(b) + k] = ca[k]
  BY <1>2
<1>8. QED
  BY <1>2, <1>3, <1>4, <1>6, <1>7 DEF Appended

\* Place i of file d of g is one of fs, or one of ca.
Place(fs, ca, fd, g, b, d, i) ==
  \/ d \in DOMAIN fs /\ i \in 1 .. Len(fs[d]) /\ g[d][i] = fs[d][i]
  \/ d = fd /\ i - Len(b) \in 1 .. Len(ca) /\ g[d][i] = ca[i - Len(b)]

\* Where an entry is after the buffer was written out, it was before, or in the buffer.
LEMMA WrittenCells ==
  ASSUME NEW fs, fs \in [DOMAIN fs -> Seq(Entries)], NEW ca \in Seq(Entries), NEW fd,
         NEW g, NEW b, Appended(fs, ca, fd, g, b), b = Before(fs, fd),
         NEW d \in DOMAIN g, NEW i \in 1 .. Len(g[d])
  PROVE  Place(fs, ca, fd, g, b, d, i)
<1>1. /\ DOMAIN g = DOMAIN fs \cup {fd}
      /\ \A c \in DOMAIN fs : c # fd => g[c] = fs[c]
      /\ b \in Seq(Entries) /\ Len(g[fd]) = Len(b) + Len(ca)
      /\ \A j \in 1 .. Len(b) : g[fd][j] = b[j]
      /\ \A k \in 1 .. Len(ca) : g[fd][Len(b) + k] = ca[k]
  BY DEF Appended
<1>2. b # <<>> => fd \in DOMAIN fs /\ b = fs[fd]
  BY DEF Before
<1>3. b = <<>> => Len(b) = 0
  OBVIOUS
<1>4. CASE d # fd
  BY <1>1, <1>4 DEF Place
<1>5. CASE d = fd
  <2>1. Len(b) \in Nat /\ Len(ca) \in Nat /\ i \in 1 .. Len(b) + Len(ca)
    BY <1>1, <1>5
  <2>2. CASE i <= Len(b)
    <3>1. i \in 1 .. Len(b) /\ b # <<>>
      BY <1>3, <2>1, <2>2
    <3>2. QED
      BY <1>1, <1>2, <1>5, <3>1 DEF Place
  <2>3. CASE i > Len(b)
    <3>1. i - Len(b) \in 1 .. Len(ca) /\ Len(b) + (i - Len(b)) = i
      BY <2>1, <2>3
    <3>2. g[fd][Len(b) + (i - Len(b))] = ca[i - Len(b)]
      BY <1>1, <3>1
    <3>3. QED
      BY <1>5, <3>1, <3>2 DEF Place
  <2>4. QED
    BY <2>1, <2>2, <2>3
<1>6. QED
  BY <1>4, <1>5

\* Nothing is lost or doubled by it.
LEMMA WrittenStored ==
  ASSUME NEW fs, fs \in [DOMAIN fs -> Seq(Entries)], NEW ca \in Seq(Entries), NEW fd,
         NEW ls \in Seq(Entries), NEW den, Stored(fs, ca, ls, den),
         NEW g, g = Written(fs, ca, fd)
  PROVE  Stored(g, <<>>, ls, den)
<1> PICK b : b = Before(fs, fd)
  OBVIOUS
<1>0. Appended(fs, ca, fd, g, b)
  BY WrittenFiles, Zenon
<1>1. /\ DOMAIN g = DOMAIN fs \cup {fd} /\ g \in [DOMAIN g -> Seq(Entries)]
      /\ \A c \in DOMAIN fs : c # fd => g[c] = fs[c]
      /\ b \in Seq(Entries) /\ Len(g[fd]) = Len(b) + Len(ca)
      /\ \A j \in 1 .. Len(b) : g[fd][j] = b[j]
      /\ \A k \in 1 .. Len(ca) : g[fd][Len(b) + k] = ca[k]
  BY <1>0 DEF Appended
<1>2. \A d \in DOMAIN g : \A i \in 1 .. Len(g[d]) :
        \/ d \in DOMAIN fs /\ i \in 1 .. Len(fs[d]) /\ g[d][i] = fs[d][i]
        \/ d = fd /\ i - Len(b) \in 1 .. Len(ca) /\ g[d][i] = ca[i - Len(b)]
  <2>1. ASSUME NEW d \in DOMAIN g, NEW i \in 1 .. Len(g[d]) PROVE Place(fs, ca, fd, g, b, d, i)
    BY <1>0, WrittenCells, Zenon
  <2>2. QED
    BY <2>1 DEF Place
<1>3. Len(b) \in Nat /\ (fd \in DOMAIN fs => b = fs[fd]) /\ (fd \notin DOMAIN fs => Len(b) = 0)
  BY <1>1 DEF Before
<1>4. \A d \in DOMAIN g : \A i \in 1 .. Len(g[d]) : Listed(g[d][i], ls, den)
  BY <1>2 DEF Stored
<1>5. \A c, d \in DOMAIN g : \A i \in 1 .. Len(g[c]), j \in 1 .. Len(g[d]) :
        g[c][i].n = g[d][j].n => c = d /\ i = j
  <2> SUFFICES ASSUME NEW c \in DOMAIN g, NEW d \in DOMAIN g,
                      NEW i \in 1 .. Len(g[c]), NEW j \in 1 .. Len(g[d]), g[c][i].n = g[d][j].n
               PROVE  c = d /\ i = j
    OBVIOUS
  <2>1. \/ c \in DOMAIN fs /\ i \in 1 .. Len(fs[c]) /\ g[c][i] = fs[c][i]
        \/ c = fd /\ i - Len(b) \in 1 .. Len(ca) /\ g[c][i] = ca[i - Len(b)]
    BY <1>2
  <2>2. \/ d \in DOMAIN fs /\ j \in 1 .. Len(fs[d]) /\ g[d][j] = fs[d][j]
        \/ d = fd /\ j - Len(b) \in 1 .. Len(ca) /\ g[d][j] = ca[j - Len(b)]
    BY <1>2
  <2>3. CASE c \in DOMAIN fs /\ i \in 1 .. Len(fs[c]) /\ g[c][i] = fs[c][i]
    <3>1. CASE d \in DOMAIN fs /\ j \in 1 .. Len(fs[d]) /\ g[d][j] = fs[d][j]
      BY <2>3, <3>1 DEF Stored
    <3>2. CASE d = fd /\ j - Len(b) \in 1 .. Len(ca) /\ g[d][j] = ca[j - Len(b)]
      BY <2>3, <3>2 DEF Stored
    <3>3. QED
      BY <2>2, <3>1, <3>2
  <2>4. CASE c = fd /\ i - Len(b) \in 1 .. Len(ca) /\ g[c][i] = ca[i - Len(b)]
    <3>1. CASE d \in DOMAIN fs /\ j \in 1 .. Len(fs[d]) /\ g[d][j] = fs[d][j]
      BY <2>4, <3>1 DEF Stored
    <3>2. CASE d = fd /\ j - Len(b) \in 1 .. Len(ca) /\ g[d][j] = ca[j - Len(b)]
      <4>1. i - Len(b) = j - Len(b)
        BY <2>4, <3>2 DEF Stored
      <4>2. i = j
        BY <1>3, <4>1
      <4>3. QED
        BY <2>4, <3>2, <4>2
    <3>3. QED
      BY <2>2, <3>1, <3>2
  <2>5. QED
    BY <2>1, <2>3, <2>4
<1>6. \A n \in 1 .. Len(ls) : n \notin den => \E d \in DOMAIN g : \E i \in 1 .. Len(g[d]) : g[d][i].n = n
  <2> SUFFICES ASSUME NEW n \in 1 .. Len(ls), n \notin den
               PROVE  \E d \in DOMAIN g : \E i \in 1 .. Len(g[d]) : g[d][i].n = n
    OBVIOUS
  <2>1. CASE \E d \in DOMAIN fs : \E i \in 1 .. Len(fs[d]) : fs[d][i].n = n
    <3>0. PICK d \in DOMAIN fs : \E i \in 1 .. Len(fs[d]) : fs[d][i].n = n
      BY <2>1
    <3>1. PICK i \in 1 .. Len(fs[d]) : fs[d][i].n = n
      BY <3>0
    <3>2. CASE d # fd
      BY <1>1, <3>1, <3>2
    <3>3. CASE d = fd
      <4>1. i \in 1 .. Len(b) /\ i \in 1 .. Len(g[fd]) /\ fs[d] = b
        BY <1>1, <1>3, <3>1, <3>3
      <4>2. QED
        BY <1>1, <3>1, <3>3, <4>1
    <3>4. QED
      BY <3>2, <3>3
  <2>2. CASE \E k \in 1 .. Len(ca) : ca[k].n = n
    <3>1. PICK k \in 1 .. Len(ca) : ca[k].n = n
      BY <2>2
    <3>2. Len(b) + k \in 1 .. Len(g[fd])
      BY <1>1, <1>3
    <3>3. QED
      BY <1>1, <3>1, <3>2
  <2>3. QED
    BY <2>1, <2>2 DEF Stored
<1>7. \A d \in DOMAIN g : Len(g[d]) <= Len(ls)
  <2>1. CASE fd \in DOMAIN fs
    BY <1>1, <1>3, <2>1 DEF Stored
  <2>2. CASE fd \notin DOMAIN fs
    <3>1. Len(g[fd]) <= Len(ls)
      BY <1>1, <1>3, <2>2 DEF Stored
    <3>2. \A d \in DOMAIN fs : d # fd /\ Len(fs[d]) \in Nat /\ Len(fs[d]) <= Len(ls)
      BY <2>2 DEF Stored
    <3>3. QED
      BY <1>1, <3>1, <3>2
  <2>3. QED
    BY <2>1, <2>2
<1>8. Len(<<>>) = 0 /\ 1 .. 0 = {} /\ Len(ls) \in Nat
  OBVIOUS
<1>9. \A d \in DOMAIN g : Len(g[d]) + 0 = Len(g[d])
  BY <1>1
<1>10. QED
  BY <1>4, <1>5, <1>6, <1>7, <1>8, <1>9 DEF Stored

-----------------------------------------------------------------------------
(* A new line                                                              *)

LEMMA AppendIs ==
  ASSUME NEW S, NEW s \in Seq(S), NEW e \in S, NEW r, r = Append(s, e)
  PROVE  /\ r \in Seq(S) /\ Len(s) \in Nat /\ Len(r) = Len(s) + 1 /\ r[Len(s) + 1] = e
         /\ \A i \in 1 .. Len(s) : r[i] = s[i]
  OBVIOUS

\* What was listed is listed still.
LEMMA ListedStill ==
  ASSUME NEW ls \in Seq(Entries), NEW e \in Entries, NEW l, l = Append(ls, e), NEW den,
         NEW x, Listed(x, ls, den)
  PROVE  Listed(x, l, den) /\ Listed(x, l, den \cup {Len(ls) + 1})
<1>1. /\ Len(ls) \in Nat /\ Len(l) = Len(ls) + 1
      /\ \A i \in 1 .. Len(ls) : l[i] = ls[i]
  OBVIOUS
<1>2. x.n \in 1 .. Len(ls) /\ ls[x.n] = x /\ x.n \notin den
  BY DEF Listed
<1>3. x.n \in 1 .. Len(l) /\ l[x.n] = x /\ x.n # Len(ls) + 1
  BY <1>1, <1>2
<1>4. QED
  BY <1>2, <1>3 DEF Listed

\* A line that goes into the buffer.
LEMMA AppendStored ==
  ASSUME NEW fs, fs \in [DOMAIN fs -> Seq(Entries)], NEW ca \in Seq(Entries),
         NEW ls \in Seq(Entries), NEW den, Stored(fs, ca, ls, den),
         NEW e \in Entries, e.n = Len(ls) + 1,
         NEW c, c = Append(ca, e), NEW l, l = Append(ls, e)
  PROVE  Stored(fs, c, l, den)
<1>1. /\ Len(ls) \in Nat /\ Len(l) = Len(ls) + 1 /\ l[Len(ls) + 1] = e
      /\ \A i \in 1 .. Len(ls) : l[i] = ls[i]
  OBVIOUS
<1>2. /\ Len(ca) \in Nat /\ Len(c) = Len(ca) + 1 /\ c[Len(ca) + 1] = e
      /\ \A i \in 1 .. Len(ca) : c[i] = ca[i]
  OBVIOUS
<1>3. \A j \in 1 .. Len(l) : l[j].n = j
  BY <1>1 DEF Stored
<1>4. den \subseteq 1 .. Len(l) /\ Len(ls) + 1 \notin den
  BY <1>1 DEF Stored
<1>5. \A d \in DOMAIN fs : \A i \in 1 .. Len(fs[d]) : Listed(fs[d][i], l, den) /\ fs[d][i].n \in 1 .. Len(ls)
  <2> SUFFICES ASSUME NEW d \in DOMAIN fs, NEW i \in 1 .. Len(fs[d])
               PROVE  Listed(fs[d][i], l, den) /\ fs[d][i].n \in 1 .. Len(ls)
    OBVIOUS
  <2> DEFINE x == fs[d][i]
  <2>1. Listed(x, ls, den)
    BY DEF Stored
  <2> HIDE DEF x
  <2>2. Listed(x, l, den)
    BY <2>1, ListedStill
  <2>3. QED
    BY <2>1, <2>2 DEF Listed, x
<1>6. \A k \in 1 .. Len(ca) : Listed(ca[k], l, den) /\ ca[k].n \in 1 .. Len(ls)
  <2> SUFFICES ASSUME NEW k \in 1 .. Len(ca)
               PROVE  Listed(ca[k], l, den) /\ ca[k].n \in 1 .. Len(ls)
    OBVIOUS
  <2> DEFINE x == ca[k]
  <2>1. Listed(x, ls, den)
    BY DEF Stored
  <2> HIDE DEF x
  <2>2. Listed(x, l, den)
    BY <2>1, ListedStill
  <2>3. QED
    BY <2>1, <2>2 DEF Listed, x
<1>7. \A k \in 1 .. Len(c) : Listed(c[k], l, den)
  <2>1. Listed(e, l, den)
    BY <1>1, <1>4 DEF Listed
  <2>2. QED
    BY <1>2, <1>6, <2>1
<1>8. \A k, m \in 1 .. Len(c) : c[k].n = c[m].n => k = m
  <2> SUFFICES ASSUME NEW k \in 1 .. Len(c), NEW m \in 1 .. Len(c), c[k].n = c[m].n
               PROVE  k = m
    OBVIOUS
  <2>1. CASE k = Len(ca) + 1
    <3>1. c[m].n \notin 1 .. Len(ls)
      BY <1>1, <1>2, <2>1
    <3>2. m \notin 1 .. Len(ca)
      BY <1>2, <1>6, <3>1
    <3>3. QED
      BY <1>2, <2>1, <3>2
  <2>2. CASE m = Len(ca) + 1
    <3>1. c[k].n \notin 1 .. Len(ls)
      BY <1>1, <1>2, <2>2
    <3>2. k \notin 1 .. Len(ca)
      BY <1>2, <1>6, <3>1
    <3>3. QED
      BY <1>2, <2>2, <3>2
  <2>3. CASE k \in 1 .. Len(ca) /\ m \in 1 .. Len(ca)
    BY <1>2, <2>3 DEF Stored
  <2>4. QED
    BY <1>2, <2>1, <2>2, <2>3
<1>9. \A d \in DOMAIN fs : \A i \in 1 .. Len(fs[d]), k \in 1 .. Len(c) : fs[d][i].n # c[k].n
  <2> SUFFICES ASSUME NEW d \in DOMAIN fs, NEW i \in 1 .. Len(fs[d]), NEW k \in 1 .. Len(c)
               PROVE  fs[d][i].n # c[k].n
    OBVIOUS
  <2>1. CASE k = Len(ca) + 1
    BY <1>1, <1>2, <1>5, <2>1
  <2>2. CASE k \in 1 .. Len(ca)
    BY <1>2, <2>2 DEF Stored
  <2>3. QED
    BY <1>2, <2>1, <2>2
<1>10. \A n \in 1 .. Len(l) : n \notin den =>
         \/ \E d \in DOMAIN fs : \E i \in 1 .. Len(fs[d]) : fs[d][i].n = n
         \/ \E k \in 1 .. Len(c) : c[k].n = n
  <2> SUFFICES ASSUME NEW n \in 1 .. Len(l), n \notin den,
                      ~ \E d \in DOMAIN fs : \E i \in 1 .. Len(fs[d]) : fs[d][i].n = n
               PROVE  \E k \in 1 .. Len(c) : c[k].n = n
    OBVIOUS
  <2>1. CASE n = Len(ls) + 1
    <3>1. Len(ca) + 1 \in 1 .. Len(c)
      BY <1>2
    <3>2. QED
      BY <1>2, <2>1, <3>1
  <2>2. CASE n \in 1 .. Len(ls)
    <3>1. PICK k \in 1 .. Len(ca) : ca[k].n = n
      BY <2>2 DEF Stored
    <3>2. k \in 1 .. Len(c) /\ c[k] = ca[k]
      BY <1>2
    <3>3. QED
      BY <3>1, <3>2
  <2>3. QED
    BY <1>1, <2>1, <2>2
<1>11. (\A d \in DOMAIN fs : Len(fs[d]) + Len(c) <= Len(l)) /\ Len(c) <= Len(l)
  <2>1. \A d \in DOMAIN fs : Len(fs[d]) \in Nat
    OBVIOUS
  <2>2. QED
    BY <1>1, <1>2, <2>1 DEF Stored
<1>12. \A b, d \in DOMAIN fs : \A i \in 1 .. Len(fs[b]), j \in 1 .. Len(fs[d]) :
         fs[b][i].n = fs[d][j].n => b = d /\ i = j
  BY DEF Stored
<1>13. QED
  BY <1>3, <1>4, <1>5, <1>7, <1>8, <1>9, <1>10, <1>11, <1>12 DEF Stored

\* A line that is dropped.
LEMMA DropStored ==
  ASSUME NEW fs, fs \in [DOMAIN fs -> Seq(Entries)],
         NEW ls \in Seq(Entries), NEW den, Stored(fs, <<>>, ls, den),
         NEW e \in Entries, e.n = Len(ls) + 1, NEW l, l = Append(ls, e)
  PROVE  Stored(fs, <<>>, l, den \cup {Len(ls) + 1})
<1>1. /\ Len(ls) \in Nat /\ Len(l) = Len(ls) + 1 /\ l[Len(ls) + 1] = e
      /\ \A i \in 1 .. Len(ls) : l[i] = ls[i]
  OBVIOUS
<1>2. \A j \in 1 .. Len(l) : l[j].n = j
  BY <1>1 DEF Stored
<1>3. den \cup {Len(ls) + 1} \subseteq 1 .. Len(l)
  BY <1>1 DEF Stored
<1>4. \A d \in DOMAIN fs : \A i \in 1 .. Len(fs[d]) : Listed(fs[d][i], l, den \cup {Len(ls) + 1})
  <2> SUFFICES ASSUME NEW d \in DOMAIN fs, NEW i \in 1 .. Len(fs[d])
               PROVE  Listed(fs[d][i], l, den \cup {Len(ls) + 1})
    OBVIOUS
  <2> DEFINE x == fs[d][i]
  <2>1. Listed(x, ls, den)
    BY DEF Stored
  <2> HIDE DEF x
  <2>2. Listed(x, l, den \cup {Len(ls) + 1})
    BY <2>1, ListedStill
  <2>3. QED
    BY <2>2 DEF x
<1>5. Len(<<>>) = 0 /\ 1 .. 0 = {}
  OBVIOUS
<1>6. \A n \in 1 .. Len(l) : n \notin den \cup {Len(ls) + 1} =>
        \E d \in DOMAIN fs : \E i \in 1 .. Len(fs[d]) : fs[d][i].n = n
  <2> SUFFICES ASSUME NEW n \in 1 .. Len(l), n \notin den, n # Len(ls) + 1
               PROVE  \E d \in DOMAIN fs : \E i \in 1 .. Len(fs[d]) : fs[d][i].n = n
    OBVIOUS
  <2>1. n \in 1 .. Len(ls)
    BY <1>1
  <2>2. QED
    BY <1>5, <2>1 DEF Stored
<1>7. \A d \in DOMAIN fs : Len(fs[d]) + 0 <= Len(l)
  <2>1. \A d \in DOMAIN fs : Len(fs[d]) \in Nat /\ Len(fs[d]) <= Len(ls)
    BY <1>5 DEF Stored
  <2>2. QED
    BY <1>1, <2>1
<1>8. 0 <= Len(l)
  BY <1>1
<1>9. \A b, d \in DOMAIN fs : \A i \in 1 .. Len(fs[b]), j \in 1 .. Len(fs[d]) :
        fs[b][i].n = fs[d][j].n => b = d /\ i = j
  BY DEF Stored
<1>10. QED
  BY <1>2, <1>3, <1>4, <1>5, <1>6, <1>7, <1>8, <1>9 DEF Stored

-----------------------------------------------------------------------------
(* What a step does to the log                                             *)

LEMMA TodayIs ==
  ASSUME clock \in Nat
  PROVE  L!Today \in Nat /\ L!Today = clock \div Day
<1>1. Day \in Nat \ {0}
  BY DayAssumption
<1>2. clock \div Day \in Nat
  BY <1>1, DivMod
<1>3. QED
  BY <1>2 DEF L!Today

LEMMA LineIs ==
  ASSUME TypeInv
  PROVE  L!Line \in Entries /\ L!Line.n = Len(lines) + 1 /\ L!Line.day = L!Today
<1>1. L!Today \in Nat /\ Len(lines) \in Nat
  BY TodayIs DEF TypeInv
<1> HIDE DEF L!Today
<1>2. QED
  BY <1>1 DEF L!Line, Entries

\* What the log may do in a step of the system, with the file that is open.
Still == UNCHANGED <<files, cached, lines, denied, fd_, day_>>

Flush ==
  /\ files' = L!Flushed /\ cached' = <<>> /\ fd_' \in {fd_, NoFile}
  /\ UNCHANGED <<lines, denied, day_>>

LEMMA LogMoves ==
  ASSUME [Next]_vars
  PROVE  /\ Still \/ Flush \/ L!WriteOn \/ L!WriteReopen \/ L!WriteDenied
         /\ \/ (Second \/ SetClock) /\ Still
            \/ UNCHANGED <<clock, adjusted>>
<1>1. CASE UNCHANGED vars
  BY <1>1 DEF vars, logvars, Still
<1>2. CASE Second
  BY <1>2 DEF Second, L!Second, Still
<1>3. CASE SetClock
  BY <1>3 DEF SetClock, L!ClockSet, Still
<1>4. CASE Write
  BY <1>4 DEF Write, L!Write
<1>5. CASE Cycle
  BY <1>5 DEF Cycle, L!Cycle, Still, Flush
<1>6. CASE Check
  BY <1>6 DEF Check, L!Write, logvars, Still
<1>7. CASE CheckThrows
  BY <1>7 DEF CheckThrows, logvars, Still
<1>8. CASE WriteCrashes
  BY <1>8 DEF WriteCrashes, L!WriteCrashes, L!logvars, Still
<1>9. CASE Exit
  BY <1>9 DEF Exit, L!Exit, Flush
<1>10. QED
  BY <1>1, <1>2, <1>3, <1>4, <1>5, <1>6, <1>7, <1>8, <1>9 DEF Next

LEMMA FlushedType ==
  ASSUME TypeInv
  PROVE  L!Flushed \in [DOMAIN L!Flushed -> Seq(Entries)] /\ DOMAIN L!Flushed \subseteq Nat
<1>1. CASE fd_ = NoFile
  BY <1>1, FlushedIsWritten DEF TypeInv
<1>2. CASE fd_ # NoFile
  <2> PICK g : g = Written(files, cached, fd_)
    OBVIOUS
  <2> PICK b : b = Before(files, fd_)
    OBVIOUS
  <2>1. files \in [DOMAIN files -> Seq(Entries)] /\ cached \in Seq(Entries) /\ DOMAIN files \subseteq Nat /\ fd_ \in Nat
    BY <1>2 DEF TypeInv
  <2>2. Appended(files, cached, fd_, g, b)
    BY <2>1, WrittenFiles, Zenon
  <2>3. L!Flushed = g
    BY <1>2, FlushedIsWritten
  <2>4. QED
    BY <2>1, <2>2, <2>3 DEF Appended
<1>3. QED
  BY <1>1, <1>2

-----------------------------------------------------------------------------
(* Types                                                                   *)

Typed ==
  /\ clock \in Nat /\ adjusted \in BOOLEAN /\ low \in BOOLEAN
  /\ left \in Nat /\ last \in Times /\ age \in Nat /\ tmlast_ \in Nat
  /\ bytecache_ \in BOOLEAN /\ thrdCycle_ \in BOOLEAN /\ due \in BOOLEAN /\ setback \in BOOLEAN

LogTyped ==
  /\ day_ \in Int /\ fd_ \in Nat \cup {NoFile}
  /\ cached \in Seq(Entries) /\ lines \in Seq(Entries)
  /\ files \in [DOMAIN files -> Seq(Entries)] /\ DOMAIN files \subseteq Nat
  /\ denied \in SUBSET Nat

LEMMA TypeParts ==
  (TypeInv <=> Typed /\ LogTyped) /\ (Typed' /\ LogTyped' => TypeInv')
  BY DEF TypeInv, Typed, LogTyped

\* When the thread wakes again, and how long that is.
LEMMA NextNoonIs ==
  ASSUME clock \in Nat
  PROVE  /\ F!NextNoon \in MinWait .. Day + MinWait - 1 /\ F!NextNoon \in Nat
         /\ (clock + F!NextNoon) % Day = F!Noon
<1>0. /\ Day \in Nat \ {0} /\ MinWait \in Nat /\ 1 <= MinWait /\ MinWait <= Day \div 2
      /\ Day \div 2 \in 0 .. Day - 1
  BY DayAssumption, WaitAssumption
<1> DEFINE q == clock \div Day
           r == clock % Day
           h == Day \div 2
           m == Day * q
           w == IF h - r < MinWait THEN h - r + Day ELSE h - r
<1>1. clock = m + r /\ r \in 0 .. Day - 1 /\ q \in Nat /\ m \in Nat
  BY <1>0, DivMod, NextMultiple
<1>2. Day * (q + 1) = m + Day
  BY <1>0, <1>1, NextMultiple
<1>3. F!NextNoon = w /\ F!Noon = h
  BY DEF F!NextNoon, F!Noon
<1>4. (m + h) % Day = h /\ (Day * (q + 1) + h) % Day = h
  <2> HIDE DEF q, h
  <2>1. (Day * q + h) % Day = h
    BY <1>0, <1>1, ModOf DEF h
  <2>2. q + 1 \in Nat
    BY <1>1
  <2>3. (Day * (q + 1) + h) % Day = h
    BY <1>0, <2>2, ModOf DEF h
  <2>4. QED
    BY <2>1, <2>3
<1>5. Day \in Nat /\ MinWait \in Nat /\ 1 <= MinWait /\ MinWait <= h /\ h \in 0 .. Day - 1
  BY <1>0
<1> HIDE DEF q, r, h, m
<1>6. w \in MinWait .. Day + MinWait - 1 /\ w \in Nat
  BY <1>1, <1>5
<1>7. clock + w = m + h \/ clock + w = m + Day + h
  BY <1>1, <1>5
<1>8. QED
  BY <1>2, <1>3, <1>4, <1>6, <1>7

LEMMA TypedStep ==
  ASSUME Typed, [Next]_vars
  PROVE  Typed'
<1>1. CASE UNCHANGED vars
  BY <1>1 DEF vars, logvars, freevars, Typed
<1>2. CASE Second
  BY <1>2 DEF Second, L!Second, F!Second, Typed
<1>3. CASE SetClock
  <2>1. clock' \in Nat
    BY <1>3, BoundAssumption DEF SetClock, Typed
  <2>2. setback' \in BOOLEAN
    BY <1>3, <2>1 DEF SetClock, L!ClockSet, Typed
  <2>3. QED
    BY <1>3, <2>1, <2>2 DEF SetClock, L!ClockSet, freevars, Typed
<1>4. ASSUME L!Write, UNCHANGED <<clock, adjusted, low>>, left' \in Nat, last' \in Times
      PROVE  Typed'
  <2>1. CASE L!WriteOn
    BY <1>4, <2>1 DEF L!WriteOn, L!Wrote, Typed
  <2>2. CASE L!WriteReopen
    BY <1>4, <2>2 DEF L!WriteReopen, L!Wrote, Typed
  <2>3. CASE L!WriteDenied
    BY <1>4, <2>3 DEF L!WriteDenied, Typed
  <2>4. QED
    BY <1>4, <2>1, <2>2, <2>3 DEF L!Write
<1>5. CASE Write
  BY <1>4, <1>5 DEF Write, freevars, Typed
<1>6. CASE Cycle
  BY <1>6 DEF Cycle, L!Cycle, freevars, Typed
<1>7. CASE Check
  <2>1. left' \in Nat /\ last' \in Times
    <3>1. F!NextNoon \in Nat
      BY NextNoonIs DEF Typed
    <3>2. QED
      BY <1>7, <3>1 DEF Check, F!Check, Typed, Times
  <2>2. CASE low
    BY <1>4, <1>7, <2>1, <2>2 DEF Check
  <2>3. CASE ~low
    BY <1>7, <2>1, <2>3 DEF Check, logvars, Typed
  <2>4. QED
    BY <2>2, <2>3
<1>8. CASE CheckThrows
  BY <1>8 DEF CheckThrows, F!CheckThrows, logvars, Typed
<1>9. CASE WriteCrashes
  BY <1>9 DEF WriteCrashes, L!WriteCrashes, L!logvars, freevars, Typed
<1>10. CASE Exit
  BY <1>10 DEF Exit, L!Exit, freevars, Typed
<1>11. QED
  BY <1>1, <1>2, <1>3, <1>5, <1>6, <1>7, <1>8, <1>9, <1>10 DEF Next

LEMMA LogTypedStep ==
  ASSUME TypeInv, [Next]_vars
  PROVE  LogTyped'
<1>1. LogTyped /\ clock \in Nat
  BY TypeParts DEF TypeInv
<1>2. /\ L!Flushed \in [DOMAIN L!Flushed -> Seq(Entries)] /\ DOMAIN L!Flushed \subseteq Nat
      /\ L!Line \in Entries /\ L!Line.n \in Nat /\ L!Today \in Nat
  BY <1>1, FlushedType, LineIs, TodayIs DEF LogTyped
<1>3. L!Today % Month \in Int
  BY <1>2, DayAssumption
<1> HIDE DEF L!Flushed, L!Line, L!Today
<1>4. Append(lines, L!Line) \in Seq(Entries) /\ Append(cached, L!Line) \in Seq(Entries)
      /\ <<L!Line>> \in Seq(Entries) /\ <<>> \in Seq(Entries)
  BY <1>1, <1>2 DEF LogTyped
<1>5. CASE Still
  BY <1>1, <1>5 DEF Still, LogTyped
<1>6. CASE Flush
  BY <1>1, <1>2, <1>4, <1>6 DEF Flush, LogTyped
<1>7. CASE L!WriteOn
  BY <1>1, <1>3, <1>4, <1>7 DEF L!WriteOn, L!Asked, LogTyped
<1>8. CASE L!WriteReopen
  BY <1>1, <1>2, <1>3, <1>4, <1>8 DEF L!WriteReopen, L!Asked, LogTyped
<1>9. CASE L!WriteDenied
  BY <1>1, <1>2, <1>3, <1>4, <1>9 DEF L!WriteDenied, L!Asked, LogTyped
<1>10. QED
  BY <1>5, <1>6, <1>7, <1>8, <1>9, LogMoves

-----------------------------------------------------------------------------
(* Steps of the invariant                                                  *)

LEMMA FlushedStored ==
  ASSUME TypeInv, AllStored
  PROVE  Stored(L!Flushed, <<>>, lines, denied)
<1>1. CASE fd_ = NoFile
  <2>1. cached = <<>> /\ L!Flushed = files
    BY <1>1, FlushedIsWritten DEF AllStored
  <2>2. Stored(files, cached, lines, denied)
    BY DEF AllStored
  <2>3. QED
    BY <2>1, <2>2
<1>2. CASE fd_ # NoFile
  <2> PICK g : g = Written(files, cached, fd_)
    OBVIOUS
  <2>1. /\ files \in [DOMAIN files -> Seq(Entries)] /\ cached \in Seq(Entries) /\ lines \in Seq(Entries)
        /\ Stored(files, cached, lines, denied)
    BY DEF TypeInv, AllStored
  <2>2. Stored(g, <<>>, lines, denied)
    BY <2>1, WrittenStored
  <2>3. L!Flushed = g
    BY <1>2, FlushedIsWritten
  <2>4. QED
    BY <2>2, <2>3
<1>3. QED
  BY <1>1, <1>2

LEMMA StoredStep ==
  ASSUME TypeInv, AllStored, [Next]_vars
  PROVE  AllStored'
<1> DEFINE fl == L!Flushed
           e == L!Line
<1>1. /\ files \in [DOMAIN files -> Seq(Entries)] /\ cached \in Seq(Entries) /\ lines \in Seq(Entries)
      /\ e \in Entries /\ e.n = Len(lines) + 1 /\ fd_ \in Nat \cup {NoFile} /\ L!Today \in Nat
  BY LineIs, TodayIs DEF TypeInv
<1>2. fl \in [DOMAIN fl -> Seq(Entries)] /\ Stored(fl, <<>>, lines, denied)
  BY FlushedType, FlushedStored
<1>3. Stored(files, cached, lines, denied) /\ (fd_ = NoFile => cached = <<>>)
  BY DEF AllStored
<1>4. Append(<<>>, e) = <<e>> /\ <<>> \in Seq(Entries)
  OBVIOUS
<1>5. CASE Still
  BY <1>3, <1>5 DEF Still, AllStored
<1>6. CASE Flush
  BY <1>2, <1>6 DEF Flush, AllStored
<1>7. CASE L!WriteOn
  <2>1. /\ files' = files /\ cached' = Append(cached, e) /\ lines' = Append(lines, e)
        /\ denied' = denied /\ fd_' = fd_ /\ fd_ # NoFile
    BY <1>7 DEF L!WriteOn, L!Asked, L!StaysOpen
  <2> HIDE DEF e
  <2>2. Stored(files, cached', lines', denied)
    BY <1>1, <1>3, <2>1, AppendStored
  <2>3. QED
    BY <2>1, <2>2 DEF AllStored
<1>8. CASE L!WriteReopen
  <2>1. /\ files' = fl /\ cached' = Append(<<>>, e) /\ lines' = Append(lines, e)
        /\ denied' = denied /\ fd_' = L!Today
    BY <1>4, <1>8 DEF L!WriteReopen, L!Asked
  <2> HIDE DEF e, fl, L!Today
  <2>2. Stored(fl, cached', lines', denied)
    BY <1>1, <1>2, <1>4, <2>1, AppendStored
  <2>3. fd_' # NoFile
    BY <1>1, <2>1, FileAssumption
  <2>4. QED
    BY <2>1, <2>2, <2>3 DEF AllStored
<1>9. CASE L!WriteDenied
  <2>1. /\ files' = fl /\ cached' = <<>> /\ lines' = Append(lines, e)
        /\ denied' = denied \cup {Len(lines) + 1}
    BY <1>1, <1>9 DEF L!WriteDenied, L!Asked
  <2> HIDE DEF e, fl
  <2>2. Stored(fl, <<>>, lines', denied \cup {Len(lines) + 1})
    BY <1>1, <1>2, <2>1, DropStored
  <2>3. QED
    BY <2>1, <2>2 DEF AllStored
<1>10. QED
  BY <1>5, <1>6, <1>7, <1>8, <1>9, LogMoves

LEMMA FlushingStep ==
  ASSUME TypeInv, AllStored, Flushing, [Next]_vars
  PROVE  Flushing'
<1>0. clock \in Nat /\ tmlast_ \in Nat /\ age \in Nat
  BY DEF TypeInv
<1>1. CASE UNCHANGED vars
  BY <1>1 DEF vars, logvars, Flushing
<1>2. CASE Second
  BY <1>0, <1>2 DEF Second, L!Second, Flushing
<1>3. CASE SetClock
  <2>1. clock' \in Int
    BY <1>0, <1>3, BoundAssumption DEF SetClock
  <2>2. ~setback' => ~setback /\ clock <= clock'
    <3>1. setback' = (setback \/ clock' < clock)
      BY <1>3 DEF SetClock, L!ClockSet
    <3>2. ~setback' => ~setback /\ ~(clock' < clock)
      BY <3>1, Zenon
    <3>3. QED
      BY <1>0, <2>1, <3>2
  <2>3. UNCHANGED <<fd_, tmlast_, bytecache_, thrdCycle_, due, cached, age>>
    BY <1>3 DEF SetClock, L!ClockSet
  <2>4. QED
    BY <1>0, <2>1, <2>2, <2>3 DEF Flushing
<1>4. ASSUME L!Write, clock' = clock PROVE Flushing'
  <2>1. CASE L!WriteOn
    BY <1>0, <1>4, <2>1 DEF L!WriteOn, L!StaysOpen, L!Wrote, Flushing
  <2>2. CASE L!WriteReopen
    BY <1>0, <1>4, <2>2 DEF L!WriteReopen, L!Wrote, Flushing
  <2>3. CASE L!WriteDenied
    BY <2>3 DEF L!WriteDenied, Flushing
  <2>4. QED
    BY <1>4, <2>1, <2>2, <2>3 DEF L!Write
<1>5. CASE Write
  BY <1>4, <1>5 DEF Write
<1>6. CASE Cycle
  BY <1>0, <1>6 DEF Cycle, L!Cycle, Flushing
<1>7. CASE Check
  <2>1. CASE low
    BY <1>4, <1>7, <2>1 DEF Check
  <2>2. CASE ~low
    BY <1>7, <2>2 DEF Check, logvars, Flushing
  <2>3. QED
    BY <2>1, <2>2
<1>8. CASE CheckThrows
  BY <1>8 DEF CheckThrows, logvars, Flushing
<1>9. CASE WriteCrashes
  BY <1>9 DEF WriteCrashes, L!WriteCrashes, L!logvars, Flushing
<1>10. CASE Exit
  BY <1>10 DEF Exit, L!Exit, Flushing
<1>11. QED
  BY <1>1, <1>2, <1>3, <1>5, <1>6, <1>7, <1>8, <1>9, <1>10 DEF Next

LEMMA WaitingStep ==
  ASSUME TypeInv, Waiting, [Next]_vars
  PROVE  Waiting'
<1>0. clock \in Nat /\ left \in Nat /\ last \in Times
  BY DEF TypeInv
<1>1. ASSUME UNCHANGED <<clock, adjusted, left, last>> PROVE Waiting'
  BY <1>1 DEF Waiting, F!Noon
<1>2. CASE Second
  <2>1. /\ clock' = clock + 1 /\ left' = left - 1 /\ last' = last /\ adjusted' = adjusted
    BY <1>2 DEF Second, F!Second
  <2>2. clock' + left' = clock + left
    BY <1>0, <2>1
  <2>3. QED
    BY <2>1, <2>2 DEF Waiting, F!Noon
<1>3. CASE SetClock
  BY <1>3 DEF SetClock, Waiting
<1>4. CASE Check
  <2>1. clock' = clock /\ left' = F!NextNoon /\ last' = clock
    BY <1>4 DEF Check, F!Check
  <2>2. /\ F!NextNoon \in MinWait .. Day + MinWait - 1 /\ F!NextNoon \in Nat
        /\ (clock + F!NextNoon) % Day = F!Noon
    BY <1>0, NextNoonIs
  <2> DEFINE w == F!NextNoon
  <2>3. w \in MinWait .. Day + MinWait - 1 /\ w \in Nat /\ (clock + w) % Day = F!Noon
        /\ clock' = clock /\ left' = w /\ last' = clock
    BY <2>1, <2>2
  <2> HIDE DEF w
  <2>4. (clock + w) - clock = w
    BY <1>0, <2>3
  <2>5. QED
    BY <2>3, <2>4 DEF Waiting, F!Noon
<1>5. CASE Next \/ UNCHANGED vars
  <2>1. CASE Write \/ Cycle \/ CheckThrows \/ WriteCrashes \/ Exit \/ UNCHANGED vars
    BY <1>1, <2>1 DEF Write, Cycle, CheckThrows, F!CheckThrows, WriteCrashes, Exit, freevars, vars
  <2>2. QED
    BY <1>2, <1>3, <1>4, <1>5, <2>1 DEF Next
<1>6. QED
  BY <1>5

-----------------------------------------------------------------------------
(* Lines in the file of their day                                          *)

\* A line more changes nothing about those before it.
LEMMA SameDayStill ==
  ASSUME NEW ls \in Seq(Entries), NEW e \in Entries, NEW l, l = Append(ls, e),
         NEW n \in 1 .. Len(ls), SameDay(ls, n)
  PROVE  SameDay(l, n)
<1>1. /\ Len(ls) \in Nat
      /\ \A i \in 1 .. Len(ls) : l[i] = ls[i]
  OBVIOUS
<1>2. PICK k \in 2 .. n :
        /\ ls[k].day # ls[k - 1].day
        /\ \A j \in k - 1 .. n : ls[j].day % Month = ls[n].day % Month
  BY DEF SameDay
<1>3. l[k].day # l[k - 1].day
  BY <1>1, <1>2
<1>4. \A j \in k - 1 .. n : j \in 1 .. Len(ls) /\ l[j] = ls[j]
  BY <1>1
<1>5. \A j \in k - 1 .. n : l[j].day % Month = l[n].day % Month
  BY <1>1, <1>2, <1>4
<1>6. QED
  BY <1>3, <1>5 DEF SameDay

LEMMA AllRightStill ==
  ASSUME NEW d, NEW s, NEW ls \in Seq(Entries), NEW e \in Entries, NEW l, l = Append(ls, e),
         AllRight(d, s, ls), \A i \in 1 .. Len(s) : s[i].n \in 1 .. Len(ls)
  PROVE  AllRight(d, s, l)
<1> SUFFICES ASSUME NEW i \in 1 .. Len(s) PROVE Right(d, s[i], l)
  BY DEF AllRight
<1> PICK x : x = s[i]
  OBVIOUS
<1>1. x.n \in 1 .. Len(ls) /\ (x.day = d \/ SameDay(ls, x.n))
  BY DEF AllRight, Right
<1>2. x.day = d \/ SameDay(l, x.n)
  BY <1>1, SameDayStill
<1>3. QED
  BY <1>2 DEF Right

\* The next line of the same day of the month: of the same date, or of whole months later
\* or earlier.
LEMMA CurrentStill ==
  ASSUME NEW ls \in Seq(Entries), NEW e \in Entries, NEW l, l = Append(ls, e),
         NEW fd, Current(fd, ls), e.day % Month = fd % Month
  PROVE  Current(fd, l)
<1> DEFINE n == Len(ls)
<1>1. /\ n \in Nat /\ Len(l) = n + 1 /\ l[n + 1] = e
      /\ \A i \in 1 .. n : l[i] = ls[i]
  OBVIOUS
<1>2. n \in 1 .. n /\ n # 0
  BY <1>1 DEF Current
<1>3. l[n].day % Month = fd % Month /\ (l[n].day = fd \/ SameDay(l, n))
  <2>1. ls[n].day % Month = fd % Month /\ (ls[n].day = fd \/ SameDay(ls, n))
    BY DEF Current
  <2>2. SameDay(ls, n) => SameDay(l, n)
    BY <1>2, SameDayStill
  <2>3. QED
    BY <1>1, <1>2, <2>1, <2>2
<1> HIDE DEF n
<1>4. CASE e.day = l[n].day /\ l[n].day # fd
  <2>1. PICK k \in 2 .. n :
          /\ l[k].day # l[k - 1].day
          /\ \A j \in k - 1 .. n : l[j].day % Month = l[n].day % Month
    BY <1>3, <1>4 DEF SameDay
  <2>2. k \in 2 .. n + 1 /\ \A j \in k - 1 .. n + 1 : j \in k - 1 .. n \/ j = n + 1
    BY <1>1
  <2>3. \A j \in k - 1 .. n + 1 : l[j].day % Month = l[n + 1].day % Month
    BY <1>1, <1>4, <2>1, <2>2
  <2>4. SameDay(l, n + 1)
    BY <2>1, <2>2, <2>3 DEF SameDay
  <2>5. QED
    BY <1>1, <2>4 DEF Current
<1>5. CASE e.day # l[n].day
  <2>1. n + 1 \in 2 .. n + 1 /\ (n + 1) - 1 = n /\ \A j \in n .. n + 1 : j = n \/ j = n + 1
    BY <1>1, <1>2
  <2>2. \A j \in n .. n + 1 : l[j].day % Month = l[n + 1].day % Month
    BY <1>1, <1>3, <2>1
  <2>3. SameDay(l, n + 1)
    BY <1>1, <1>5, <2>1, <2>2 DEF SameDay
  <2>4. QED
    BY <1>1, <2>3 DEF Current
<1>6. CASE e.day = fd
  BY <1>1, <1>6 DEF Current
<1>7. QED
  BY <1>4, <1>5, <1>6

LEMMA FlushedRight ==
  ASSUME TypeInv, NEW ls, \A d \in DOMAIN files : AllRight(d, files[d], ls),
         fd_ # NoFile => AllRight(fd_, cached, ls)
  PROVE  \A d \in DOMAIN L!Flushed : AllRight(d, L!Flushed[d], ls)
<1>1. CASE fd_ = NoFile
  BY <1>1, FlushedIsWritten
<1>2. CASE fd_ # NoFile
  <2> PICK g : g = Written(files, cached, fd_)
    OBVIOUS
  <2> PICK b : b = Before(files, fd_)
    OBVIOUS
  <2>1. files \in [DOMAIN files -> Seq(Entries)] /\ cached \in Seq(Entries) /\ L!Flushed = g
    BY <1>2, FlushedIsWritten DEF TypeInv
  <2>2. Appended(files, cached, fd_, g, b)
    BY <2>1, WrittenFiles, Zenon
  <2>3. ASSUME NEW d \in DOMAIN g, NEW i \in 1 .. Len(g[d]) PROVE Right(d, g[d][i], ls)
    <3>1. Place(files, cached, fd_, g, b, d, i)
      BY <2>1, <2>2, WrittenCells, Zenon
    <3>2. QED
      BY <1>2, <3>1 DEF Place, AllRight
  <2>4. QED
    BY <2>1, <2>3 DEF AllRight
<1>3. QED
  BY <1>1, <1>2

\* Where the entries of the files and of the buffer are among the lines.
LEMMA AllListed ==
  ASSUME NEW fs, NEW ca, NEW ls, NEW den, Stored(fs, ca, ls, den)
  PROVE  /\ \A d \in DOMAIN fs : \A i \in 1 .. Len(fs[d]) : fs[d][i].n \in 1 .. Len(ls)
         /\ \A i \in 1 .. Len(ca) : ca[i].n \in 1 .. Len(ls)
  BY DEF Stored, Listed

LEMMA FiledStep ==
  ASSUME TypeInv, AllStored, Filed, [Next]_vars
  PROVE  Filed'
<1> DEFINE fl == L!Flushed
           e == L!Line
           today == L!Today
<1>1. /\ files \in [DOMAIN files -> Seq(Entries)] /\ cached \in Seq(Entries) /\ lines \in Seq(Entries)
      /\ e \in Entries /\ e.day = today /\ e.n = Len(lines) + 1
  BY LineIs DEF TypeInv
<1>2. /\ fd_ # NoFile => day_ = fd_ % Month /\ Current(fd_, lines)
      /\ \A d \in DOMAIN files : AllRight(d, files[d], lines)
      /\ fd_ # NoFile => AllRight(fd_, cached, lines)
  BY DEF Filed
<1>3. \A d \in DOMAIN fl : AllRight(d, fl[d], lines)
  BY <1>2, FlushedRight
<1>4. AllRight(fd_, <<>>, lines)
  BY DEF AllRight
<1>5. Stored(files, cached, lines, denied) /\ Stored(fl, <<>>, lines, denied)
  BY FlushedStored DEF AllStored
<1> HIDE DEF fl, e, today
<1>6. CASE Still
  BY <1>2, <1>6 DEF Still, Filed
<1>7. CASE Flush
  <2>1. /\ files' = fl /\ cached' = <<>> /\ fd_' \in {fd_, NoFile} /\ lines' = lines /\ day_' = day_
    BY <1>7 DEF Flush, fl
  <2>2. QED
    BY <1>2, <1>3, <1>4, <2>1 DEF Filed
<1>8. CASE L!Write
  <2>1. lines' = Append(lines, e) /\ day_' = today % Month
    BY <1>8 DEF L!Write, L!WriteOn, L!WriteReopen, L!WriteDenied, L!Asked, e, today
  <2> PICK l : l = lines'
    OBVIOUS
  <2>2. ASSUME NEW d, NEW s, AllRight(d, s, lines), \A i \in 1 .. Len(s) : s[i].n \in 1 .. Len(lines)
        PROVE  AllRight(d, s, l)
    BY <1>1, <2>1, <2>2, AllRightStill
  <2>3. \A d \in DOMAIN fl : AllRight(d, fl[d], l)
    BY <1>3, <1>5, <2>2, AllListed
  <2>4. /\ Len(l) = Len(lines) + 1 /\ Len(l) # 0 /\ l[Len(l)] = e /\ e.n = Len(l)
    BY <1>1, <2>1
  <2>5. CASE L!WriteOn
    <3>1. files' = files /\ cached' = Append(cached, e) /\ fd_' = fd_ /\ fd_ # NoFile /\ day_ = today % Month
      BY <2>5 DEF L!WriteOn, L!StaysOpen, e, today
    <3>2. (\A d \in DOMAIN files : AllRight(d, files[d], l)) /\ AllRight(fd_, cached, l)
      BY <1>2, <1>5, <2>2, <3>1, AllListed
    <3>3. e.day % Month = fd_ % Month
      BY <1>1, <1>2, <3>1
    <3>4. Current(fd_, l)
      BY <1>1, <1>2, <2>1, <3>1, <3>3, CurrentStill
    <3>5. Right(fd_, e, l)
      BY <2>4, <3>4 DEF Right, Current
    <3>6. AllRight(fd_, Append(cached, e), l)
      <4>1. /\ Len(Append(cached, e)) = Len(cached) + 1 /\ Append(cached, e)[Len(cached) + 1] = e
            /\ \A i \in 1 .. Len(cached) : Append(cached, e)[i] = cached[i]
            /\ Len(cached) \in Nat
        BY <1>1
      <4>2. \A i \in 1 .. Len(cached) + 1 : i = Len(cached) + 1 \/ i \in 1 .. Len(cached)
        BY <4>1
      <4>3. QED
        BY <3>2, <3>5, <4>1, <4>2 DEF AllRight
    <3>7. day_' = fd_ % Month
      BY <1>2, <2>1, <3>1
    <3>8. QED
      BY <3>1, <3>2, <3>4, <3>6, <3>7 DEF Filed
  <2>6. CASE L!WriteReopen
    <3>1. files' = fl /\ cached' = <<e>> /\ fd_' = today
      BY <2>6 DEF L!WriteReopen, fl, e, today
    <3>2. Current(today, l)
      BY <1>1, <2>4 DEF Current
    <3>3. Right(today, e, l)
      BY <1>1 DEF Right
    <3>4. AllRight(today, <<e>>, l)
      BY <3>3 DEF AllRight
    <3>5. QED
      BY <2>1, <2>3, <3>1, <3>2, <3>4 DEF Filed
  <2>7. CASE L!WriteDenied
    <3>1. files' = fl /\ fd_' = NoFile
      BY <2>7 DEF L!WriteDenied, fl
    <3>2. QED
      BY <2>3, <3>1 DEF Filed
  <2>8. QED
    BY <1>8, <2>5, <2>6, <2>7 DEF L!Write
<1>9. QED
  BY <1>6, <1>7, <1>8, LogMoves DEF L!Write

-----------------------------------------------------------------------------
(* Theorems                                                                *)

LEMMA InitIInv ==
  ASSUME Init
  PROVE  IInv
<1>1. /\ cached = <<>> /\ lines = <<>> /\ denied = {} /\ fd_ = NoFile /\ DOMAIN files = {}
      /\ files = [d \in {} |-> <<>>] /\ clock \in Nat /\ day_ = -1 /\ last = -1 /\ left = Delay
  BY BoundAssumption DEF Init, L!Init, F!Init, F!Never
<1>2. <<>> \in Seq(Entries) /\ Len(<<>>) = 0 /\ 1 .. 0 = {}
  OBVIOUS
<1>3. TypeInv
  <2>1. files \in [DOMAIN files -> Seq(Entries)]
    BY <1>1
  <2>2. left \in Nat /\ last \in Times /\ day_ \in Int
    BY <1>1, WaitAssumption DEF Times
  <2>3. /\ adjusted \in BOOLEAN /\ low \in BOOLEAN /\ tmlast_ \in Nat
        /\ bytecache_ \in BOOLEAN /\ thrdCycle_ \in BOOLEAN /\ due \in BOOLEAN
        /\ age \in Nat /\ setback \in BOOLEAN
    BY DEF Init, L!Init
  <2>4. QED
    BY <1>1, <1>2, <2>1, <2>2, <2>3 DEF TypeInv
<1>4. AllStored
  BY <1>1, <1>2 DEF AllStored, Stored
<1>5. Filed
  BY <1>1, <1>2 DEF Filed
<1>6. Flushing
  BY <1>1 DEF Flushing
<1>7. Waiting
  BY <1>1 DEF Waiting
<1>8. QED
  BY <1>3, <1>4, <1>5, <1>6, <1>7 DEF IInv

LEMMA NextIInv ==
  ASSUME IInv, [Next]_vars
  PROVE  IInv'
<1>1. TypeInv'
  BY TypedStep, LogTypedStep, TypeParts DEF IInv
<1>2. AllStored' /\ Filed' /\ Flushing' /\ Waiting'
  BY StoredStep, FiledStep, FlushingStep, WaitingStep DEF IInv
<1>3. QED
  BY <1>1, <1>2 DEF IInv

\* Whatever is written, whatever the clock does and however often the disk is not there:
\* what is listed, where it is, and when the two threads wake.
THEOREM HousekeepingInvariance == Spec => []IInv
<1>1. Init => IInv
  BY InitIInv
<1>2. IInv /\ [Next]_vars => IInv'
  BY NextIInv
<1>3. QED
  BY <1>1, <1>2, PTL DEF Spec

LEMMA StoredOnce ==
  ASSUME TypeInv, AllStored
  PROVE  NothingIsLost
<1> DEFINE places == {p \in (DOMAIN files) \X (1 .. Len(lines)) : p[2] <= Len(files[p[1]])}
           at(p)  == files[p[1]][p[2]].n
           onDisk == {at(p) : p \in places}
           inside == {cached[i].n : i \in 1 .. Len(cached)}
<1>1. /\ files \in [DOMAIN files -> Seq(Entries)] /\ cached \in Seq(Entries) /\ lines \in Seq(Entries)
      /\ Stored(files, cached, lines, denied)
  BY DEF TypeInv, AllStored
<1>2. \A d \in DOMAIN files : Len(files[d]) \in Nat /\ Len(files[d]) <= Len(lines)
  BY <1>1 DEF Stored
<1>3. ASSUME NEW p \in places
      PROVE  p[1] \in DOMAIN files /\ p[2] \in 1 .. Len(files[p[1]]) /\ p = <<p[1], p[2]>>
  BY <1>2
<1>4. ASSUME NEW d \in DOMAIN files, NEW i \in 1 .. Len(files[d])
      PROVE  <<d, i>> \in places
  BY <1>1, <1>2
<1>5. \A p \in places : at(p) \in (1 .. Len(lines)) \ denied
  BY <1>1, <1>3 DEF Stored, Listed
<1>6. \A k \in 1 .. Len(cached) : cached[k].n \in (1 .. Len(lines)) \ denied
  BY <1>1 DEF Stored, Listed
<1>7. ASSUME NEW n \in 1 .. Len(lines), n \notin denied PROVE n \in onDisk \cup inside
  <2>1. CASE \E d \in DOMAIN files : \E i \in 1 .. Len(files[d]) : files[d][i].n = n
    <3>0. PICK d \in DOMAIN files : \E i \in 1 .. Len(files[d]) : files[d][i].n = n
      BY <2>1
    <3>1. PICK i \in 1 .. Len(files[d]) : files[d][i].n = n
      BY <3>0
    <3>2. <<d, i>> \in places /\ at(<<d, i>>) = n
      BY <1>4, <3>1
    <3>3. QED
      BY <3>2
  <2>2. CASE \E k \in 1 .. Len(cached) : cached[k].n = n
    BY <2>2
  <2>3. QED
    BY <1>1, <1>7, <2>1, <2>2 DEF Stored
<1>8. \A p \in places : \A k \in 1 .. Len(cached) : at(p) # cached[k].n
  BY <1>1, <1>3 DEF Stored
<1>9. \A p, q \in places : at(p) = at(q) => p = q
  <2> SUFFICES ASSUME NEW p \in places, NEW q \in places, at(p) = at(q) PROVE p = q
    OBVIOUS
  <2>1. p[1] = q[1] /\ p[2] = q[2]
    BY <1>1, <1>3 DEF Stored
  <2>2. QED
    BY <1>3, <2>1
<1> HIDE DEF places, at
<1>10. onDisk \cup inside = (1 .. Len(lines)) \ denied
  BY <1>5, <1>6, <1>7
<1>11. onDisk \cap inside = {}
  BY <1>8
<1>12. QED
  BY <1>9, <1>10, <1>11 DEF NothingIsLost, L!NothingIsLost, places, at

\* Every line that found a file is in the files or in the buffer, once.
THEOREM LinesAreKept == Spec => []NothingIsLost
<1>1. IInv => NothingIsLost
  BY StoredOnce DEF IInv
<1>2. QED
  BY <1>1, HousekeepingInvariance, PTL

\* Every line is in the file of its own date, however the clock is set: an older or a newer
\* one has it only if nothing was written for whole months before it, with the day of the
\* month the same ever since (GLog.cpp:37-45).
THEOREM LinesAreFiled == Spec => []FiledUnderItsDay
<1>1. IInv => FiledUnderItsDay
  BY DEF IInv, Filed, AllRight, Right, SameDay, FiledUnderItsDay, L!FiledUnderItsDay, L!SameDayOfMonth
<1>2. QED
  BY <1>1, HousekeepingInvariance, PTL

\* The log is on disk two seconds after the last line, unless the clock was set back.
THEOREM LinesAreFlushed == Spec => []FlushedInTime
<1>1. IInv => FlushedInTime
  BY DEF IInv, Flushing, FlushedInTime, L!FlushedInTime
<1>2. QED
  BY <1>1, HousekeepingInvariance, PTL

\* As long as nobody sets the clock, the storage is looked at every noon, once.
THEOREM StorageIsChecked == Spec => EveryNoonOnce
<1>1. IInv /\ [Next]_vars => [~adjusted => F!EveryNoonOnce]_vars
  <2> SUFFICES ASSUME IInv, Next, ~adjusted, last' # last, last # -1
               PROVE  clock % Day = F!Noon /\ clock - last \in MinWait .. Day + MinWait - 1
    BY DEF F!EveryNoonOnce, F!Never
  <2>1. Check
    BY DEF Next, Second, F!Second, SetClock, Write, Cycle, CheckThrows, F!CheckThrows,
           WriteCrashes, Exit, freevars
  <2>2. left = 0 /\ clock \in Nat
    BY <2>1 DEF Check, F!Check, IInv, TypeInv
  <2>3. (clock + left) % Day = F!Noon /\ (clock + left) - last \in MinWait .. Day + MinWait - 1
    BY DEF IInv, Waiting
  <2>4. clock + left = clock
    BY <2>2
  <2>5. QED
    BY <2>3, <2>4
<1>2. QED
  BY <1>1, HousekeepingInvariance, PTL DEF Spec, EveryNoonOnce

=============================================================================

--------------------------- MODULE MCAsciiProtocol ---------------------------
(* Instances of AsciiProtocol for TLC: what the callers hand over.         *)
EXTENDS AsciiProtocol

MCWords == Types \cup Keywords \cup {"now", "g", "u", "c", "rain"}

\* A text of field f, each made of words of its own so that a text that ends up in
\* another field is noticed.
CleanTexts(f) == {NULL, <<Word(f)>>, <<Word(f), Space, Word(f)>>}
DirtyTexts(f) == {<<Word(f), Comma, Word(f)>>, <<Word(f), Equals, Word(f)>>, <<Equals, Word(f)>>,
                  <<Word(f), Dot>>, <<Space, Word(f)>>, <<Dot>>,
                  <<Word(f), Comma, Word("gid"), Equals, Word(f)>>}
LongText(f)   == [i \in 1 .. 40 |-> Word(f)]

Ints    == {INT_MIN, 7}
\* Zero, 180 degrees, seven digits that round up, and a negative one.
Degrees == {0, 1800000, 3456788, -456789}

Identities == {[gid |-> NULL, uid |-> NULL, cid |-> NULL],
               [gid |-> <<Word("g")>>, uid |-> NULL, cid |-> NULL],
               [gid |-> <<Word("g")>>, uid |-> <<Word("u")>>, cid |-> <<Word("c"), Comma, Word("c")>>],
               [gid |-> <<Word("g")>>, uid |-> <<Word("u")>>, cid |-> <<Word("c")>>]}

\* A protocol with every field set.
Set(p, f) == IF f \in Texts THEN <<Word(f)>>
             ELSE IF IsDouble(p, f) THEN 3456788 \div (IF f = "dec" THEN 10 ELSE 1) ELSE 7
Full(p) == [f \in DOMAIN p |-> IF f \in Base \cup {"type"} THEN p[f] ELSE Set(p, f)]

\* All values of one field or of two texts, beside the constructed and the full protocol.
Values(p, f) == IF f \in Texts THEN CleanTexts(f) \cup DirtyTexts(f)
                ELSE IF IsDouble(p, f) THEN Degrees ELSE Ints
Varied(p) ==
  LET own == DOMAIN p \ (Base \cup {"type"})
  IN {p, Full(p)}
     \cup UNION {{[q EXCEPT ![f] = v] : v \in Values(p, f), q \in {p, Full(p)}} : f \in own}
     \cup UNION {{[Full(p) EXCEPT ![f] = v, ![g] = w] : v \in DirtyTexts(f), w \in DirtyTexts(g)} :
                   f \in own \cap Texts, g \in own \cap Texts}
     \cup {[id @@ p EXCEPT !.type = p.type] : id \in Identities}

PointerCalls == {[form |-> "pointer", p |-> p] : p \in UNION {Varied(q) : q \in ByPointer}}

ArgumentCalls ==
  {[form |-> "arguments", p |-> p] :
     p \in UNION {Varied(q) : q \in {ascii_proto_home_sync, ascii_proto_slewto, ascii_proto_track,
                    ascii_proto_park, ascii_proto_abort_slew, ascii_proto_focus, ascii_proto_slit,
                    ascii_proto_expose}}}
  \cup {[form |-> "arguments", p |-> [ascii_proto_rain EXCEPT !.value = v]] :
          v \in {<<Num(1)>>, <<Word("rain")>>, NULL}}

TooLong == [form |-> "pointer",
            p |-> [ascii_proto_fileinfo EXCEPT !.filename = LongText("filename"), !.filesize = 7]]

MCCalls == PointerCalls \cup ArgumentCalls \cup {TooLong}

MCAgain == {[form |-> "pointer", p |-> [ascii_proto_filestat EXCEPT !.status = 7]],
            [form |-> "pointer", p |-> ascii_proto_focus],
            TooLong}

=============================================================================

--------------------------- MODULE MCFileReceiver ---------------------------
(* Instances of FileReceiver for TLC.                                      *)
EXTENDS FileReceiver, TLC

CONSTANTS f1, f2, f3, b1, b2, b3

\* Two files of the same size, so that the second can reuse the buffer of the
\* first once the writer has let go of it, and one of another size.
ThreeSizes == (f1 :> 2) @@ (f2 :> 2) @@ (f3 :> 1)
TwoSizes   == (f1 :> 2) @@ (f2 :> 1)
OneSize    == (f1 :> 2)
UnitSize   == (f1 :> 1)

MCBuffers == {b1, b2, b3}

Identities == Permutations(MCBuffers)

\* For liveness, where symmetry is unsound: of the free buffers, which are all alike,
\* the first is taken.
Order == (b1 :> 1) @@ (b2 :> 2) @@ (b3 :> 3)
FirstIsTaken == fileptr' # fileptr => \A b \in Buffers \ InUse : Order[fileptr'] <= Order[b]
MCNext == Client \/ Io \/ (Msg /\ FirstIsTaken) \/ Writer

MCFairSpec == Init /\ [][MCNext]_vars /\ Fairness

=============================================================================

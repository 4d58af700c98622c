---------------------------- MODULE MCFileWritter ----------------------------
(* Instances of FileWritter for TLC.                                       *)
EXTENDS FileWritter, TLC

CONSTANTS f1, f2, f3, p1, p2

ThreeFiles == {f1, f2, f3}
TwoFiles   == {f1, f2}

\* One receiver hands its files over one after the other.
OneProducer  == {p1}
TwoProducers == {p1, p2}

=============================================================================

----------------------------- MODULE MCNTPClient -----------------------------
(* A small instance of NTPClient for TLC.                                   *)
EXTENDS NTPClient

MCErrs == {-2, 0, 1}

=============================================================================

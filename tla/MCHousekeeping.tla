--------------------------- MODULE MCHousekeeping ---------------------------
(* A small instance of Housekeeping for TLC: a day has 4 seconds, a month   *)
(* has two days.                                                            *)
EXTENDS Housekeeping

MCDirs ==
  {[g |-> TRUE, date |-> -5], [g |-> FALSE, date |-> -5],
   [g |-> TRUE, date |-> BadDate]}
MCStart == {0, 2, 3}
MCJumps == {-7, 2}

=============================================================================

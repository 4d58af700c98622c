----------------------------- MODULE MCTCPClient -----------------------------
(* Instances of TCPClient for TLC.                                         *)
EXTENDS TCPClient

CONSTANTS a, nl

\* One letter to search for, a two-letter flag, and one that overlaps itself.
MCFlags == {<<nl>>, <<a, nl>>, <<a, a>>, <<nl, a, nl>>}

=============================================================================

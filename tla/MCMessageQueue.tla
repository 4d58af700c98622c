--------------------------- MODULE MCMessageQueue ---------------------------
(* A small instance of MessageQueue for TLC: messages with a function, and  *)
(* one whose identifier is too small to have any.                           *)
EXTENDS MessageQueue

MCIds == {MSG_USER - 1, MSG_USER, MSG_USER + 1}

=============================================================================

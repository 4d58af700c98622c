--------------------------- MODULE MCTransferAgent ---------------------------
(* Small instances of TransferAgent for TLC.                                *)
EXTENDS TransferAgent, TLC

CONSTANTS c1, c2, l1, l2

MCConns == {c1, c2}
MCLinks == {l1, l2}

\* The receivers and the link to the data-process share no variable but crashed:
\* they are explored one at a time, not in every combination. Of the connections,
\* which are all alike, c1 comes first, and only c1 sends something before its end.
MCNext ==
  /\ Next
  /\ peer'[c1] = "away" => peer'[c2] = "away"
  /\ poster'[c2] # MSG_NETWORK_RECEIVE
  /\ \/ \A c \in Conns : peer'[c] = "away"
     \/ \A l \in Links : lsock'[l] = "none"

MCSpec == Init /\ [][MCNext]_vars /\ Fairness

=============================================================================

---------------------------- MODULE MCTxDispatch ----------------------------
(* Two connections of two sessions, each opening a transaction, running  *)
(* one more request in it and committing it, and a third connection      *)
(* sending one request outside any transaction.                          *)
EXTENDS TxDispatch

MCRequests ==
    [c \in Clients |->
        CASE c = "c1" -> << [session_id |-> "s1", commit |-> FALSE],
                            [session_id |-> "s1", commit |-> FALSE],
                            [session_id |-> "s1", commit |-> TRUE] >>
          [] c = "c2" -> << [session_id |-> "s2", commit |-> FALSE],
                            [session_id |-> "s2", commit |-> TRUE] >>
          [] OTHER    -> << NoTxContext >>]
=============================================================================

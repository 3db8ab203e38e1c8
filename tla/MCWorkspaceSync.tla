--------------------------- MODULE MCWorkspaceSync --------------------------
(* Two paths, named by numbers so that paths have an order.  One file is       *)
(* created on the local side, then edited on either.  Alone, it meets every    *)
(* fault; beside one in conflict, which no pass can finish, it meets none.     *)
EXTENDS WorkspaceSync

MCPath == {1, 2}
MCEdited == {1}
MCInit ==
    /\ Init
    /\ LET c == CHOOSE c \in Version : TRUE IN      \* contents are interchangeable
       /\ file["local"][1] = c /\ file["remote"][1] = Missing
       /\ \/ file["local"][2] = Missing /\ file["remote"][2] = Missing /\ faults = 0 /\ writes
          \/ file["local"][2] = c /\ file["remote"][2] \notin {Missing, c} /\ faults = MaxFaults
MCSpec == MCInit /\ [][Next]_vars /\ Fairness
=============================================================================

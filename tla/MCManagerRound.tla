---------------------------- MODULE MCManagerRound ----------------------------
(***************************************************************************)
(* Instances of ManagerRound for TLC.                                      *)
(***************************************************************************)
EXTENDS ManagerRound

CONSTANTS n1, n2

OneSender == {{n1}}

\* Preparations with a fault plan and a broken link; one round under commands
\* and a broken link; two rounds with a broken link.
SplitBudgets ==
    {[rounds |-> 2, plans |-> 1, commands |-> 0, breaks |-> 1],
     [rounds |-> 1, plans |-> 0, commands |-> 2, breaks |-> 1],
     [rounds |-> 2, plans |-> 0, commands |-> 1, breaks |-> 0]}
=============================================================================

-------------------------- MODULE MCTransfers --------------------------
(* Instances of Transfers for TLC: two concurrent requests between the    *)
(* seed account and one account that may not exist yet (or any more).     *)
EXTENDS TransfersAccounting

CONSTANTS acc001, acc002, t1, t2

MCAccounts  == {acc001, acc002}
MCTransfers == {t1, t2}
MCOpening   == [a \in MCAccounts |-> IF a = acc001 THEN 10 ELSE 1]

Body(from, to, amount, role) ==
  [from |-> from, to |-> to, amount |-> amount, role |-> role]

\* Both directions, with amounts whose sums differ, the request that is its own
\* counterparty, and a caller whose role may only read.
MCBodies == {Body(acc001, acc002, 2, "finance-trader"),
             Body(acc002, acc001, 5, "finance-admin"),
             Body(acc001, acc001, 2, "finance-admin"),
             Body(acc001, acc002, 2, "finance-analyst")}
=======================================================================

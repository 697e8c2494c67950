--------------------------- MODULE MCPayments ---------------------------
(* Instances of Payments for TLC.                                         *)
EXTENDS PaymentsAccounting, TLC

CONSTANTS acc001, acc002, p1, p2, v1, v2

MCAccounts == {acc001, acc002}
MCOpening  == [a \in MCAccounts |-> IF a = acc001 THEN 10 ELSE 1]

Order(account, amount, role)  == [account |-> account, amount |-> amount, role |-> role]
Ruling(payment, action, role) == [payment |-> payment, action |-> action, role |-> role]

\* A payment on an account that may be unknown, one without an account, and one
\* by a caller who may only read.
MCOrders == {Order(acc002, 3, "finance-trader"),
             Order(Blank, 3, "finance-admin"),
             Order(acc002, 3, "finance-auditor")}

\* Two officers, and a trader, who may not decide.
MCRulings == {Ruling(p1, "approved", "finance-compliance"),
              Ruling(p1, "rejected", "finance-admin"),
              Ruling(p1, "approved", "finance-trader")}

\* Two payments on two accounts, decided by one officer each.
TwoOrders  == {Order(acc001, 3, "finance-trader"), Order(acc002, 5, "finance-admin")}
TwoRulings == {Ruling(p1, "approved", "finance-compliance"),
               Ruling(p2, "flagged", "finance-compliance")}

\* The two officers are interchangeable; the run without liveness uses it.
Officers == Permutations({v1, v2})
=======================================================================

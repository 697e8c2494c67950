--------------------------- MODULE MCMeridian ---------------------------
(* One transfer, one payment with its approval and two deposits, all on   *)
(* the same two accounts. Sums of different entries differ.               *)
EXTENDS Meridian

CONSTANTS acc001, acc002, p1

MCAccounts == {acc001, acc002}
MCOpening  == [a \in MCAccounts |-> IF a = acc001 THEN 10 ELSE 50]

MCBodies         == {[from |-> acc001, to |-> acc002, amount |-> 16, role |-> "finance-trader"]}
MCPaymentBodies  == {[account |-> acc001, amount |-> 8, role |-> "finance-trader"]}
MCDecisionBodies == {[payment |-> p1, action |-> "approved", role |-> "finance-compliance"]}
MCContended      == {[account |-> acc001, amount |-> 1, role |-> "finance-admin"]}
MCDepositBodies  == MCContended \cup
                     {[account |-> acc002, amount |-> 2, role |-> "finance-admin"],
                      [account |-> acc001, amount |-> 1, role |-> "finance-trader"]}
=======================================================================

----------------------- MODULE PaymentsAccounting -----------------------
(* The money side of Payments: balances as sums over executed debits.     *)
EXTENDS Payments, Functions

\* The debits on account a that the current account-service has executed.
DebitsOn(a) == {v \in Decisions : debit[v] = "applied" /\ AccountOf(PayOf(v)) = a}

Amounts == [v \in Decisions |-> order[PayOf(v)].amount]

\* Balances and decisions agree: an account holds its opening balance less the
\* amounts of the approvals whose debit was executed, each counted once, on
\* the account and with the amount the payment was made with.
BalancesMatchDebits ==
  \A a \in DOMAIN store : store[a] = Opening[a] - SumFunctionOnSet(Amounts, DebitsOn(a))
=======================================================================

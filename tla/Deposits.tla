---------------------------- MODULE Deposits ----------------------------
(* POST /v1/accounts/{id}/deposit of gateway-api, and the reply it passes *)
(* on: account-service applies the delta under the map's lock, but reads  *)
(* the balance for the answer later, from the Account all requests share. *)
EXTENDS AccountService, Calls

CONSTANTS Deposits,       \* the requests
          DepositBodies,  \* their accounts, amounts and callers' roles
          Faults          \* what may go wrong, a subset of FaultKinds

FaultKinds == {"timeout", "loss", "accountRestart", "gatewayCrash"}

ASSUME DepositsAssumption ==
  /\ Faults \subseteq FaultKinds
  /\ \A b \in DepositBodies : b.account \in Accounts /\ b.amount \in Nat \ {0}

VARIABLES slip,      \* slip[d]: the body of request d
          teller,    \* teller[d]: where its handler is, or how it ended
          credit,    \* credit[d]: its call to account-service; "reading" once the
                     \* delta is applied and the balance not yet read
          quoted     \* quoted[d]: the balance in account-service's reply, as a
                     \* set that is empty until it is read

depositVars == <<slip, teller, credit, quoted>>

DepositTypeOK ==
  /\ slip \in [Deposits -> DepositBodies]
  /\ teller \in [Deposits -> {"idle", "waiting", "done", "failed", "refused", "crashed"}]
  /\ credit \in [Deposits -> CallState \cup {"reading"}]
  /\ quoted \in [Deposits -> SUBSET Int]

DepositInit ==
  /\ slip \in [Deposits -> DepositBodies]
  /\ teller = [d \in Deposits |-> "idle"]
  /\ credit = [d \in Deposits |-> "unsent"]
  /\ quoted = [d \in Deposits |-> {}]

Deposit(d) ==
  /\ teller[d] = "idle"
  /\ slip[d].role = "finance-admin"
  /\ teller' = [teller EXCEPT ![d] = "waiting"]
  /\ credit' = [credit EXCEPT ![d] = "sent"]
  /\ UNCHANGED <<accountVars, slip, quoted>>

RefuseDeposit(d) ==
  /\ teller[d] = "idle"
  /\ slip[d].role # "finance-admin"
  /\ teller' = [teller EXCEPT ![d] = "refused"]
  /\ UNCHANGED <<accountVars, slip, credit, quoted>>

\* 200 with the balance of the reply, whichever incarnation it came from.
DepositOk(d) ==
  /\ teller[d] = "waiting"
  /\ credit[d] \in Performed
  /\ quoted[d] # {}
  /\ teller' = [teller EXCEPT ![d] = "done"]
  /\ UNCHANGED <<accountVars, slip, credit, quoted>>

\* The reply is an error, does not come in time, or went down with its callee.
DepositRaises(d) ==
  /\ teller[d] = "waiting"
  /\ credit[d] \in Failed \cup {"wiped"} \/ "timeout" \in Faults
  /\ teller' = [teller EXCEPT ![d] = "failed"]
  /\ UNCHANGED <<accountVars, slip, credit, quoted>>

ServeDeposit(d) ==
  /\ credit[d] = "sent"
  /\ ApplyDelta(slip[d].account, slip[d].amount)
  /\ credit' = [credit EXCEPT ![d] = "reading"]
  /\ UNCHANGED <<slip, teller, quoted>>

ServeDepositUnknown(d) ==
  /\ credit[d] = "sent"
  /\ ~Known(slip[d].account)
  /\ credit' = [credit EXCEPT ![d] = "refused"]
  /\ UNCHANGED <<accountVars, slip, teller, quoted>>

\* Mutant: the controller takes applyDelta's result for the account before it.
ReadBalanceAndAdd(d) ==
  /\ credit[d] = "reading"
  /\ quoted' = [quoted EXCEPT ![d] = {store[slip[d].account] + slip[d].amount}]
  /\ credit' = [credit EXCEPT ![d] = "applied"]
  /\ UNCHANGED <<accountVars, slip, teller>>

\* getBalance, outside of the map's lock: other deltas may have come between.
ReadBalance(d) ==
  /\ credit[d] = "reading"
  /\ quoted' = [quoted EXCEPT ![d] = {store[slip[d].account]}]
  /\ credit' = [credit EXCEPT ![d] = "applied"]
  /\ UNCHANGED <<accountVars, slip, teller>>

LoseDeposit(d) ==
  /\ "loss" \in Faults
  /\ credit[d] = "sent"
  /\ credit' = [credit EXCEPT ![d] = "lost"]
  /\ UNCHANGED <<accountVars, slip, teller, quoted>>

DepositStep(d) ==
  \/ Deposit(d) \/ RefuseDeposit(d) \/ DepositOk(d) \/ DepositRaises(d)
  \/ ServeDeposit(d) \/ ServeDepositUnknown(d) \/ ReadBalance(d) \/ LoseDeposit(d)

\* What the two restarts do to deposits.
TellersStop ==
  /\ teller' = [d \in Deposits |-> IF teller[d] = "waiting" THEN "crashed" ELSE teller[d]]
  /\ UNCHANGED <<slip, credit, quoted>>

CreditsForgotten ==
  /\ credit' = [d \in Deposits |-> IF credit[d] = "reading" THEN "wiped" ELSE Wipe(credit[d])]
  /\ UNCHANGED <<slip, teller, quoted>>

DepositAtRest(d) ==
  /\ teller[d] \in {"done", "failed", "refused", "crashed"}
  /\ credit[d] \notin {"sent", "reading"}
=======================================================================

---------------------------- MODULE Meridian ----------------------------
(* The money-moving endpoints of gateway-api side by side: transfers,     *)
(* payments with their decisions, and deposits, whose handlers share one  *)
(* event loop and one account-service.                                    *)
EXTENDS Deposits, Functions

CONSTANTS Transfers, Bodies,
          Payments, Decisions, PaymentBodies, DecisionBodies, Blank, DuplicateFactor,
          MaxTxRestarts

VARIABLES
  body, pc, call, gaveUp,
  order, gw, told, alert, ruling, officer, patch, debit,
  payments, post, reply, sends, ledgerLog, txRestarts, row, fraudMsgs, alertMsgs

T == INSTANCE Transfers
P == INSTANCE Payments

\* What Transfers and Payments assume of their constants, for these.
ASSUME MeridianAssumption ==
  /\ \A b \in Bodies : /\ b.from \in Accounts /\ b.to \in Accounts
                       /\ b.amount \in Nat \ {0}
                       /\ b.role \in STRING
  /\ Blank \notin Accounts
  /\ DuplicateFactor \in Nat \ {0}
  /\ MaxTxRestarts \in Nat
  /\ \A b \in PaymentBodies : b.account \in Accounts \cup {Blank} /\ b.amount \in Nat \ {0}
  /\ \A b \in DecisionBodies : b.payment \in Payments /\ b.action \in P!Action

transferVars == <<body, pc, call, gaveUp>>
paymentVars  == <<order, gw, told, alert, ruling, officer, patch, debit, payments, post, reply,
                  sends, ledgerLog, txRestarts, row, fraudMsgs, alertMsgs>>
vars         == <<accountVars, depositVars, transferVars, paymentVars>>

TypeOK == DepositTypeOK /\ T!TypeOK /\ P!TypeOK

Init == DepositInit /\ T!Init /\ P!Init

-------------------------------------------------------------------------
(* One endpoint's step leaves the others alone; what they share is the    *)
(* store. A process that stops takes the handlers of all of them.         *)

TransferStep == T!Step /\ UNCHANGED <<depositVars, paymentVars>>
PaymentStep  == P!Step /\ UNCHANGED <<depositVars, transferVars>>
DepositsStep ==
  /\ \E d \in Deposits : DepositStep(d)
  /\ UNCHANGED <<transferVars, paymentVars>>

Create(a) ==
  /\ CreateAccount(a)
  /\ UNCHANGED <<depositVars, transferVars, paymentVars>>

GatewayCrash ==
  /\ "gatewayCrash" \in Faults
  /\ \/ \E t \in Transfers : pc[t] \in T!Waiting
     \/ \E p \in Payments : gw[p] \in {"posting", "alerting"}
     \/ \E v \in Decisions : officer[v] \in {"patching", "debiting"}
     \/ \E d \in Deposits : teller[d] = "waiting"
  /\ TellersStop /\ T!HandlersStop /\ P!HandlersStop
  /\ UNCHANGED accountVars

AccountRestart ==
  /\ "accountRestart" \in Faults
  /\ RestartStore
  /\ CreditsForgotten /\ T!CallsForgotten /\ P!DebitsForgotten

Rest ==
  /\ \A d \in Deposits : DepositAtRest(d)
  /\ T!AtRest /\ P!AtRest
  /\ UNCHANGED vars

Next ==
  \/ TransferStep \/ PaymentStep \/ DepositsStep
  \/ \E a \in Accounts : Create(a)
  \/ GatewayCrash \/ AccountRestart
  \/ Rest

Spec == Init /\ [][Next]_vars

-------------------------------------------------------------------------
(* The books. An entry is what one executed call put on an account, as    *)
(* long as account-service remembers it.                                  *)

Entry(id, account, amount) == [id |-> id, account |-> account, amount |-> amount]

TransferEntry(t, l) == Entry(<<"transfer", t, l>>, T!Target(t, l), T!Delta(t, l))
DebitEntry(v) ==
  Entry(<<"decision", v>>, P!AccountOf(P!PayOf(v)), -order[P!PayOf(v)].amount)
DepositEntry(d) == Entry(<<"deposit", d>>, slip[d].account, slip[d].amount)

TransferEntries ==
  {TransferEntry(tl[1], tl[2]) : tl \in {x \in Transfers \X T!Leg : call[x[1]][x[2]] = "applied"}}

PaymentEntries == {DebitEntry(v) : v \in {w \in Decisions : debit[w] = "applied"}}

DepositEntries ==
  {DepositEntry(d) : d \in {e \in Deposits : credit[e] \in {"reading", "applied"}}}

Entries == TransferEntries \cup PaymentEntries \cup DepositEntries

EntriesOn(a) == {e \in Entries : e.account = a}

Sum(entries) == SumFunctionOnSet([e \in entries |-> e.amount], entries)

\* Whatever the three endpoints do at the same time, a balance is the opening
\* balance plus one entry per call executed since account-service started: the
\* endpoints read no balance that they write back, so they cannot lose one
\* another's updates ("Thread-safe via ConcurrentHashMap#compute").
BooksBalance ==
  \A a \in DOMAIN store : store[a] = Opening[a] + Sum(EntriesOn(a))

\* The balance a deposit is answered with need not be the one it produced, since
\* it is read after the lock is given back; but it is one the account has had
\* with the deposit in it: some of the other entries and all of this one.
QuotedBalanceIncludesDeposit ==
  \A d \in Deposits : credit[d] = "applied" =>
    LET a == slip[d].account
        own == DepositEntry(d) IN
    \E others \in SUBSET (EntriesOn(a) \ {own}) :
      quoted[d] = {Opening[a] + Sum(others \cup {own})}

-------------------------------------------------------------------------
(* The three endpoints are one bank.                                     *)

\* The orders that were ever posted, also by an account-service that is gone.
TransferIds ==
  {<<"transfer", tl[1], tl[2]>> :
     tl \in {x \in Transfers \X T!Leg : call[x[1]][x[2]] \in Performed}}

DecisionIds == {<<"decision", v>> : v \in {w \in Decisions : debit[w] \in Performed}}

DepositIds ==
  {<<"deposit", d>> : d \in {e \in Deposits : credit[e] \in Performed \cup {"reading"}}}

Spent == TransferIds \cup DecisionIds \cup DepositIds

B == INSTANCE Bank WITH balance <- store, entries <- Entries, spent <- Spent

\* No call moves its money twice, not even across a restart of account-service:
\* a call that reached its callee is never repeated ("retries=1 transparently
\* reconnects on a dead connection", and no more), and nothing else adds to a balance.
ImplementsBank == B!Spec
=======================================================================

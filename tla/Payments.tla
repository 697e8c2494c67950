---------------------------- MODULE Payments ----------------------------
(* The life of a payment: gateway-api accepts it and forwards it to       *)
(* transaction-service, whose handler stores it in a Map, writes the      *)
(* ledger and publishes for fraud scoring; compliance officers then       *)
(* decide on it, and the gateway debits the account on an approval.       *)
EXTENDS AccountService, Calls

CONSTANTS Payments,          \* POST /v1/payments requests; one fresh payment_id each
          Decisions,         \* PATCH /v1/payments/{id} requests
          PaymentBodies,     \* the bodies (and caller's role) of the former
          DecisionBodies,    \* the bodies (and caller's role) of the latter
          Blank,             \* the empty account_id, which the gateway lets through
          DuplicateFactor,   \* FRAUD_QUEUE_DUPLICATE_FACTOR
          MaxTxRestarts,     \* bound: restarts of transaction-service in a behaviour
          Faults             \* what may go wrong, a subset of FaultKinds

FaultKinds == {"timeout",          \* a reply takes longer than the gateway's 10 s
               "loss",             \* a connection fails before the callee sees the call
               "accountRestart",   \* account-service restarts and forgets
               "txRestart",        \* transaction-service restarts and forgets
               "gatewayCrash",     \* gateway-api dies, and its handlers with it
               "database",         \* a ledger query fails, before or after its effect
               "broker"}           \* a publish fails, or its message is dropped unseen

PaymentRoles    == {"finance-trader", "finance-admin"}
ValidationRoles == {"finance-compliance", "finance-admin"}
Action          == {"approved", "rejected", "flagged"}

ASSUME PaymentsAssumption ==
  /\ Blank \notin Accounts
  /\ DuplicateFactor \in Nat \ {0}
  /\ MaxTxRestarts \in Nat
  /\ Faults \subseteq FaultKinds
  /\ \A b \in PaymentBodies : b.account \in Accounts \cup {Blank} /\ b.amount \in Nat \ {0}
  /\ \A b \in DecisionBodies : b.payment \in Payments /\ b.action \in Action

VARIABLES
  \* gateway-api, the handler of each POST and of each PATCH
  order,       \* order[p]: the body of POST p
  gw,          \* gw[p]: where its handler is
  told,        \* told[p]: the status that goes into its 201 answer
  ruling,      \* ruling[v]: the body of PATCH v
  officer,     \* officer[v]: where its handler is, or how it ended
  patch,       \* patch[v]: the call to transaction-service
  debit,       \* debit[v]: the call to account-service
  alert,       \* alert[p]: the payment-alert call to account-service
  \* transaction-service
  payments,    \* payments[p]: the status in the in-memory Map, or "absent"
  post,        \* post[p]: the POST exchange, and where its handler is
  reply,       \* reply[p]: the status in the handler's 201
  sends,       \* sends[p]: the loop variable i of the publishing loop
  ledgerLog,   \* ledgerLog[p]: what ledger.commit logged for p
  txRestarts,
  \* PostgreSQL and ActiveMQ
  row,         \* row[p]: the status column of the ledger's row
  fraudMsgs,   \* fraudMsgs[p]: messages on fraud.score.queue
  alertMsgs    \* alertMsgs[p]: messages on alert.queue

postVars     == <<order, gw, told, alert>>
decisionVars == <<ruling, officer, patch, debit>>
txVars       == <<payments, post, reply, sends, ledgerLog, txRestarts>>
outsideVars  == <<row, fraudMsgs, alertMsgs>>
paymentVars  == <<postVars, decisionVars, txVars, outsideVars>>
vars         == <<accountVars, paymentVars>>

\* Where the Node handler of POST /v1/payments stands: before it, at each await
\* of it, or after it. "dead": it was at an await when the process stopped.
Running  == {"velocity", "insert", "settle", "publish"}
PostCall == {"unsent", "sent", "answered", "refused", "lost", "dead"} \cup Running
Stored   == Running \cup {"answered"}

Status == {"pending"} \cup Action

TypeOK ==
  /\ AccountTypeOK
  /\ order \in [Payments -> PaymentBodies]
  /\ gw \in [Payments -> {"idle", "posting", "alerting", "replied", "refused", "crashed"}]
  /\ told \in [Payments -> {"none"} \cup Status]
  /\ alert \in [Payments -> CallState]
  /\ ruling \in [Decisions -> DecisionBodies]
  /\ officer \in [Decisions -> {"idle", "patching", "debiting", "ok", "ok_undebited",
                                "failed", "refused", "crashed"}]
  /\ patch \in [Decisions -> CallState]
  /\ debit \in [Decisions -> CallState]
  /\ payments \in [Payments -> {"absent"} \cup Status]
  /\ post \in [Payments -> PostCall]
  /\ reply \in [Payments -> {"none"} \cup Status]
  /\ sends \in [Payments -> 0..DuplicateFactor]
  /\ ledgerLog \in [Payments -> {"none", "committed", "failed"}]
  /\ txRestarts \in 0..MaxTxRestarts
  /\ row \in [Payments -> {"none", "pending", "settled"}]
  /\ fraudMsgs \in [Payments -> 0..DuplicateFactor]
  /\ alertMsgs \in [Payments -> 0..1]

Init ==
  /\ AccountInit
  /\ order \in [Payments -> PaymentBodies]
  /\ ruling \in [Decisions -> DecisionBodies]
  /\ gw = [p \in Payments |-> "idle"]
  /\ told = [p \in Payments |-> "none"]
  /\ alert = [p \in Payments |-> "unsent"]
  /\ officer = [v \in Decisions |-> "idle"]
  /\ patch = [v \in Decisions |-> "unsent"]
  /\ debit = [v \in Decisions |-> "unsent"]
  /\ payments = [p \in Payments |-> "absent"]
  /\ post = [p \in Payments |-> "unsent"]
  /\ reply = [p \in Payments |-> "none"]
  /\ sends = [p \in Payments |-> 0]
  /\ ledgerLog = [p \in Payments |-> "none"]
  /\ txRestarts = 0
  /\ row = [p \in Payments |-> "none"]
  /\ fraudMsgs = [p \in Payments |-> 0]
  /\ alertMsgs = [p \in Payments |-> 0]

\* f with x set to e.
Set(f, x, e) == [f EXCEPT ![x] = e]

\* No reply comes, or none in time. The client's 10 s timer can fire whatever has
\* become of the call; one still "sent" then stays so, and the callee may serve it
\* after the handler left. A callee that restarts may take its reply with it.
Unanswered(c) == ("timeout" \in Faults /\ c # "unsent") \/ c = "wiped"

-------------------------------------------------------------------------
(* gateway-api: POST /v1/payments.                                       *)

SubmitPayment(p) ==
  /\ gw[p] = "idle"
  /\ order[p].role \in PaymentRoles
  /\ gw' = Set(gw, p, "posting")
  /\ post' = Set(post, p, "sent")
  /\ UNCHANGED <<accountVars, decisionVars, outsideVars, order, told, alert,
                 payments, reply, sends, ledgerLog, txRestarts>>

RefusePayment(p) ==
  /\ gw[p] = "idle"
  /\ order[p].role \notin PaymentRoles
  /\ gw' = Set(gw, p, "refused")
  /\ UNCHANGED <<accountVars, decisionVars, outsideVars, txVars, order, told, alert>>

\* The status in the 201 is the one transaction-service answered with; after an
\* httpx.HTTPError of any kind it is "pending" (the stub fallback). Either way
\* the alert is requested next and the client gets its 201.
Alerting(p, status) ==
  /\ gw[p] = "posting"
  /\ told' = Set(told, p, status)
  /\ gw' = Set(gw, p, "alerting")
  /\ alert' = Set(alert, p, "sent")
  /\ UNCHANGED <<accountVars, decisionVars, outsideVars, txVars, order>>

PostOk(p)     == post[p] = "answered" /\ Alerting(p, reply[p])

\* Mutant: only a failed connection is caught.
PostRaisesOnConnect(p) == post[p] = "lost" /\ Alerting(p, "pending")

PostRaises(p) == /\ post[p] \in {"refused", "lost", "dead"} \/ Unanswered(post[p])
                 /\ Alerting(p, "pending")

\* Any reply to the alert, 404 included, and any error end the handler alike.
AlertDone(p) ==
  /\ gw[p] = "alerting"
  /\ alert[p] \in Performed \cup Failed \/ Unanswered(alert[p])
  /\ gw' = Set(gw, p, "replied")
  /\ UNCHANGED <<accountVars, decisionVars, outsideVars, txVars, order, told, alert>>

PostHandler(p) == PostOk(p) \/ PostRaises(p) \/ AlertDone(p)

-------------------------------------------------------------------------
(* gateway-api: PATCH /v1/payments/{id}. Nothing looks at the status the  *)
(* payment has: any decision may follow any other.                        *)

PayOf(v)     == ruling[v].payment
Approves(v)  == ruling[v].action = "approved"
AccountOf(p) == order[p].account

Decide(v) ==
  /\ officer[v] = "idle"
  /\ ruling[v].role \in ValidationRoles
  /\ officer' = Set(officer, v, "patching")
  /\ patch' = Set(patch, v, "sent")
  /\ UNCHANGED <<accountVars, postVars, txVars, outsideVars, ruling, debit>>

RefuseDecision(v) ==
  /\ officer[v] = "idle"
  /\ ruling[v].role \notin ValidationRoles
  /\ officer' = Set(officer, v, "refused")
  /\ UNCHANGED <<accountVars, postVars, txVars, outsideVars, ruling, patch, debit>>

\* Only an approval goes on to the debit.
PatchOk(v) ==
  /\ officer[v] = "patching"
  /\ patch[v] \in Performed
  /\ officer' = Set(officer, v, IF Approves(v) THEN "debiting" ELSE "ok")
  /\ debit' = IF Approves(v) THEN Set(debit, v, "sent") ELSE debit
  /\ UNCHANGED <<accountVars, postVars, txVars, outsideVars, ruling, patch>>

\* Mutant: the debit also follows an approval that was not recorded.
PatchRaisesDebiting(v) ==
  /\ officer[v] = "patching"
  /\ patch[v] \in Failed \/ Unanswered(patch[v])
  /\ officer' = Set(officer, v, "debiting")
  /\ debit' = Set(debit, v, "sent")
  /\ UNCHANGED <<accountVars, postVars, txVars, outsideVars, ruling, patch>>

PatchRaises(v) ==
  /\ officer[v] = "patching"
  /\ patch[v] \in Failed \/ Unanswered(patch[v])
  /\ officer' = Set(officer, v, "failed")
  /\ UNCHANGED <<accountVars, postVars, txVars, outsideVars, ruling, patch, debit>>

\* Mutant: no raise_for_status on the debit.
DebitAnswered(v) ==
  /\ officer[v] = "debiting"
  /\ \/ debit[v] \in Performed \cup {"refused"} /\ officer' = Set(officer, v, "ok")
     \/ /\ debit[v] = "lost" \/ Unanswered(debit[v])
        /\ officer' = Set(officer, v, "ok_undebited")
  /\ UNCHANGED <<accountVars, postVars, txVars, outsideVars, ruling, patch, debit>>

\* The answer is 200 with the payment in both cases; a debit that raised is
\* logged (account.balance.debit.failed) and the approval stands.
DebitDone(v) ==
  /\ officer[v] = "debiting"
  /\ \/ debit[v] \in Performed /\ officer' = Set(officer, v, "ok")
     \/ /\ debit[v] \in Failed \/ Unanswered(debit[v])
        /\ officer' = Set(officer, v, "ok_undebited")
  /\ UNCHANGED <<accountVars, postVars, txVars, outsideVars, ruling, patch, debit>>

DecisionHandler(v) == PatchOk(v) \/ PatchRaises(v) \/ DebitDone(v)

HandlersStop ==
  /\ gw' = [p \in Payments |-> IF gw[p] \in {"posting", "alerting"} THEN "crashed" ELSE gw[p]]
  /\ officer' = [v \in Decisions |->
                  IF officer[v] \in {"patching", "debiting"} THEN "crashed" ELSE officer[v]]
  /\ UNCHANGED <<txVars, outsideVars, order, told, alert, ruling, patch, debit>>

GatewayCrash ==
  /\ "gatewayCrash" \in Faults
  /\ \/ \E p \in Payments : gw[p] \in {"posting", "alerting"}
     \/ \E v \in Decisions : officer[v] \in {"patching", "debiting"}
  /\ HandlersStop
  /\ UNCHANGED accountVars

-------------------------------------------------------------------------
(* transaction-service: POST /v1/payments. The handler gives way at each  *)
(* await: the three queries of ledger.commit and each producer.send.      *)

\* Mutant: the payment is put into the Map by nobody.
ReceiveUnstored(p) ==
  /\ post[p] = "sent"
  /\ AccountOf(p) # Blank
  /\ post' = Set(post, p, "velocity")
  /\ UNCHANGED <<accountVars, postVars, decisionVars, outsideVars, payments, reply, sends,
                 ledgerLog, txRestarts>>

Receive(p) ==
  /\ post[p] = "sent"
  /\ AccountOf(p) # Blank
  /\ payments' = Set(payments, p, "pending")
  /\ post' = Set(post, p, "velocity")
  /\ UNCHANGED <<accountVars, postVars, decisionVars, outsideVars, reply, sends,
                 ledgerLog, txRestarts>>

\* 400 missing_fields: an empty account_id is no account_id here.
ReceiveIncomplete(p) ==
  /\ post[p] = "sent"
  /\ AccountOf(p) = Blank
  /\ post' = Set(post, p, "refused")
  /\ UNCHANGED <<accountVars, postVars, decisionVars, outsideVars, payments, reply, sends,
                 ledgerLog, txRestarts>>

\* Mutant: a failing query goes unlogged.
QuerySilent(p, at, new, next, log) ==
  /\ post[p] = at
  /\ \/ row' = Set(row, p, new) /\ post' = Set(post, p, next)
     \/ "database" \in Faults /\ row' \in {row, Set(row, p, new)} /\ post' = Set(post, p, "publish")
  /\ ledgerLog' = Set(ledgerLog, p, log)
  /\ UNCHANGED <<accountVars, postVars, decisionVars, payments, reply, sends, txRestarts,
                 fraudMsgs, alertMsgs>>

\* Mutant: a failing query fails the request.
QueryFatal(p, at, new, next, log) ==
  /\ post[p] = at
  /\ \/ row' = Set(row, p, new) /\ post' = Set(post, p, next) /\ ledgerLog' = Set(ledgerLog, p, log)
     \/ /\ "database" \in Faults
        /\ row' \in {row, Set(row, p, new)}
        /\ post' = Set(post, p, "refused")
        /\ ledgerLog' = Set(ledgerLog, p, "failed")
  /\ UNCHANGED <<accountVars, postVars, decisionVars, payments, reply, sends, txRestarts,
                 fraudMsgs, alertMsgs>>

\* One query of ledger.commit, at await `at`: it may change the row from `old`
\* to `new`. A failure, with or without the effect, ends commit, which rethrows
\* to the handler's catch: the failure is logged and publishing comes next.
Query(p, at, new, next, log) ==
  /\ post[p] = at
  /\ \/ /\ row' = Set(row, p, new)
        /\ post' = Set(post, p, next)
        /\ ledgerLog' = Set(ledgerLog, p, log)
     \/ /\ "database" \in Faults
        /\ row' \in {row, Set(row, p, new)}
        /\ post' = Set(post, p, "publish")
        /\ ledgerLog' = Set(ledgerLog, p, "failed")
  /\ UNCHANGED <<accountVars, postVars, decisionVars, payments, reply, sends, txRestarts,
                 fraudMsgs, alertMsgs>>

\* SELECT of the velocity check; INSERT ... ON CONFLICT (id) DO NOTHING;
\* UPDATE ... SET status = 'settled' WHERE id = ..., which touches no row if
\* there is none. Each commits on its own.
Velocity(p) == Query(p, "velocity", row[p], "insert", "none")
Insert(p)   == Query(p, "insert", IF row[p] = "none" THEN "pending" ELSE row[p],
                     "settle", "none")
Settle(p)   == Query(p, "settle", IF row[p] = "none" THEN "none" ELSE "settled",
                     "publish", "committed")

\* producer.send: a rejected connect leaves the loop; otherwise send resolves
\* as soon as the frame is written, whether or not the broker takes it. After
\* the last turn, with no await in between, the 201 is made from the payment
\* object, whose status a decision may have changed since it was stored.
Publish(p) ==
  /\ post[p] = "publish"
  /\ \E outcome \in IF "broker" \in Faults THEN {"queued", "dropped", "rejected"} ELSE {"queued"} :
       LET last == outcome = "rejected" \/ sends[p] + 1 = DuplicateFactor IN
       /\ sends' = IF outcome = "rejected" THEN sends ELSE Set(sends, p, sends[p] + 1)
       /\ fraudMsgs' = IF outcome = "queued" THEN Set(fraudMsgs, p, fraudMsgs[p] + 1) ELSE fraudMsgs
       /\ post' = IF last THEN Set(post, p, "answered") ELSE post
       /\ reply' = IF last THEN Set(reply, p, payments[p]) ELSE reply
  /\ UNCHANGED <<accountVars, postVars, decisionVars, payments, ledgerLog, txRestarts,
                 row, alertMsgs>>

TxHandler(p) ==
  \/ Receive(p) \/ ReceiveIncomplete(p)
  \/ Velocity(p) \/ Insert(p) \/ Settle(p) \/ Publish(p)

\* PATCH /v1/payments/:id runs without an await: the status is overwritten
\* whatever it was. An unknown id is a 404.
\* Mutant: a payment already decided is refused, after its status was set.
ServePatchLateCheck(v) ==
  /\ patch[v] = "sent"
  /\ payments[PayOf(v)] # "absent"
  /\ payments' = Set(payments, PayOf(v), ruling[v].action)
  /\ patch' = Set(patch, v, IF payments[PayOf(v)] = "pending" THEN "applied" ELSE "refused")
  /\ UNCHANGED <<accountVars, postVars, outsideVars, ruling, officer, debit,
                 post, reply, sends, ledgerLog, txRestarts>>

ServePatch(v) ==
  /\ patch[v] = "sent"
  /\ payments[PayOf(v)] # "absent"
  /\ payments' = Set(payments, PayOf(v), ruling[v].action)
  /\ patch' = Set(patch, v, "applied")
  /\ UNCHANGED <<accountVars, postVars, outsideVars, ruling, officer, debit,
                 post, reply, sends, ledgerLog, txRestarts>>

ServePatchUnknown(v) ==
  /\ patch[v] = "sent"
  /\ payments[PayOf(v)] = "absent"
  /\ patch' = Set(patch, v, "refused")
  /\ UNCHANGED <<accountVars, postVars, txVars, outsideVars, ruling, officer, debit>>

\* The Map and every running handler die with the process; the ledger stays.
TxRestart ==
  /\ "txRestart" \in Faults
  /\ txRestarts < MaxTxRestarts
  /\ txRestarts' = txRestarts + 1
  /\ payments' = [p \in Payments |-> "absent"]
  /\ post' = [p \in Payments |-> IF post[p] \in Running THEN "dead" ELSE post[p]]
  /\ patch' = [v \in Decisions |-> Wipe(patch[v])]
  /\ UNCHANGED <<accountVars, postVars, outsideVars, ruling, officer, debit,
                 reply, sends, ledgerLog>>

-------------------------------------------------------------------------
(* account-service, and the network.                                     *)

ServeDebit(v) ==
  /\ debit[v] = "sent"
  /\ ApplyDelta(AccountOf(PayOf(v)), -order[PayOf(v)].amount)
  /\ debit' = Set(debit, v, "applied")
  /\ UNCHANGED <<postVars, txVars, outsideVars, ruling, officer, patch>>

ServeDebitUnknown(v) ==
  /\ debit[v] = "sent"
  /\ ~Known(AccountOf(PayOf(v)))
  /\ debit' = Set(debit, v, "refused")
  /\ UNCHANGED <<accountVars, postVars, txVars, outsideVars, ruling, officer, patch>>

\* The producer swallows every exception of the broker: the answer is 202
\* "alert_published" whether or not there is a message.
ServeAlert(p) ==
  /\ alert[p] = "sent"
  /\ Known(AccountOf(p))
  /\ alert' = Set(alert, p, "applied")
  /\ \/ alertMsgs' = Set(alertMsgs, p, 1)
     \/ "broker" \in Faults /\ UNCHANGED alertMsgs
  /\ UNCHANGED <<accountVars, decisionVars, txVars, order, gw, told, row, fraudMsgs>>

ServeAlertUnknown(p) ==
  /\ alert[p] = "sent"
  /\ ~Known(AccountOf(p))
  /\ alert' = Set(alert, p, "refused")
  /\ UNCHANGED <<accountVars, decisionVars, txVars, outsideVars, order, gw, told>>

\* One of the calls under way never reaches its callee.
LosePost(p) ==
  /\ "loss" \in Faults
  /\ \/ post[p] = "sent" /\ post' = Set(post, p, "lost") /\ UNCHANGED alert
     \/ alert[p] = "sent" /\ alert' = Set(alert, p, "lost") /\ UNCHANGED post
  /\ UNCHANGED <<accountVars, decisionVars, outsideVars, order, gw, told,
                 payments, reply, sends, ledgerLog, txRestarts>>

LoseDecision(v) ==
  /\ "loss" \in Faults
  /\ \/ patch[v] = "sent" /\ patch' = Set(patch, v, "lost") /\ UNCHANGED debit
     \/ debit[v] = "sent" /\ debit' = Set(debit, v, "lost") /\ UNCHANGED patch
  /\ UNCHANGED <<accountVars, postVars, txVars, outsideVars, ruling, officer>>

DebitsForgotten ==
  /\ debit' = [v \in Decisions |-> Wipe(debit[v])]
  /\ UNCHANGED <<postVars, txVars, outsideVars, ruling, officer, patch>>

AccountRestart ==
  /\ "accountRestart" \in Faults
  /\ RestartStore
  /\ DebitsForgotten

Create(a) == CreateAccount(a) /\ UNCHANGED paymentVars

ServeDecision(v) ==
  ServePatch(v) \/ ServePatchUnknown(v) \/ ServeDebit(v) \/ ServeDebitUnknown(v)

-------------------------------------------------------------------------
\* Every client has its answer and no service has anything left to do.
AtRest ==
  /\ \A p \in Payments : /\ gw[p] \in {"replied", "refused", "crashed"}
                          /\ post[p] \notin {"sent"} \cup Running
                          /\ Settled(alert[p])
  /\ \A v \in Decisions : /\ officer[v] \notin {"idle", "patching", "debiting"}
                           /\ Settled(patch[v]) /\ Settled(debit[v])

Rest == AtRest /\ UNCHANGED vars

\* A step of one payment or of one decision.
Step ==
  \/ \E p \in Payments :
       \/ SubmitPayment(p) \/ RefusePayment(p) \/ PostHandler(p)
       \/ TxHandler(p)
       \/ ServeAlert(p) \/ ServeAlertUnknown(p) \/ LosePost(p)
  \/ \E v \in Decisions :
       \/ Decide(v) \/ RefuseDecision(v) \/ DecisionHandler(v)
       \/ ServeDecision(v) \/ LoseDecision(v)

Next ==
  \/ Step
  \/ \E a \in Accounts : Create(a)
  \/ GatewayCrash \/ TxRestart \/ AccountRestart
  \/ Rest

\* Awaits end (by a reply, an error or the 10 s timer), the two event loops
\* resume what is ready, and services serve what has arrived. Clients need not
\* send anything, and nothing makes a fault happen.
Fairness ==
  /\ \A p \in Payments : /\ WF_vars(PostHandler(p))
                          /\ WF_vars(TxHandler(p))
                          /\ WF_vars(ServeAlert(p) \/ ServeAlertUnknown(p))
  /\ \A v \in Decisions : WF_vars(DecisionHandler(v)) /\ WF_vars(ServeDecision(v))

Spec == Init /\ [][Next]_vars /\ Fairness

-------------------------------------------------------------------------
(* Correctness.                                                          *)

\* No account is debited for a payment unless the very request that debits it
\* has had its approval recorded by transaction-service: a rejection, a flag, a
\* 404 and an unanswered PATCH never reach the debit ("Rejection and flagging
\* leave the balance unchanged").
DebitNeedsOwnApproval ==
  \A v \in Decisions : debit[v] # "unsent" => Approves(v) /\ patch[v] \in Performed

\* An officer whose approval is answered 200 without a logged debit failure can
\* rely on the debit: it has been executed.
ApprovalMeansDebited ==
  \A v \in Decisions : officer[v] = "ok" /\ Approves(v) => debit[v] \in Performed

\* A payment is in the Map before anything else knows of it, so that neither the
\* ledger nor the broker can hold a payment transaction-service has not
\* accepted; until the process restarts it stays there ("persistence must not
\* depend on JMS availability").
StoredFirst ==
  \A p \in Payments :
    /\ row[p] # "none" \/ fraudMsgs[p] > 0 => post[p] \in Stored \cup {"dead"}
    /\ post[p] \in Stored /\ txRestarts = 0 => payments[p] # "absent"

\* What ledger.commit logs is true of the row, and a row left 'pending' (which no
\* later step ever settles, and reconciliation never reads) has a logged failure
\* or a dead handler to explain it.
LedgerExplained ==
  \A p \in Payments :
    /\ ledgerLog[p] = "committed" => row[p] = "settled"
    /\ row[p] = "pending" => post[p] \in {"settle", "dead"} \/ ledgerLog[p] = "failed"

\* The 201 of POST can say more than "pending" when a decision overtakes the
\* handler; it then names a decision that was made on this payment.
ToldStatusHappened ==
  \A p \in Payments : told[p] \in Action =>
    \E v \in Decisions :
      PayOf(v) = p /\ ruling[v].action = told[p] /\ patch[v] \in Performed

\* Every request that started is answered, unless the gateway itself dies: both
\* handlers have a way out of each await for every end its call can come to.
EveryRequestEnds ==
  /\ \A p \in Payments : gw[p] = "posting" ~> gw[p] \in {"replied", "crashed"}
  /\ \A v \in Decisions :
       officer[v] = "patching" ~> officer[v] \in {"ok", "ok_undebited", "failed", "crashed"}

\* While transaction-service and the broker live, a payment it has stored is put
\* up for fraud scoring DuplicateFactor times, even if the ledger fails and the
\* gateway has gone ("the payment is already stored above").
EveryPaymentScored ==
  \A p \in Payments :
    post[p] = "velocity" ~> fraudMsgs[p] = DuplicateFactor \/ post[p] = "dead"

\* README: finance-compliance may "approve or reject pending payments". So no
\* payment is approved twice.
ApprovedOnce ==
  \A v, w \in Decisions :
    v # w /\ PayOf(v) = PayOf(w) /\ Approves(v) /\ Approves(w) =>
      ~(patch[v] = "applied" /\ patch[w] = "applied")

\* The comment at the alert: the payment "has already been accepted by
\* transaction-service" when the alert is requested.
AlertedPaymentAccepted ==
  \A p \in Payments : alert[p] # "unsent" => post[p] \in Stored \cup {"dead"}
=======================================================================

------------------------- MODULE PaymentsProofs -------------------------
(* What holds of Payments for any payments, decisions, faults, number of  *)
(* fraud messages and number of restarts, proved by one inductive         *)
(* invariant in three parts: a payment's way through transaction-service, *)
(* an officer's request, and the statuses that are told; and, from it,    *)
(* that the balances are the sums of the debits.                          *)
EXTENDS PaymentsAccounting, Sums

\* Before the handler's second query nothing is on record for the payment.
Unrecorded == {"unsent", "sent", "refused", "lost", "velocity", "insert"}

Way(p) ==
  /\ gw[p] \in {"idle", "refused"} => post[p] = "unsent"
  /\ post[p] \in Unrecorded => row[p] = "none" /\ ledgerLog[p] = "none" /\ sends[p] = 0
  /\ post[p] = "settle" => row[p] = "pending" /\ ledgerLog[p] = "none" /\ sends[p] = 0
  /\ post[p] = "publish" => sends[p] < DuplicateFactor
  /\ post[p] \in {"publish", "answered"} => ledgerLog[p] # "none"
  /\ ledgerLog[p] = "committed" => row[p] = "settled"
  /\ row[p] = "pending" => post[p] \in {"settle", "dead"} \/ ledgerLog[p] = "failed"
  /\ fraudMsgs[p] <= sends[p]
  /\ post[p] \in Running => payments[p] # "absent"
  /\ post[p] \in Stored /\ txRestarts = 0 => payments[p] # "absent"

Request(v) ==
  /\ officer[v] = "idle" => patch[v] = "unsent"
  /\ officer[v] \in {"idle", "patching"} => debit[v] = "unsent"
  /\ debit[v] # "unsent" => Approves(v) /\ patch[v] \in Performed
  /\ officer[v] = "ok" /\ Approves(v) => debit[v] \in Performed

\* An officer's decision on p was to make its status s, and it was recorded.
Decided(p, s) ==
  \E v \in Decisions : PayOf(v) = p /\ ruling[v].action = s /\ patch[v] \in Performed

Told(p) == \A s \in Action : s \in {payments[p], reply[p], told[p]} => Decided(p, s)

Inv ==
  /\ TypeOK
  /\ \A p \in Payments : Way(p) /\ Told(p)
  /\ \A v \in Decisions : Request(v)

-------------------------------------------------------------------------
(* Frames: what a step must leave alone for each part to survive it.      *)

LEMMA WayFrame ==
  ASSUME NEW p \in Payments, Way(p),
         UNCHANGED <<gw[p], post[p], row[p], ledgerLog[p], sends[p], fraudMsgs[p], txRestarts>>,
         payments[p] # "absent" => payments'[p] # "absent"
  PROVE  Way(p)'
BY DEF Way

LEMMA RequestFrame ==
  ASSUME NEW v \in Decisions, Request(v), UNCHANGED <<ruling, officer[v], patch[v], debit[v]>>
  PROVE  Request(v)'
BY DEF Request, Approves

\* Decisions are never taken back.
Lasting ==
  /\ UNCHANGED ruling
  /\ \A v \in Decisions : patch[v] \in Performed => patch'[v] \in Performed

LEMMA ToldFrame ==
  ASSUME NEW p \in Payments, Told(p), Lasting,
         \A s \in Action : s \in {payments'[p], reply'[p], told'[p]} =>
                             s \in {payments[p], reply[p], told[p]} \/ Decided(p, s)
  PROVE  Told(p)'
<1>1. ASSUME NEW s \in Action, Decided(p, s) PROVE Decided(p, s)'
  BY <1>1 DEF Decided, Lasting, PayOf
<1> QED
  BY <1>1 DEF Told

-------------------------------------------------------------------------
(* Initial states, and the steps of each part of the system.             *)

LEMMA InitInv == Init => Inv
<1> SUFFICES ASSUME Init PROVE Inv
  OBVIOUS
<1>1. AccountTypeOK
  BY AccountsAssumption DEF Init, AccountInit, AccountTypeOK, SeedStore
<1>2. TypeOK
  BY <1>1, PaymentsAssumption DEF Init, TypeOK, CallState, PostCall, Status
<1>3. ASSUME NEW p \in Payments PROVE Way(p) /\ Told(p)
  BY <1>3, PaymentsAssumption DEF Init, Way, Told, Unrecorded, Stored, Running, Action
<1>4. ASSUME NEW v \in Decisions PROVE Request(v)
  BY <1>4 DEF Init, Request
<1> QED
  BY <1>2, <1>3, <1>4 DEF Inv

\* gateway-api's handler of POST, and a loss on its calls.
PostStep(p) == SubmitPayment(p) \/ RefusePayment(p) \/ PostHandler(p) \/ LosePost(p)

LEMMA PostStepInv ==
  ASSUME Inv, NEW p \in Payments, PostStep(p)
  PROVE  Inv'
<1> USE DEF PostStep, PostHandler, SubmitPayment, RefusePayment, PostOk, PostRaises, Alerting,
            AlertDone, LosePost
<1>1. UNCHANGED <<accountVars, decisionVars, outsideVars, order, payments, reply, sends,
                  ledgerLog, txRestarts>>
  BY DEF txVars
<1>t. TypeOK
  BY DEF Inv
<1>2. TypeOK'
  <2>1. gw' \in [Payments -> {"idle", "posting", "alerting", "replied", "refused", "crashed"}]
    BY <1>t DEF TypeOK, Set
  <2>2. told' \in [Payments -> {"none"} \cup Status]
    BY <1>t DEF TypeOK, Set, Status
  <2>3. alert' \in [Payments -> CallState]
    BY <1>t DEF TypeOK, Set, CallState
  <2>4. post' \in [Payments -> PostCall]
    BY <1>t DEF TypeOK, Set, PostCall, txVars
  <2> QED
    BY <1>1, <1>t, <2>1, <2>2, <2>3, <2>4
    DEF TypeOK, AccountTypeOK, accountVars, decisionVars, outsideVars
<1>3. ASSUME NEW q \in Payments PROVE Way(q)'
  <2>1. Way(q)
    BY DEF Inv
  <2>2. CASE q = p
    BY <1>1, <1>t, <2>1, <2>2 DEF TypeOK, Way, Set, Unrecorded, Stored, Running, outsideVars, txVars
  <2>3. CASE q # p
    BY <1>1, <1>t, <2>1, <2>3, WayFrame DEF TypeOK, Set, outsideVars, txVars
  <2> QED
    BY <2>2, <2>3
<1>4. ASSUME NEW q \in Payments PROVE Told(q)'
  <2>1. Told(q) /\ Lasting
    BY <1>1 DEF Inv, Lasting, decisionVars
  <2>2. told'[q] \in {told[q], reply[q], "pending"}
    BY <1>t DEF TypeOK, Set
  <2> QED
    BY <1>1, <2>1, <2>2, ToldFrame DEF Action
<1>5. ASSUME NEW v \in Decisions PROVE Request(v)'
  BY <1>1, RequestFrame DEF Inv, decisionVars
<1> QED
  BY <1>2, <1>3, <1>4, <1>5 DEF Inv

\* gateway-api's handler of PATCH, and what becomes of its two calls.
DecisionStep(v) ==
  Decide(v) \/ RefuseDecision(v) \/ DecisionHandler(v) \/ ServeDecision(v) \/ LoseDecision(v)

LEMMA DecisionStepInv ==
  ASSUME Inv, NEW v \in Decisions, DecisionStep(v)
  PROVE  Inv'
<1> USE DEF DecisionStep, Decide, RefuseDecision, DecisionHandler, PatchOk, PatchRaises,
            DebitDone, ServeDecision, ServePatch, ServePatchUnknown, ServeDebit,
            ServeDebitUnknown, LoseDecision
<1>t. TypeOK
  BY DEF Inv
<1>1. UNCHANGED <<postVars, outsideVars, ruling, post, reply, sends, ledgerLog, txRestarts>>
  BY DEF txVars
<1>a. AccountTypeOK'
  <2>1. AccountTypeOK
    BY <1>t DEF TypeOK
  <2>2. CASE UNCHANGED accountVars
    BY <2>1, <2>2 DEF AccountTypeOK, accountVars
  <2>3. CASE ServeDebit(v)
    <3>1. order[PayOf(v)].amount \in Int
      BY <1>t, PaymentsAssumption DEF TypeOK, PayOf
    <3> QED
      BY <2>1, <2>3, <3>1 DEF ApplyDelta, AccountTypeOK, Known
  <2> QED
    BY <2>2, <2>3
<1>2. /\ officer' \in [Decisions -> {"idle", "patching", "debiting", "ok", "ok_undebited",
                                      "failed", "refused", "crashed"}]
      /\ patch' \in [Decisions -> CallState]
      /\ debit' \in [Decisions -> CallState]
  BY <1>t DEF TypeOK, Set, CallState
<1>3. payments' \in [Payments -> {"absent"} \cup Status]
  BY <1>t, PaymentsAssumption DEF TypeOK, Set, Status, PayOf, txVars
<1>4. TypeOK'
  BY <1>t, <1>1, <1>a, <1>2, <1>3 DEF TypeOK, postVars, outsideVars
<1>5. ASSUME NEW w \in Decisions PROVE Request(w)'
  <2>1. Request(w)
    BY DEF Inv
  <2>2. CASE w = v
    BY <1>t, <2>1, <2>2 DEF TypeOK, Request, Set, Approves, Performed, Failed
  <2>3. CASE w # v
    BY <1>t, <2>1, <2>3, RequestFrame DEF TypeOK, Set
  <2> QED
    BY <2>2, <2>3
<1>6. Lasting
  <2>1. officer[v] = "idle" => patch[v] = "unsent"
    BY DEF Inv, Request
  <2> QED
    BY <1>t, <1>1, <2>1 DEF TypeOK, Lasting, Set, Performed
<1>7. ASSUME NEW p \in Payments PROVE Told(p)'
  <2>1. ASSUME NEW s \in Action, payments'[p] = s
        PROVE  payments[p] = s \/ Decided(p, s)'
    <3>1. CASE payments' = payments
      BY <2>1, <3>1
    <3>2. CASE ServePatch(v) /\ p = PayOf(v)
      BY <1>t, <2>1, <3>2 DEF TypeOK, Set, Decided, PayOf, Performed
    <3>3. CASE ServePatch(v) /\ p # PayOf(v)
      BY <1>t, <2>1, <3>3 DEF TypeOK, Set
    <3> QED
      BY <3>1, <3>2, <3>3 DEF txVars
  <2>2. \A s \in Action : Decided(p, s) => Decided(p, s)'
    BY <1>6 DEF Decided, Lasting, PayOf
  <2> QED
    BY <1>1, <2>1, <2>2 DEF Inv, Told, postVars
<1>8. ASSUME NEW p \in Payments PROVE Way(p)'
  <2>1. ruling[v].action # "absent"
    BY <1>t, PaymentsAssumption DEF TypeOK, Action
  <2>2. payments[p] # "absent" => payments'[p] # "absent"
    BY <1>t, <2>1 DEF TypeOK, Set, txVars
  <2> QED
    BY <1>1, <2>2, WayFrame DEF Inv, postVars, outsideVars
<1> QED
  BY <1>4, <1>5, <1>7, <1>8 DEF Inv

\* transaction-service's handler of POST.
LEMMA TxStepInv ==
  ASSUME Inv, NEW p \in Payments, TxHandler(p)
  PROVE  Inv'
<1> USE DEF TxHandler, Receive, ReceiveIncomplete, Velocity, Insert, Settle, Query, Publish
<1>t. TypeOK
  BY DEF Inv
<1>w. \A q \in Payments : Way(q)
  BY DEF Inv
<1>1. UNCHANGED <<accountVars, postVars, decisionVars, txRestarts, alertMsgs>>
  BY DEF outsideVars
<1>2. /\ \A q \in Payments \ {p} :
           UNCHANGED <<payments[q], post[q], row[q], ledgerLog[q], sends[q], fraudMsgs[q], reply[q]>>
      /\ \A q \in Payments : payments'[q] \in {payments[q], "pending"}
      /\ \A q \in Payments : reply'[q] \in {reply[q], payments[q]}
  BY <1>t DEF TypeOK, Set, outsideVars
<1>3. Way(p)'
  <2> USE <1>t, <1>w, PaymentsAssumption
  <2>1. gw[p] \notin {"idle", "refused"}
    BY DEF Way
  <2>2. CASE Receive(p) \/ ReceiveIncomplete(p)
    BY <2>1, <2>2, <1>1 DEF TypeOK, Way, Set, Unrecorded, Stored, Running, outsideVars, postVars
  <2>3. CASE Velocity(p) \/ Insert(p) \/ Settle(p)
    BY <2>1, <2>3, <1>1 DEF TypeOK, Way, Set, Unrecorded, Stored, Running, postVars
  <2>4. CASE Publish(p)
    <3>1. /\ post[p] = "publish" /\ post'[p] \in {"publish", "answered"}
          /\ UNCHANGED <<gw, payments, row, ledgerLog>>
      BY <2>4, <1>1 DEF TypeOK, Set, postVars
    <3>2. sends[p] \in 0..DuplicateFactor /\ fraudMsgs[p] \in 0..DuplicateFactor
      BY DEF TypeOK
    <3>3. /\ sends'[p] \in {sends[p], sends[p] + 1}
          /\ fraudMsgs'[p] \in {fraudMsgs[p], fraudMsgs[p] + 1}
          /\ fraudMsgs'[p] = fraudMsgs[p] + 1 => sends'[p] = sends[p] + 1
          /\ post'[p] = "publish" => sends'[p] = sends[p] + 1 /\ sends[p] + 1 # DuplicateFactor
      BY <2>4, <3>1, <3>2 DEF TypeOK, Set
    <3> QED
      BY <2>1, <3>1, <3>2, <3>3, <1>1 DEF Way, Unrecorded, Stored, Running
  <2> QED
    BY <2>2, <2>3, <2>4
<1>4. ASSUME NEW q \in Payments PROVE Way(q)'
  <2>1. CASE q = p
    BY <1>3, <2>1
  <2>2. CASE q # p
    BY <1>1, <1>2, <1>w, <2>2, WayFrame DEF postVars
  <2> QED
    BY <2>1, <2>2
<1>5. ASSUME NEW q \in Payments PROVE Told(q)'
  <2>1. Told(q) /\ Lasting
    BY <1>1 DEF Inv, Lasting, decisionVars
  <2>2. told'[q] = told[q]
    BY <1>1 DEF postVars
  <2> QED
    BY <1>2, <2>1, <2>2, ToldFrame DEF Action
<1>6. ASSUME NEW v \in Decisions PROVE Request(v)'
  BY <1>1, RequestFrame DEF Inv, decisionVars
<1>7. TypeOK'
  <2> USE <1>t, PaymentsAssumption
  <2>1. payments' \in [Payments -> {"absent"} \cup Status]
    BY DEF TypeOK, Set, Status
  <2>2. post' \in [Payments -> PostCall]
    BY DEF TypeOK, Set, PostCall, Running
  <2>3. reply' \in [Payments -> {"none"} \cup Status]
    <3>1. CASE Publish(p)
      <4>1. payments[p] \in Status
        BY <1>t, <3>1, <1>w DEF TypeOK, Way, Stored, Running
      <4> QED
        BY <3>1, <4>1 DEF TypeOK, Set
    <3> QED
      BY <3>1 DEF TypeOK
  <2>4. /\ sends' \in [Payments -> 0..DuplicateFactor]
        /\ fraudMsgs' \in [Payments -> 0..DuplicateFactor]
    <3>1. CASE Publish(p)
      <4>1. sends[p] < DuplicateFactor /\ fraudMsgs[p] <= sends[p]
        BY <3>1, <1>w DEF Way
      <4>2. sends[p] + 1 \in 0..DuplicateFactor /\ fraudMsgs[p] + 1 \in 0..DuplicateFactor
        BY <4>1 DEF TypeOK
      <4> QED
        BY <3>1, <4>2 DEF TypeOK, Set
    <3> QED
      BY <3>1 DEF TypeOK, outsideVars
  <2>5. ledgerLog' \in [Payments -> {"none", "committed", "failed"}]
    BY DEF TypeOK, Set
  <2>6. row' \in [Payments -> {"none", "pending", "settled"}]
    BY DEF TypeOK, Set, outsideVars
  <2> QED
    BY <1>1, <2>1, <2>2, <2>3, <2>4, <2>5, <2>6
    DEF TypeOK, AccountTypeOK, accountVars, postVars, decisionVars
<1> QED
  BY <1>4, <1>5, <1>6, <1>7 DEF Inv

\* account-service's other work: alerts and new accounts.
LEMMA AccountStepInv ==
  ASSUME Inv,
         \/ \E p \in Payments : ServeAlert(p) \/ ServeAlertUnknown(p)
         \/ \E a \in Accounts : Create(a)
  PROVE  Inv'
<1> USE DEF ServeAlert, ServeAlertUnknown, Create
<1>t. TypeOK
  BY DEF Inv
<1>1. UNCHANGED <<decisionVars, txVars, order, gw, told, row, fraudMsgs>>
  BY DEF outsideVars, paymentVars, postVars
<1>2. AccountTypeOK'
  BY <1>t, AccountsAssumption DEF TypeOK, AccountTypeOK, accountVars, CreateAccount
<1>3. alert' \in [Payments -> CallState] /\ alertMsgs' \in [Payments -> 0..1]
  BY <1>t DEF TypeOK, Set, CallState, outsideVars, paymentVars, postVars
<1>4. TypeOK'
  BY <1>t, <1>1, <1>2, <1>3 DEF TypeOK, decisionVars, txVars
<1>5. ASSUME NEW p \in Payments PROVE Way(p)' /\ Told(p)'
  <2>1. Way(p)'
    BY <1>1, WayFrame DEF Inv, txVars
  <2>2. Told(p)'
    BY <1>1, ToldFrame DEF Inv, txVars, decisionVars, Lasting
  <2> QED
    BY <2>1, <2>2
<1>6. ASSUME NEW v \in Decisions PROVE Request(v)'
  BY <1>1, RequestFrame DEF Inv, decisionVars
<1> QED
  BY <1>4, <1>5, <1>6 DEF Inv

\* The processes that stop and start again.
LEMMA CrashInv ==
  ASSUME Inv, GatewayCrash \/ TxRestart \/ AccountRestart
  PROVE  Inv'
<1>t. TypeOK
  BY DEF Inv
<1>1. CASE GatewayCrash
  <2> USE <1>1 DEF GatewayCrash, HandlersStop
  <2>1. TypeOK'
    BY <1>t DEF TypeOK, AccountTypeOK, accountVars, txVars, outsideVars
  <2>2. ASSUME NEW p \in Payments PROVE Way(p)'
    BY <1>t DEF TypeOK, Inv, Way, txVars, outsideVars
  <2>3. ASSUME NEW p \in Payments PROVE Told(p)'
    BY ToldFrame DEF Inv, txVars, Lasting
  <2>4. ASSUME NEW v \in Decisions PROVE Request(v)'
    BY <1>t DEF TypeOK, Inv, Request, Approves
  <2> QED
    BY <2>1, <2>2, <2>3, <2>4 DEF Inv
<1>2. CASE TxRestart
  <2> USE <1>2 DEF TxRestart
  <2>1. \A v \in Decisions : patch'[v] = Wipe(patch[v])
    OBVIOUS
  <2>2. TypeOK'
    <3>1. patch' \in [Decisions -> CallState]
      BY <1>t DEF TypeOK, CallState, Wipe
    <3>2. post' \in [Payments -> PostCall]
      BY <1>t DEF TypeOK, PostCall
    <3>3. txRestarts' \in 0..MaxTxRestarts
      BY <1>t, PaymentsAssumption DEF TypeOK
    <3> QED
      BY <1>t, <3>1, <3>2, <3>3 DEF TypeOK, AccountTypeOK, accountVars, postVars, outsideVars
  <2>3. ASSUME NEW p \in Payments PROVE Way(p)'
    <3>1. txRestarts' # 0
      BY <1>t DEF TypeOK
    <3>2. post'[p] = IF post[p] \in Running THEN "dead" ELSE post[p]
      OBVIOUS
    <3> QED
      BY <3>1, <3>2 DEF Inv, Way, Unrecorded, Running, Stored, postVars, outsideVars
  <2>4. ASSUME NEW p \in Payments PROVE Told(p)'
    <3>1. Lasting
      BY <2>1 DEF Lasting, Wipe, Performed
    <3> QED
      BY <3>1, ToldFrame DEF Inv, postVars, Action
  <2>5. ASSUME NEW v \in Decisions PROVE Request(v)'
    BY <2>1 DEF Inv, Request, Approves, Wipe, Performed
  <2> QED
    BY <2>2, <2>3, <2>4, <2>5 DEF Inv
<1>3. CASE AccountRestart
  <2> USE <1>3 DEF AccountRestart, DebitsForgotten
  <2>1. \A v \in Decisions : debit'[v] = Wipe(debit[v])
    OBVIOUS
  <2>2. TypeOK'
    <3>1. debit' \in [Decisions -> CallState]
      BY <1>t DEF TypeOK, CallState, Wipe
    <3>2. AccountTypeOK'
      BY <1>t, AccountsAssumption DEF TypeOK, AccountTypeOK, RestartStore, SeedStore
    <3> QED
      BY <1>t, <3>1, <3>2 DEF TypeOK, postVars, txVars, outsideVars
  <2>3. ASSUME NEW p \in Payments PROVE Way(p)'
    BY WayFrame DEF Inv, postVars, txVars, outsideVars
  <2>4. ASSUME NEW p \in Payments PROVE Told(p)'
    BY ToldFrame DEF Inv, postVars, txVars, Lasting
  <2>5. ASSUME NEW v \in Decisions PROVE Request(v)'
    BY <2>1 DEF Inv, Request, Approves, Wipe, Performed
  <2> QED
    BY <2>2, <2>3, <2>4, <2>5 DEF Inv
<1> QED
  BY <1>1, <1>2, <1>3

LEMMA StutterInv == Inv /\ UNCHANGED vars => Inv'
BY DEF Inv, TypeOK, AccountTypeOK, Way, Told, Request, Decided, Approves, PayOf, vars, accountVars,
       paymentVars, postVars, decisionVars, txVars, outsideVars

LEMMA StepInv == Inv /\ [Next]_vars => Inv'
BY PostStepInv, DecisionStepInv, TxStepInv, AccountStepInv, CrashInv, StutterInv
DEF Next, Step, Rest, PostStep, DecisionStep

\* A step of another endpoint, which shares account-service only, keeps it too.
LEMMA NeighbourInv ==
  ASSUME Inv, AccountTypeOK', UNCHANGED paymentVars
  PROVE  Inv'
<1> USE DEF paymentVars, postVars, decisionVars, txVars, outsideVars
<1>1. TypeOK'
  BY DEF Inv, TypeOK
<1>2. \A p \in Payments : Way(p)'
  BY WayFrame DEF Inv
<1>3. \A p \in Payments : Told(p)'
  BY ToldFrame DEF Inv, Lasting
<1>4. \A v \in Decisions : Request(v)'
  BY RequestFrame DEF Inv
<1> QED
  BY <1>1, <1>2, <1>3, <1>4 DEF Inv

THEOREM Invariance == Spec => []Inv
  BY InitInv, StepInv, PTL DEF Spec

-------------------------------------------------------------------------
(* The properties the runs check.                                        *)

\* The state keeps its types; in particular the publishing loop of
\* transaction-service stays within DuplicateFactor.
THEOREM TypeCorrect == Spec => []TypeOK
<1>1. Inv => TypeOK
  BY DEF Inv
<1> QED
  BY <1>1, Invariance, PTL

\* Only an officer's own recorded approval lets the gateway debit an account.
THEOREM DebitNeedsOwnApprovalHolds == Spec => []DebitNeedsOwnApproval
<1>1. Inv => DebitNeedsOwnApproval
  BY DEF Inv, Request, DebitNeedsOwnApproval
<1> QED
  BY <1>1, Invariance, PTL

\* An approval answered without a logged failure has been debited.
THEOREM ApprovalMeansDebitedHolds == Spec => []ApprovalMeansDebited
<1>1. Inv => ApprovalMeansDebited
  BY DEF Inv, Request, ApprovalMeansDebited
<1> QED
  BY <1>1, Invariance, PTL

LEMMA InvStoredFirst == Inv => StoredFirst
<1>1. ASSUME Inv, NEW p \in Payments, row[p] # "none" \/ fraudMsgs[p] > 0
      PROVE  post[p] \in Stored \cup {"dead"}
  <2>1. post[p] \in PostCall /\ fraudMsgs[p] \in Int /\ sends[p] \in Int /\ Way(p)
    BY <1>1 DEF Inv, TypeOK
  <2> QED
    BY <1>1, <2>1 DEF Way, PostCall, Unrecorded, Stored, Running
<1> QED
  BY <1>1 DEF Inv, Way, StoredFirst

\* Ledger and broker only hold payments that transaction-service has stored.
THEOREM StoredFirstHolds == Spec => []StoredFirst
  BY InvStoredFirst, Invariance, PTL

\* What was logged of the ledger is true of it, and nothing stays pending there
\* unexplained.
THEOREM LedgerExplainedHolds == Spec => []LedgerExplained
<1>1. Inv => LedgerExplained
  BY DEF Inv, Way, LedgerExplained
<1> QED
  BY <1>1, Invariance, PTL

\* The 201 names no decision that was not made.
THEOREM ToldStatusHappenedHolds == Spec => []ToldStatusHappened
<1>1. Inv => ToldStatusHappened
  BY DEF Inv, Told, Decided, ToldStatusHappened
<1> QED
  BY <1>1, Invariance, PTL

-------------------------------------------------------------------------
(* The money.                                                            *)

\* Every executed debit is on an account the store has, and finitely many have
\* been executed.
DebitsKnown ==
  /\ \A v \in Decisions : debit[v] = "applied" => Known(AccountOf(PayOf(v)))
  /\ \A a \in Accounts : IsFiniteSet(DebitsOn(a))

Books == Inv /\ DebitsKnown /\ BalancesMatchDebits

LEMMA AmountsType == TypeOK => \A v \in Decisions : Amounts[v] = order[PayOf(v)].amount /\ Amounts[v] \in Nat
<1> SUFFICES ASSUME TypeOK, NEW v \in Decisions
             PROVE  Amounts[v] = order[PayOf(v)].amount /\ Amounts[v] \in Nat
  OBVIOUS
<1>1. PayOf(v) \in Payments
  BY PaymentsAssumption DEF TypeOK, PayOf
<1>2. order[PayOf(v)] \in PaymentBodies
  BY <1>1 DEF TypeOK
<1> QED
  BY <1>2, PaymentsAssumption DEF Amounts

LEMMA InitBooks == Init => Books
<1> SUFFICES ASSUME Init PROVE Books
  OBVIOUS
<1>1. \A a : DebitsOn(a) = {}
  BY DEF Init, DebitsOn
<1>2. \A a \in DOMAIN store : store[a] = Opening[a] /\ Opening[a] \in Int
  BY AccountsAssumption DEF Init, AccountInit, SeedStore
<1>3. DebitsKnown
  BY <1>1, FS_EmptySet DEF DebitsKnown, DebitsOn
<1>4. BalancesMatchDebits
  BY <1>1, <1>2, SumEmpty DEF BalancesMatchDebits
<1> QED
  BY <1>3, <1>4, InitInv DEF Books

\* A step that executes no debit and forgets none, and leaves the accounts that
\* the store has as they are.
SameDebits == \A v \in Decisions, c \in Performed : debit'[v] = c <=> debit[v] = c

LEMMA SameBooks ==
  ASSUME Books, UNCHANGED <<order, ruling>>, SameDebits,
         DOMAIN store \subseteq DOMAIN store',
         \A a \in DOMAIN store : store'[a] = store[a],
         \A a \in DOMAIN store' \ DOMAIN store : a \in Accounts /\ store'[a] = Opening[a]
  PROVE  DebitsKnown' /\ BalancesMatchDebits'
<1>1. \A a : DebitsOn(a)' = DebitsOn(a)
  BY DEF DebitsOn, SameDebits, Performed, AccountOf, PayOf
<1>2. Amounts' = Amounts
  BY DEF Amounts, PayOf
<1>3. DebitsKnown'
  BY <1>1 DEF Books, DebitsKnown, SameDebits, Performed, Known, AccountOf, PayOf
<1>4. ASSUME NEW a \in DOMAIN store' \ DOMAIN store
      PROVE  DebitsOn(a) = {} /\ Opening[a] \in Int
  BY <1>4, AccountsAssumption DEF Books, DebitsKnown, DebitsOn, Known
<1>5. ASSUME NEW a \in DOMAIN store'
      PROVE  store'[a] = Opening[a] - SumFunctionOnSet(Amounts, DebitsOn(a))
  <2>1. CASE a \in DOMAIN store
    BY <2>1 DEF Books, BalancesMatchDebits
  <2>2. CASE a \notin DOMAIN store
    <3>1. DebitsOn(a) = {} /\ Opening[a] \in Int /\ store'[a] = Opening[a]
      BY <2>2, <1>4, <1>5
    <3>2. SumFunctionOnSet(Amounts, DebitsOn(a)) = 0
      BY <3>1, SumEmpty
    <3> QED
      BY <3>1, <3>2
  <2> QED
    BY <2>1, <2>2
<1>6. BalancesMatchDebits'
  BY <1>1, <1>2, <1>5 DEF BalancesMatchDebits
<1> QED
  BY <1>3, <1>6

\* An executed debit takes its amount off its account, and is the only one that does.
LEMMA ServedDebit ==
  ASSUME Books, NEW v \in Decisions, ServeDebit(v)
  PROVE  DebitsKnown' /\ BalancesMatchDebits'
<1>0. PICK a : a = AccountOf(PayOf(v))
  OBVIOUS
<1>1. /\ TypeOK /\ Known(a) /\ a \in Accounts
      /\ UNCHANGED <<order, ruling>>
      /\ store' = [store EXCEPT ![a] = @ + (-Amounts[v])]
      /\ debit[v] = "sent" /\ debit' = [debit EXCEPT ![v] = "applied"]
  BY <1>0, AmountsType
  DEF Books, Inv, TypeOK, AccountTypeOK, ServeDebit, ApplyDelta, Known, Set, postVars
<1>2. \A w \in Decisions : debit'[w] = IF w = v THEN "applied" ELSE debit[w]
  BY <1>1 DEF TypeOK
<1>3. v \notin DebitsOn(a) /\ DebitsOn(a)' = DebitsOn(a) \cup {v}
  BY <1>0, <1>1, <1>2 DEF DebitsOn, AccountOf, PayOf
<1>4. \A b : b # a => DebitsOn(b)' = DebitsOn(b)
  BY <1>0, <1>1, <1>2 DEF DebitsOn, AccountOf, PayOf
<1>5. Amounts' = Amounts /\ DOMAIN store' = DOMAIN store
  BY <1>1 DEF Amounts, PayOf
<1>6. IsFiniteSet(DebitsOn(a)) /\ IsFiniteSet(DebitsOn(a)')
  BY <1>1, <1>3, FS_AddElement DEF Books, DebitsKnown
<1>7. DebitsKnown'
  <2>1. \A b \in Accounts : IsFiniteSet(DebitsOn(b)')
    BY <1>4, <1>6 DEF Books, DebitsKnown
  <2> QED
    BY <2>1, <1>0, <1>1, <1>2, <1>5 DEF Books, DebitsKnown, Known, AccountOf, PayOf
<1>8. /\ Opening[a] \in Int /\ Amounts[v] \in Int
      /\ SumFunctionOnSet(Amounts, DebitsOn(a)) \in Int
      /\ SumFunctionOnSet(Amounts, DebitsOn(a)') = Amounts[v] + SumFunctionOnSet(Amounts, DebitsOn(a))
  <2>1. \A w \in DebitsOn(a) \cup {v} : Amounts[w] \in Int
    BY <1>1, AmountsType DEF DebitsOn
  <2> QED
    BY <2>1, <1>1, <1>3, <1>6, SumType, SumAdd, AccountsAssumption
<1>9. ASSUME NEW b \in DOMAIN store'
      PROVE  store'[b] = Opening[b] - SumFunctionOnSet(Amounts, DebitsOn(b)')
  <2>1. CASE b = a
    <3>1. /\ store'[a] = store[a] - Amounts[v]
          /\ store[a] = Opening[a] - SumFunctionOnSet(Amounts, DebitsOn(a))
      BY <1>1, <1>8 DEF Known, Books, BalancesMatchDebits
    <3> QED
      BY <2>1, <3>1, <1>8
  <2>2. CASE b # a
    BY <2>2, <1>1, <1>4, <1>5, <1>9 DEF Books, BalancesMatchDebits
  <2> QED
    BY <2>1, <2>2
<1> QED
  BY <1>5, <1>7, <1>9 DEF BalancesMatchDebits

\* A step of a payment or of a decision executes a debit or leaves the money alone.
LEMMA StepDebits ==
  ASSUME Inv, Step
  PROVE  \/ UNCHANGED <<accountVars, order, ruling>> /\ SameDebits
         \/ \E v \in Decisions : ServeDebit(v)
<1>t. TypeOK
  BY DEF Inv
<1>1. ASSUME NEW p \in Payments,
             PostStep(p) \/ TxHandler(p) \/ ServeAlert(p) \/ ServeAlertUnknown(p)
      PROVE  UNCHANGED <<accountVars, order, ruling, debit>>
  BY <1>1 DEF PostStep, SubmitPayment, RefusePayment, PostHandler, PostOk, PostRaises, Alerting,
     AlertDone, LosePost, TxHandler, Receive, ReceiveIncomplete, Velocity, Insert, Settle, Query,
     Publish, ServeAlert, ServeAlertUnknown, postVars, decisionVars
<1>2. ASSUME NEW v \in Decisions, DecisionStep(v), ~ServeDebit(v)
      PROVE  UNCHANGED <<accountVars, order, ruling>> /\ SameDebits
  <2>1. officer[v] \in {"idle", "patching"} => debit[v] = "unsent"
    BY DEF Inv, Request
  <2>2. /\ UNCHANGED <<accountVars, order, ruling>>
        /\ \/ debit' = debit
           \/ /\ debit[v] \in {"unsent", "sent"}
              /\ \E c \in {"sent", "refused", "lost"} : debit' = [debit EXCEPT ![v] = c]
    BY <1>2, <2>1 DEF DecisionStep, Decide, RefuseDecision, DecisionHandler, PatchOk, PatchRaises,
       DebitDone, ServeDecision, ServePatch, ServePatchUnknown, ServeDebitUnknown, LoseDecision,
       postVars, Set
  <2> QED
    BY <2>2, <1>t DEF SameDebits, Performed, TypeOK
<1> QED
  BY <1>1, <1>2 DEF Step, PostStep, DecisionStep, SameDebits

LEMMA StepBooks == Books /\ [Next]_vars => Books'
<1> SUFFICES ASSUME Books, [Next]_vars PROVE DebitsKnown' /\ BalancesMatchDebits'
  BY StepInv DEF Books
<1>t. Inv
  BY DEF Books
<1>1. CASE UNCHANGED <<accountVars, order, ruling>> /\ SameDebits
  BY <1>1, SameBooks DEF accountVars
<1>2. CASE GatewayCrash \/ TxRestart
  BY <1>2, <1>1 DEF GatewayCrash, HandlersStop, TxRestart, postVars, SameDebits
<1>3. ASSUME NEW a \in Accounts, Create(a)
      PROVE  DebitsKnown' /\ BalancesMatchDebits'
  <2>1. /\ UNCHANGED <<order, ruling>> /\ SameDebits
        /\ DOMAIN store \subseteq DOMAIN store'
        /\ \A b \in DOMAIN store : store'[b] = store[b]
        /\ \A b \in DOMAIN store' \ DOMAIN store : b \in Accounts /\ store'[b] = Opening[b]
    BY <1>3 DEF Create, CreateAccount, paymentVars, postVars, decisionVars, SameDebits,
       Books, Inv, TypeOK, AccountTypeOK
  <2> QED
    BY <2>1, SameBooks
<1>4. CASE AccountRestart
  <2>1. \A v \in Decisions : debit'[v] # "applied"
    BY <1>4 DEF AccountRestart, DebitsForgotten, Wipe
  <2>2. \A a : DebitsOn(a)' = {}
    BY <2>1 DEF DebitsOn
  <2>3. \A a \in DOMAIN store' : store'[a] = Opening[a] /\ Opening[a] \in Int
    BY <1>4, AccountsAssumption DEF AccountRestart, RestartStore, SeedStore
  <2>4. DebitsKnown'
    BY <2>1, <2>2, FS_EmptySet DEF DebitsKnown
  <2>5. BalancesMatchDebits'
    BY <2>2, <2>3, SumEmpty DEF BalancesMatchDebits
  <2> QED
    BY <2>4, <2>5
<1>5. CASE UNCHANGED vars
  BY <1>5, <1>1 DEF vars, accountVars, paymentVars, postVars, decisionVars, SameDebits
<1> QED
  BY <1>t, <1>1, <1>2, <1>3, <1>4, <1>5, StepDebits, ServedDebit DEF Next, Rest

\* An account holds its opening balance less the debits executed for it since
\* account-service started, each once and with the amount of its payment.
THEOREM BalancesMatchDebitsHolds == Spec => []BalancesMatchDebits
<1>1. Books => BalancesMatchDebits
  BY DEF Books
<1> QED
  BY <1>1, InitBooks, StepBooks, PTL DEF Spec
=======================================================================

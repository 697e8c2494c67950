------------------------- MODULE MeridianProofs -------------------------
(* What holds of the endpoints side by side, for any requests, faults and *)
(* number of restarts: each keeps the invariant it has alone, since what  *)
(* they share is the store only, and the books of all three balance.      *)
EXTENDS Meridian, Sums

TP == INSTANCE TransfersAccountingProofs
PP == INSTANCE PaymentsProofs

LEMMA Assumptions ==
  /\ TP!AccountsAssumption /\ TP!TransfersAssumption
  /\ PP!AccountsAssumption /\ PP!PaymentsAssumption
BY AccountsAssumption, DepositsAssumption, MeridianAssumption
DEF FaultKinds, TP!FaultKinds, PP!FaultKinds, P!Action, PP!Action

\* A deposit that has not started has no call out, and the balance that is about
\* to be read is there.
Tellers ==
  /\ DepositTypeOK
  /\ \A d \in Deposits : /\ teller[d] = "idle" => credit[d] = "unsent"
                         /\ credit[d] = "reading" => Known(slip[d].account)

Endpoints == Tellers /\ TP!Inv /\ PP!Inv

\* There are finitely many entries, each on an account that the store has.
EntriesKnown ==
  /\ IsFiniteSet(Entries)
  /\ \A e \in Entries : e.account \in DOMAIN store /\ e.amount \in Int

Inv == Endpoints /\ EntriesKnown /\ BooksBalance /\ QuotedBalanceIncludesDeposit

-------------------------------------------------------------------------
(* The names the endpoints have here and in their own proofs.            *)

LEMMA SameTransferStep == T!Step => TP!Step
BY DEF T!Step, T!Submit, T!Refuse, T!Handler, T!DebitOk, T!DebitRaises, T!CreditOk, T!CreditRaises,
  T!ReversalReplied, T!ReversalRaises, T!Raises, T!Unanswered, T!Accepted, T!TransferRoles, T!Goto,
  T!Send, T!Serve, T!ServeDelta, T!ServeUnknown, T!LoseCall, T!Target, T!Delta, T!ApplyDelta,
  T!Known, T!accountVars, T!Leg, T!Failed, T!Performed,
  TP!Step, TP!Submit, TP!Refuse, TP!Handler, TP!DebitOk, TP!DebitRaises, TP!CreditOk, TP!CreditRaises,
  TP!ReversalReplied, TP!ReversalRaises, TP!Raises, TP!Unanswered, TP!Accepted, TP!TransferRoles,
  TP!Goto, TP!Send, TP!Serve, TP!ServeDelta, TP!ServeUnknown, TP!LoseCall, TP!Target, TP!Delta,
  TP!ApplyDelta, TP!Known, TP!accountVars, TP!Leg, TP!Failed, TP!Performed

LEMMA SamePaymentStep == P!Step => PP!Step
BY DEF P!Step, P!SubmitPayment, P!RefusePayment, P!PostHandler, P!PostOk, P!PostRaises, P!Alerting,
  P!AlertDone, P!TxHandler, P!Receive, P!ReceiveIncomplete, P!Velocity, P!Insert, P!Settle, P!Query,
  P!Publish, P!ServeAlert, P!ServeAlertUnknown, P!LosePost, P!Decide, P!RefuseDecision,
  P!DecisionHandler, P!PatchOk, P!PatchRaises, P!DebitDone, P!ServeDecision, P!ServePatch,
  P!ServePatchUnknown, P!ServeDebit, P!ServeDebitUnknown, P!LoseDecision, P!Unanswered, P!Set,
  P!PayOf, P!Approves, P!AccountOf, P!PaymentRoles, P!ValidationRoles, P!ApplyDelta, P!Known,
  P!accountVars, P!postVars, P!decisionVars, P!txVars, P!outsideVars, P!Performed, P!Failed,
  PP!Step, PP!SubmitPayment, PP!RefusePayment, PP!PostHandler, PP!PostOk, PP!PostRaises, PP!Alerting,
  PP!AlertDone, PP!TxHandler, PP!Receive, PP!ReceiveIncomplete, PP!Velocity, PP!Insert, PP!Settle,
  PP!Query, PP!Publish, PP!ServeAlert, PP!ServeAlertUnknown, PP!LosePost, PP!Decide, PP!RefuseDecision,
  PP!DecisionHandler, PP!PatchOk, PP!PatchRaises, PP!DebitDone, PP!ServeDecision, PP!ServePatch,
  PP!ServePatchUnknown, PP!ServeDebit, PP!ServeDebitUnknown, PP!LoseDecision, PP!Unanswered, PP!Set,
  PP!PayOf, PP!Approves, PP!AccountOf, PP!PaymentRoles, PP!ValidationRoles, PP!ApplyDelta, PP!Known,
  PP!accountVars, PP!postVars, PP!decisionVars, PP!txVars, PP!outsideVars, PP!Performed, PP!Failed

LEMMA SameInit == (T!Init => TP!Init) /\ (P!Init => PP!Init)
BY DEF T!Init, T!AccountInit, T!SeedStore, T!Leg, TP!Init, TP!AccountInit, TP!SeedStore, TP!Leg,
  P!Init, P!AccountInit, P!SeedStore, PP!Init, PP!AccountInit, PP!SeedStore

LEMMA SameTypes == (TP!TypeOK => T!TypeOK) /\ (PP!TypeOK => P!TypeOK)
BY DEF T!TypeOK, T!AccountTypeOK, T!Waiting, T!Final, T!Answered, T!Leg, T!CallState,
  TP!TypeOK, TP!AccountTypeOK, TP!Waiting, TP!Final, TP!Answered, TP!Leg, TP!CallState,
  P!TypeOK, P!AccountTypeOK, P!CallState, P!Status, P!Action, P!PostCall, P!Running,
  PP!TypeOK, PP!AccountTypeOK, PP!CallState, PP!Status, PP!Action, PP!PostCall, PP!Running

-------------------------------------------------------------------------
(* Each endpoint keeps its invariant beside the others.                  *)

\* What an endpoint needs of a step of another.
Neighbourly ==
  /\ TP!AccountTypeOK'
  /\ UNCHANGED restarts
  /\ DOMAIN store \subseteq DOMAIN store'

LEMMA StoreType == Endpoints => AccountTypeOK
BY DEF Endpoints, TP!Inv, TP!TypeOK, TP!AccountTypeOK, AccountTypeOK

LEMMA TransfersUndisturbed ==
  ASSUME TP!Inv, Neighbourly, UNCHANGED transferVars
  PROVE  TP!Inv'
<1>1. UNCHANGED <<TP!handlerVars, restarts>>
  BY DEF transferVars, TP!handlerVars, Neighbourly
<1> QED
  BY <1>1, Assumptions, TP!NeighbourInv DEF Neighbourly

LEMMA PaymentsUndisturbed ==
  ASSUME PP!Inv, Neighbourly, UNCHANGED paymentVars
  PROVE  PP!Inv'
<1>1. UNCHANGED PP!paymentVars
  BY DEF paymentVars, PP!paymentVars, PP!postVars, PP!decisionVars, PP!txVars, PP!outsideVars
<1>2. PP!AccountTypeOK'
  BY DEF Neighbourly, TP!AccountTypeOK, PP!AccountTypeOK
<1> QED
  BY <1>1, <1>2, Assumptions, PP!NeighbourInv

LEMMA TellersUndisturbed ==
  ASSUME Tellers, Neighbourly, UNCHANGED depositVars
  PROVE  Tellers'
BY DEF Tellers, DepositTypeOK, depositVars, Neighbourly, Known

LEMMA InitEndpoints == Init => Endpoints
<1> SUFFICES ASSUME Init PROVE Endpoints
  OBVIOUS
<1>1. TP!Inv
  BY Assumptions, SameInit, TP!InitInv DEF Init
<1>2. PP!Inv
  BY Assumptions, SameInit, PP!InitInv DEF Init
<1>3. Tellers
  BY DEF Init, DepositInit, Tellers, DepositTypeOK, CallState
<1> QED
  BY <1>1, <1>2, <1>3 DEF Endpoints

LEMMA TransferStepEndpoints == Endpoints /\ TransferStep => Endpoints'
<1> SUFFICES ASSUME Endpoints, TransferStep PROVE Endpoints'
  OBVIOUS
<1>1. TP!Step
  BY SameTransferStep DEF TransferStep
<1>2. TP!Inv'
  BY <1>1, Assumptions, TP!StepInv DEF TP!Next, Endpoints
<1>3. Neighbourly
  <2>1. TP!AccountTypeOK'
    BY <1>2 DEF TP!Inv, TP!TypeOK
  <2>2. UNCHANGED TP!accountVars \/ \E t \in Transfers, l \in TP!Leg : TP!ServeDelta(t, l)
    BY <1>1, Assumptions, TP!StepLegs DEF Endpoints
  <2> QED
    BY <2>1, <2>2 DEF Neighbourly, TP!accountVars, TP!ServeDelta, TP!ApplyDelta
<1> QED
  BY <1>2, <1>3, PaymentsUndisturbed, TellersUndisturbed DEF Endpoints, TransferStep

LEMMA PaymentStepEndpoints == Endpoints /\ PaymentStep => Endpoints'
<1> SUFFICES ASSUME Endpoints, PaymentStep PROVE Endpoints'
  OBVIOUS
<1>1. PP!Step
  BY SamePaymentStep DEF PaymentStep
<1>2. PP!Inv'
  BY <1>1, Assumptions, PP!StepInv DEF PP!Next, Endpoints
<1>3. Neighbourly
  <2>1. TP!AccountTypeOK'
    BY <1>2 DEF PP!Inv, PP!TypeOK, PP!AccountTypeOK, TP!AccountTypeOK
  <2>2. UNCHANGED PP!accountVars \/ \E v \in Decisions : PP!ServeDebit(v)
    BY <1>1, Assumptions, PP!StepDebits DEF Endpoints
  <2> QED
    BY <2>1, <2>2 DEF Neighbourly, PP!accountVars, PP!ServeDebit, PP!ApplyDelta
<1> QED
  BY <1>2, <1>3, TransfersUndisturbed, TellersUndisturbed DEF Endpoints, PaymentStep

\* What a deposit's step does to the store, and to the request itself.
LEMMA DepositKinds ==
  ASSUME Endpoints, NEW d \in Deposits, DepositStep(d)
  PROVE  /\ UNCHANGED slip
         /\ Tellers'
         /\ \/ UNCHANGED accountVars
            \/ ServeDeposit(d)
<1> USE DEF DepositStep, Deposit, RefuseDeposit, DepositOk, DepositRaises, ServeDeposit,
            ServeDepositUnknown, ReadBalance, LoseDeposit
<1>1. UNCHANGED slip /\ (UNCHANGED accountVars \/ ServeDeposit(d))
  OBVIOUS
<1>2. Tellers
  BY DEF Endpoints
<1>3. quoted' \in [Deposits -> SUBSET Int]
  BY <1>2, StoreType DEF Tellers, DepositTypeOK, AccountTypeOK, Known
<1>4. DepositTypeOK'
  BY <1>2, <1>3 DEF Tellers, DepositTypeOK, CallState
<1>5. ASSUME NEW e \in Deposits
      PROVE  /\ teller'[e] = "idle" => credit'[e] = "unsent"
             /\ credit'[e] = "reading" => Known(slip[e].account)'
  BY <1>1, <1>2 DEF Tellers, DepositTypeOK, Known, accountVars, ApplyDelta
<1> QED
  BY <1>1, <1>4, <1>5 DEF Tellers

LEMMA DepositsStepEndpoints == Endpoints /\ DepositsStep => Endpoints'
<1> SUFFICES ASSUME Endpoints, DepositsStep PROVE Endpoints'
  OBVIOUS
<1>1. PICK d \in Deposits : DepositStep(d)
  BY DEF DepositsStep
<1>2. Tellers' /\ (UNCHANGED accountVars \/ ServeDeposit(d))
  BY <1>1, DepositKinds
<1>3. Neighbourly
  <2>1. slip[d].amount \in Int
    BY DepositsAssumption DEF Endpoints, Tellers, DepositTypeOK
  <2> QED
    BY <1>2, <2>1, StoreType
    DEF AccountTypeOK, TP!AccountTypeOK, Neighbourly, accountVars, ServeDeposit, ApplyDelta, Known
<1> QED
  BY <1>2, <1>3, TransfersUndisturbed, PaymentsUndisturbed DEF Endpoints, DepositsStep

LEMMA CreateEndpoints == ASSUME Endpoints, NEW a \in Accounts, Create(a) PROVE Endpoints'
<1>1. Neighbourly
  BY StoreType, AccountsAssumption
  DEF AccountTypeOK, TP!AccountTypeOK, Neighbourly, Create, CreateAccount
<1> QED
  BY <1>1, TransfersUndisturbed, PaymentsUndisturbed, TellersUndisturbed DEF Endpoints, Create

\* A gateway that stops is, for each endpoint, one that stops or a stutter.
LEMMA GatewayCrashEndpoints == Endpoints /\ GatewayCrash => Endpoints'
<1> SUFFICES ASSUME Endpoints, GatewayCrash PROVE Endpoints'
  OBVIOUS
<1>1. TP!Inv'
  <2>1. CASE \E t \in Transfers : pc[t] \in TP!Waiting
    <3>1. TP!GatewayCrash
      BY <2>1 DEF GatewayCrash, accountVars, TP!GatewayCrash, TP!accountVars, TP!HandlersStop,
         T!HandlersStop, TP!Waiting, T!Waiting
    <3> QED
      BY <3>1, Assumptions, TP!StepInv DEF TP!Next, Endpoints
  <2>2. CASE \A t \in Transfers : pc[t] \notin TP!Waiting
    <3>1. pc' = pc
      BY <2>2 DEF GatewayCrash, T!HandlersStop, TP!Waiting, T!Waiting, Endpoints, TP!Inv, TP!TypeOK
    <3>2. UNCHANGED TP!vars
      BY <3>1 DEF GatewayCrash, accountVars, T!HandlersStop, TP!vars, TP!accountVars, TP!handlerVars
    <3> QED
      BY <3>2, Assumptions, TP!StepInv DEF Endpoints
  <2> QED
    BY <2>1, <2>2
<1>2. PP!Inv'
  <2>1. CASE \/ \E p \in Payments : gw[p] \in {"posting", "alerting"}
             \/ \E v \in Decisions : officer[v] \in {"patching", "debiting"}
    <3>1. PP!GatewayCrash
      BY <2>1 DEF GatewayCrash, accountVars, PP!GatewayCrash, PP!accountVars, PP!HandlersStop,
         P!HandlersStop, PP!txVars, P!txVars, PP!outsideVars, P!outsideVars
    <3> QED
      BY <3>1, Assumptions, PP!StepInv DEF PP!Next, Endpoints
  <2>2. CASE /\ \A p \in Payments : gw[p] \notin {"posting", "alerting"}
             /\ \A v \in Decisions : officer[v] \notin {"patching", "debiting"}
    <3>1. gw' = gw /\ officer' = officer
      BY <2>2 DEF GatewayCrash, P!HandlersStop, Endpoints, PP!Inv, PP!TypeOK
    <3>2. UNCHANGED PP!vars
      BY <3>1 DEF GatewayCrash, accountVars, P!HandlersStop, P!txVars, P!outsideVars, PP!vars,
         PP!accountVars, PP!paymentVars, PP!postVars, PP!decisionVars, PP!txVars, PP!outsideVars
    <3> QED
      BY <3>2, Assumptions, PP!StepInv DEF Endpoints
  <2> QED
    BY <2>1, <2>2
<1>3. Tellers'
  BY DEF Endpoints, Tellers, DepositTypeOK, GatewayCrash, TellersStop, accountVars, Known
<1> QED
  BY <1>1, <1>2, <1>3 DEF Endpoints

LEMMA AccountRestartEndpoints == Endpoints /\ AccountRestart => Endpoints'
<1> SUFFICES ASSUME Endpoints, AccountRestart PROVE Endpoints'
  OBVIOUS
<1>1. TP!AccountRestart
  BY DEF AccountRestart, RestartStore, SeedStore, T!CallsForgotten, T!Wipe, T!Leg,
     TP!AccountRestart, TP!RestartStore, TP!SeedStore, TP!CallsForgotten, TP!Wipe, TP!Leg
<1>2. TP!Inv'
  BY <1>1, Assumptions, TP!StepInv DEF TP!Next, Endpoints
<1>3. PP!AccountRestart
  BY DEF AccountRestart, RestartStore, SeedStore, P!DebitsForgotten, P!Wipe, P!postVars, P!txVars,
     P!outsideVars, PP!AccountRestart, PP!RestartStore, PP!SeedStore, PP!DebitsForgotten, PP!Wipe,
     PP!postVars, PP!txVars, PP!outsideVars
<1>4. PP!Inv'
  BY <1>3, Assumptions, PP!StepInv DEF PP!Next, Endpoints
<1>5. Tellers'
  BY DEF Endpoints, Tellers, DepositTypeOK, AccountRestart, CreditsForgotten, Wipe, CallState
<1> QED
  BY <1>2, <1>4, <1>5 DEF Endpoints

LEMMA StutterEndpoints == Endpoints /\ UNCHANGED vars => Endpoints'
<1> SUFFICES ASSUME Endpoints, UNCHANGED vars PROVE Endpoints'
  OBVIOUS
<1>1. Neighbourly
  BY StoreType DEF vars, accountVars, AccountTypeOK, TP!AccountTypeOK, Neighbourly
<1> QED
  BY <1>1, TransfersUndisturbed, PaymentsUndisturbed, TellersUndisturbed DEF Endpoints, vars

LEMMA StepEndpoints == Endpoints /\ [Next]_vars => Endpoints'
BY TransferStepEndpoints, PaymentStepEndpoints, DepositsStepEndpoints, CreateEndpoints,
   GatewayCrashEndpoints, AccountRestartEndpoints, StutterEndpoints
DEF Next, Rest

\* Each endpoint keeps beside the others the invariant it has alone.
THEOREM Invariance == Spec => []Endpoints
  BY InitEndpoints, StepEndpoints, PTL DEF Spec

\* The state keeps its types.
THEOREM TypeCorrect == Spec => []TypeOK
<1>1. Endpoints => TypeOK
  BY SameTypes DEF Endpoints, Tellers, TP!Inv, PP!Inv, TypeOK
<1> QED
  BY <1>1, Invariance, PTL

\* What the transfer endpoint promises holds beside payments and deposits: 201
\* means moved, the saga keeps its order, an undisturbed transfer is all or
\* nothing, and money is created in doubt only.
TransfersKeepTheirPromises ==
  T!CompletedMeansMoved /\ T!SagaOrder /\ T!AllOrNothing /\ T!CreatedOnlyInDoubt

THEOREM TransfersKeepTheirPromisesHolds == Spec => []TransfersKeepTheirPromises
<1>1. TP!Inv => T!CompletedMeansMoved
  BY DEF TP!Inv, TP!Local, TP!Phase, TP!Done, TP!Performed,
     T!CompletedMeansMoved, T!Moved, T!Done, T!Performed
<1>2. TP!Inv => T!SagaOrder
  BY DEF TP!Inv, TP!Local, TP!Ordered, TP!Done, TP!Performed, TP!Failed,
     T!SagaOrder, T!Done, T!Performed, T!Failed
<1>3. TP!Inv => T!AllOrNothing
  <2>1. TP!Inv => TP!AllOrNothing
    BY Assumptions, TP!InvAllOrNothing
  <2> QED
    BY <2>1 DEF T!AllOrNothing, T!Over, T!Clean, T!Moved, T!Untouched, T!Done, T!Performed,
       T!Answered, T!Leg, T!Settled, TP!AllOrNothing, TP!Over, TP!Clean, TP!Moved, TP!Untouched,
       TP!Done, TP!Performed, TP!Answered, TP!Leg, TP!Settled
<1>4. TP!Inv => T!CreatedOnlyInDoubt
  BY DEF TP!Inv, TP!Local, TP!Ordered, TP!Done, TP!Performed, TP!Failed,
     T!CreatedOnlyInDoubt, T!Done, T!Performed
<1>5. Endpoints => TransfersKeepTheirPromises
  BY <1>1, <1>2, <1>3, <1>4 DEF Endpoints, TransfersKeepTheirPromises
<1> QED
  BY <1>5, Invariance, PTL

\* What the payment endpoints promise holds beside transfers and deposits: no
\* debit without the officer's own recorded approval, none missing after an
\* approval that reports none, nothing downstream of transaction-service before
\* it has stored the payment, a ledger that is what was logged of it, and no
\* status told that no decision made.
PaymentsKeepTheirPromises ==
  /\ P!DebitNeedsOwnApproval /\ P!ApprovalMeansDebited
  /\ P!StoredFirst /\ P!LedgerExplained /\ P!ToldStatusHappened

THEOREM PaymentsKeepTheirPromisesHolds == Spec => []PaymentsKeepTheirPromises
<1>1. PP!Inv => P!DebitNeedsOwnApproval /\ P!ApprovalMeansDebited
  BY DEF PP!Inv, PP!Request, PP!Approves, PP!Performed,
     P!DebitNeedsOwnApproval, P!ApprovalMeansDebited, P!Approves, P!Performed
<1>2. PP!Inv => P!StoredFirst
  <2>1. PP!Inv => PP!StoredFirst
    BY Assumptions, PP!InvStoredFirst
  <2> QED
    BY <2>1 DEF P!StoredFirst, P!Stored, P!Running, PP!StoredFirst, PP!Stored, PP!Running
<1>3. PP!Inv => P!LedgerExplained
  BY DEF PP!Inv, PP!Way, P!LedgerExplained
<1>4. PP!Inv => P!ToldStatusHappened
  BY DEF PP!Inv, PP!Told, PP!Decided, PP!PayOf, PP!Performed, PP!Action,
     P!ToldStatusHappened, P!PayOf, P!Performed, P!Action
<1>5. Endpoints => PaymentsKeepTheirPromises
  BY <1>1, <1>2, <1>3, <1>4 DEF Endpoints, PaymentsKeepTheirPromises
<1> QED
  BY <1>5, Invariance, PTL

-------------------------------------------------------------------------
(* The books of the three endpoints together.                            *)

LEMMA SumOfNone == Sum({}) = 0
BY SumEmpty DEF Sum

\* One more entry adds its amount.
LEMMA SumOneMore ==
  ASSUME NEW S, IsFiniteSet(S), NEW e, e \notin S, \A x \in S \cup {e} : x.amount \in Int
  PROVE  Sum(S) \in Int /\ Sum(S \cup {e}) = e.amount + Sum(S)
<1> DEFINE f == [x \in S |-> x.amount]
           g == [x \in S \cup {e} |-> x.amount]
<1>1. /\ \A x \in S : f[x] = g[x] /\ f[x] \in Int
      /\ \A x \in S \cup {e} : g[x] \in Int
      /\ g[e] = e.amount
  OBVIOUS
<1>2. SumFunctionOnSet(f, S) = SumFunctionOnSet(g, S) /\ SumFunctionOnSet(f, S) \in Int
  <2> HIDE DEF f, g
  <2> QED
    BY <1>1, SumSame, SumType
<1>3. SumFunctionOnSet(g, S \cup {e}) = g[e] + SumFunctionOnSet(g, S)
  <2> HIDE DEF f, g
  <2> QED
    BY <1>1, SumAdd
<1> QED
  BY <1>1, <1>2, <1>3 DEF Sum

Books == EntriesKnown /\ BooksBalance

\* What a step can do to the books: post an entry, leave them alone or open an
\* account, or begin them anew.
Posting == \E e : B!Post(e) /\ e.amount \in Int

Opened == (\E a \in Accounts : B!Open(a)) \/ UNCHANGED B!vars

\* What is in the books has been posted.
LEMMA EntriesSpent == \A e \in Entries : e.id \in Spent
<1>1. \A e \in TransferEntries : e.id \in TransferIds
  BY DEF TransferEntries, TransferEntry, Entry, TransferIds, Performed
<1>2. \A e \in PaymentEntries : e.id \in DecisionIds
  BY DEF PaymentEntries, DebitEntry, Entry, DecisionIds, Performed
<1>3. \A e \in DepositEntries : e.id \in DepositIds
  BY DEF DepositEntries, DepositEntry, Entry, DepositIds, Performed
<1> QED
  BY <1>1, <1>2, <1>3 DEF Entries, Spent

LEMMA OpenedBooks == Books /\ Opened => Books'
<1> SUFFICES ASSUME Books, Opened PROVE Books'
  OBVIOUS
<1>0. /\ Entries' = Entries
      /\ DOMAIN store \subseteq DOMAIN store'
      /\ \A a \in DOMAIN store : store'[a] = store[a]
      /\ \A a \in DOMAIN store' \ DOMAIN store : a \in Accounts /\ store'[a] = Opening[a]
  BY DEF Opened, B!Open, B!vars
<1>1. EntriesKnown'
  BY <1>0 DEF Books, EntriesKnown
<1>2. \A a : EntriesOn(a)' = EntriesOn(a)
  BY <1>0 DEF EntriesOn
<1>3. ASSUME NEW a \in DOMAIN store'
      PROVE  store'[a] = Opening[a] + Sum(EntriesOn(a))
  <2>1. CASE a \in DOMAIN store
    BY <2>1, <1>0 DEF Books, BooksBalance
  <2>2. CASE a \notin DOMAIN store
    <3>1. EntriesOn(a) = {} /\ store'[a] = Opening[a] /\ Opening[a] \in Int
      BY <1>0, <1>3, <2>2, AccountsAssumption DEF Books, EntriesKnown, EntriesOn
    <3> QED
      BY <3>1, SumOfNone
  <2> QED
    BY <2>1, <2>2
<1>4. ASSUME NEW a \in DOMAIN store'
      PROVE  store'[a] = Opening[a] + Sum(EntriesOn(a)')
  BY <1>2, <1>3
<1>5. BooksBalance'
  BY <1>4 DEF BooksBalance, Sum
<1> QED
  BY <1>1, <1>5 DEF Books

LEMMA NewBooks == B!Restart => Books'
<1> SUFFICES ASSUME B!Restart PROVE Books'
  OBVIOUS
<1>1. EntriesKnown'
  BY FS_EmptySet DEF EntriesKnown, B!Restart
<1>2. ASSUME NEW a \in DOMAIN store'
      PROVE  EntriesOn(a)' = {} /\ store'[a] = Opening[a] /\ Opening[a] \in Int
  BY <1>2, AccountsAssumption DEF EntriesOn, B!Restart, B!NewBooks
<1>3. ASSUME NEW a \in DOMAIN store'
      PROVE  store'[a] = Opening[a] + Sum(EntriesOn(a)')
  BY <1>2, <1>3, SumOfNone
<1>4. BooksBalance'
  BY <1>3 DEF BooksBalance, Sum
<1> QED
  BY <1>1, <1>4 DEF Books

LEMMA PostingBooks == ASSUME AccountTypeOK, Books, Posting PROVE Books'
<1>1. PICK e : /\ e \notin Entries /\ Entries' = Entries \cup {e}
               /\ e.account \in DOMAIN store /\ e.amount \in Int
               /\ store' = [store EXCEPT ![e.account] = @ + e.amount]
  BY EntriesSpent DEF Posting, B!Post
<1>2. PICK h : h = e.account
  OBVIOUS
<1>3. DOMAIN store' = DOMAIN store /\ h \in DOMAIN store /\ Opening[h] \in Int
  BY <1>1, <1>2, AccountsAssumption DEF AccountTypeOK
<1>4. EntriesKnown'
  BY <1>1, <1>3, FS_AddElement DEF Books, EntriesKnown
<1>5. /\ e \notin EntriesOn(h) /\ EntriesOn(h)' = EntriesOn(h) \cup {e}
      /\ \A a : a # h => EntriesOn(a)' = EntriesOn(a)
  BY <1>1, <1>2 DEF EntriesOn
<1>6. /\ Sum(EntriesOn(h)) \in Int
      /\ Sum(EntriesOn(h) \cup {e}) = e.amount + Sum(EntriesOn(h))
  <2>1. IsFiniteSet(EntriesOn(h)) /\ \A x \in EntriesOn(h) \cup {e} : x.amount \in Int
    BY <1>1, FS_Subset DEF Books, EntriesKnown, EntriesOn
  <2> QED
    BY <1>5, <2>1, SumOneMore
<1>7. ASSUME NEW a \in DOMAIN store'
      PROVE  store'[a] = Opening[a] + Sum(EntriesOn(a)')
  <2>1. CASE a = h
    <3>1. store'[h] = store[h] + e.amount /\ store[h] = Opening[h] + Sum(EntriesOn(h))
      BY <1>1, <1>2, <1>3 DEF Books, BooksBalance
    <3>2. Sum(EntriesOn(h)') = e.amount + Sum(EntriesOn(h))
      BY <1>5, <1>6
    <3> QED
      BY <2>1, <3>1, <3>2, <1>1, <1>3, <1>6
  <2>2. CASE a # h
    BY <2>2, <1>1, <1>2, <1>3, <1>5, <1>7 DEF Books, BooksBalance
  <2> QED
    BY <2>1, <2>2
<1>8. BooksBalance'
  BY <1>7 DEF BooksBalance, Sum
<1> QED
  BY <1>4, <1>8 DEF Books

-------------------------------------------------------------------------
(* Every step does one of the three.                                     *)

\* An endpoint that executes no call and forgets none keeps its entries.
LEMMA SameTransferEntries ==
  ASSUME UNCHANGED body,
         \A t \in Transfers, l \in T!Leg, c \in Performed : call'[t][l] = c <=> call[t][l] = c
  PROVE  TransferEntries' = TransferEntries /\ TransferIds' = TransferIds
BY DEF TransferEntries, TransferEntry, Entry, T!Target, T!Delta, TransferIds, Performed

LEMMA SamePaymentEntries ==
  ASSUME UNCHANGED <<order, ruling>>,
         \A v \in Decisions, c \in Performed : debit'[v] = c <=> debit[v] = c
  PROVE  PaymentEntries' = PaymentEntries /\ DecisionIds' = DecisionIds
BY DEF PaymentEntries, DebitEntry, Entry, P!AccountOf, P!PayOf, DecisionIds, Performed

LEMMA SameDepositEntries ==
  ASSUME UNCHANGED slip,
         \A d \in Deposits : /\ credit'[d] \in {"reading", "applied"} <=> credit[d] \in {"reading", "applied"}
                             /\ credit'[d] = "wiped" <=> credit[d] = "wiped"
  PROVE  DepositEntries' = DepositEntries /\ DepositIds' = DepositIds
<1>1. DepositEntries' = DepositEntries
  BY DEF DepositEntries, DepositEntry, Entry
<1>2. DepositIds' = DepositIds
  BY DEF DepositIds, Performed
<1> QED
  BY <1>1, <1>2

\* The endpoints' ids differ.
LEMMA OwnIds ==
  /\ \A x \in TransferIds : x[1] = "transfer"
  /\ \A x \in DecisionIds : x[1] = "decision"
  /\ \A x \in DepositIds : x[1] = "deposit"
BY DEF TransferIds, DecisionIds, DepositIds

LEMMA InTransferEntries ==
  \A x : x \in TransferEntries <=>
    \E t \in Transfers, l \in T!Leg : call[t][l] = "applied" /\ x = TransferEntry(t, l)
<1>1. ASSUME NEW x \in TransferEntries
      PROVE  \E t \in Transfers, l \in T!Leg : call[t][l] = "applied" /\ x = TransferEntry(t, l)
  <2>1. PICK tl \in Transfers \X T!Leg :
          call[tl[1]][tl[2]] = "applied" /\ x = TransferEntry(tl[1], tl[2])
    BY DEF TransferEntries
  <2> QED
    BY <2>1
<1>2. ASSUME NEW t \in Transfers, NEW l \in T!Leg, call[t][l] = "applied"
      PROVE  TransferEntry(t, l) \in TransferEntries
  <2>1. PICK tl \in Transfers \X T!Leg : tl = <<t, l>>
    OBVIOUS
  <2>2. tl \in {y \in Transfers \X T!Leg : call[y[1]][y[2]] = "applied"}
    BY <1>2, <2>1
  <2>3. TransferEntry(tl[1], tl[2]) \in TransferEntries
    BY <2>2 DEF TransferEntries
  <2> QED
    BY <2>1, <2>3
<1> QED
  BY <1>1, <1>2

LEMMA InTransferIds ==
  \A x : x \in TransferIds <=>
    \E t \in Transfers, l \in T!Leg : call[t][l] \in Performed /\ x = <<"transfer", t, l>>
<1>1. ASSUME NEW x \in TransferIds
      PROVE  \E t \in Transfers, l \in T!Leg : call[t][l] \in Performed /\ x = <<"transfer", t, l>>
  <2>1. PICK tl \in Transfers \X T!Leg :
          call[tl[1]][tl[2]] \in Performed /\ x = <<"transfer", tl[1], tl[2]>>
    BY DEF TransferIds
  <2> QED
    BY <2>1
<1>2. ASSUME NEW t \in Transfers, NEW l \in T!Leg, call[t][l] \in Performed
      PROVE  <<"transfer", t, l>> \in TransferIds
  <2>1. PICK tl \in Transfers \X T!Leg : tl = <<t, l>>
    OBVIOUS
  <2>2. tl \in {y \in Transfers \X T!Leg : call[y[1]][y[2]] \in Performed}
    BY <1>2, <2>1
  <2>3. <<"transfer", tl[1], tl[2]>> \in TransferIds
    BY <2>2 DEF TransferIds
  <2> QED
    BY <2>1, <2>3
<1> QED
  BY <1>1, <1>2

LEMMA TransferStepBooks ==
  ASSUME Endpoints, TransferStep
  PROVE  Posting \/ Opened
<1>e. (\A x : x \in TransferEntries <=>
         \E t \in Transfers, l \in T!Leg : call[t][l] = "applied" /\ x = TransferEntry(t, l))'
  BY InTransferEntries, PTL
<1>i. (\A x : x \in TransferIds <=>
         \E t \in Transfers, l \in T!Leg : call[t][l] \in Performed /\ x = <<"transfer", t, l>>)'
  BY InTransferIds, PTL
<1>1. /\ UNCHANGED <<depositVars, paymentVars>>
      /\ \/ UNCHANGED <<TP!accountVars, body>> /\ TP!SameLegs
         \/ \E t \in Transfers, l \in TP!Leg : TP!ServeDelta(t, l)
  BY SameTransferStep, Assumptions, TP!StepLegs DEF TransferStep, Endpoints
<1>2. /\ PaymentEntries' = PaymentEntries /\ DecisionIds' = DecisionIds
      /\ DepositEntries' = DepositEntries /\ DepositIds' = DepositIds
  BY <1>1, SamePaymentEntries, SameDepositEntries DEF depositVars, paymentVars
<1>3. CASE UNCHANGED <<TP!accountVars, body>> /\ TP!SameLegs
  <2>1. \A t \in Transfers, l \in T!Leg, c \in Performed : call'[t][l] = c <=> call[t][l] = c
    <3> SUFFICES ASSUME NEW t \in Transfers, NEW l \in T!Leg, NEW c \in Performed
                 PROVE  call'[t][l] = c <=> call[t][l] = c
      OBVIOUS
    <3>1. <<t, l>> \in TP!Legs /\ c \in TP!Performed
      BY DEF T!Leg, TP!Leg, TP!Legs, Performed, TP!Performed
    <3> QED
      BY <1>3, <3>1 DEF TP!SameLegs
  <2>2. TransferEntries' = TransferEntries /\ TransferIds' = TransferIds
    BY <1>3, <2>1, SameTransferEntries
  <2>3. UNCHANGED B!vars
    BY <1>2, <1>3, <2>2 DEF B!vars, Entries, Spent, TP!accountVars
  <2> QED
    BY <2>3 DEF Opened
<1>4. ASSUME NEW t \in Transfers, NEW l \in TP!Leg, TP!ServeDelta(t, l)
      PROVE  Posting
  <2>0. TP!TypeOK /\ l \in T!Leg
    BY DEF Endpoints, TP!Inv, T!Leg, TP!Leg
  <2>1. PICK e : e = TransferEntry(t, l)
    OBVIOUS
  <2>2. /\ e.id = <<"transfer", t, l>>
        /\ e.account = TP!Target(t, l) /\ e.amount = TP!Delta(t, l)
    BY <2>1 DEF TransferEntry, Entry, T!Target, T!Delta, TP!Target, TP!Delta
  <2>3. e.account \in DOMAIN store /\ e.amount \in Int
    BY <1>4, <2>0, <2>2, Assumptions, TP!BodyType DEF TP!ServeDelta, TP!ApplyDelta, TP!Known
  <2>4. store' = [store EXCEPT ![e.account] = @ + e.amount]
    BY <1>4, <2>2 DEF TP!ServeDelta, TP!ApplyDelta
  <2>5. /\ UNCHANGED body /\ call[t][l] = "sent"
        /\ \A u \in Transfers, m \in T!Leg :
             call'[u][m] = IF u = t /\ m = l THEN "applied" ELSE call[u][m]
    BY <1>4, <2>0 DEF TP!ServeDelta, TP!TypeOK, T!Leg, TP!Leg
  <2>6. TransferEntries' = TransferEntries \cup {e}
    <3>1. \A u, m : TransferEntry(u, m)' = TransferEntry(u, m)
      BY <2>5 DEF TransferEntry, Entry, T!Target, T!Delta
    <3>2. \A x : x \in TransferEntries' <=> x \in TransferEntries \/ x = e
      BY <2>0, <2>1, <2>5, <3>1, <1>e, InTransferEntries
    <3> QED
      BY <3>2
  <2>7. TransferIds' = TransferIds \cup {e.id}
    <3>1. \A x : x \in TransferIds' <=> x \in TransferIds \/ x = <<"transfer", t, l>>
      BY <2>0, <2>5, <1>i, InTransferIds DEF Performed
    <3> QED
      BY <2>2, <3>1
  <2>8. e.id \notin Spent
    <3>1. e.id \notin TransferIds
      BY <2>2, <2>5, InTransferIds DEF Performed
    <3> QED
      BY <3>1, <2>2, OwnIds DEF Spent
  <2> QED
    BY <1>2, <2>3, <2>4, <2>6, <2>7, <2>8 DEF Posting, B!Post, Entries, Spent
<1> QED
  BY <1>1, <1>3, <1>4

LEMMA PaymentStepBooks ==
  ASSUME Endpoints, PaymentStep
  PROVE  Posting \/ Opened
<1>1. /\ UNCHANGED <<depositVars, transferVars>>
      /\ \/ UNCHANGED <<PP!accountVars, order, ruling>> /\ PP!SameDebits
         \/ \E v \in Decisions : PP!ServeDebit(v)
  BY SamePaymentStep, Assumptions, PP!StepDebits DEF PaymentStep, Endpoints
<1>2. /\ TransferEntries' = TransferEntries /\ TransferIds' = TransferIds
      /\ DepositEntries' = DepositEntries /\ DepositIds' = DepositIds
  BY <1>1, SameTransferEntries, SameDepositEntries DEF depositVars, transferVars
<1>3. CASE UNCHANGED <<PP!accountVars, order, ruling>> /\ PP!SameDebits
  <2>1. PaymentEntries' = PaymentEntries /\ DecisionIds' = DecisionIds
    BY <1>3, SamePaymentEntries DEF PP!SameDebits, Performed, PP!Performed
  <2>2. UNCHANGED B!vars
    BY <1>2, <1>3, <2>1 DEF B!vars, Entries, Spent, PP!accountVars
  <2> QED
    BY <2>2 DEF Opened
<1>4. ASSUME NEW v \in Decisions, PP!ServeDebit(v)
      PROVE  Posting
  <2>0. PP!TypeOK
    BY DEF Endpoints, PP!Inv
  <2>1. PICK e : e = DebitEntry(v)
    OBVIOUS
  <2>2. /\ e.id = <<"decision", v>>
        /\ e.account = PP!AccountOf(PP!PayOf(v)) /\ e.amount = -order[PP!PayOf(v)].amount
    BY <2>1 DEF DebitEntry, Entry, P!AccountOf, P!PayOf, PP!AccountOf, PP!PayOf
  <2>3. e.account \in DOMAIN store /\ e.amount \in Int
    BY <1>4, <2>0, <2>2, Assumptions, PP!AmountsType DEF PP!ServeDebit, PP!ApplyDelta, PP!Known
  <2>4. store' = [store EXCEPT ![e.account] = @ + e.amount]
    BY <1>4, <2>2 DEF PP!ServeDebit, PP!ApplyDelta
  <2>5. /\ UNCHANGED <<order, ruling>> /\ debit[v] = "sent"
        /\ \A w \in Decisions : debit'[w] = IF w = v THEN "applied" ELSE debit[w]
    BY <1>4, <2>0 DEF PP!ServeDebit, PP!TypeOK, PP!Set, PP!postVars
  <2>6. PaymentEntries' = PaymentEntries \cup {e}
    <3>1. \A w : DebitEntry(w)' = DebitEntry(w)
      BY <2>5 DEF DebitEntry, Entry, P!AccountOf, P!PayOf
    <3> QED
      BY <2>1, <2>5, <3>1 DEF PaymentEntries
  <2>7. DecisionIds' = DecisionIds \cup {e.id}
    BY <2>2, <2>5 DEF DecisionIds, Performed
  <2>8. e.id \notin Spent
    <3>1. e.id \notin DecisionIds
      BY <2>2, <2>5 DEF DecisionIds, Performed
    <3> QED
      BY <3>1, <2>2, OwnIds DEF Spent
  <2> QED
    BY <1>2, <2>3, <2>4, <2>6, <2>7, <2>8 DEF Posting, B!Post, Entries, Spent
<1> QED
  BY <1>1, <1>3, <1>4

LEMMA DepositsStepBooks ==
  ASSUME Endpoints, DepositsStep
  PROVE  Posting \/ Opened
<1>0. PICK d \in Deposits : DepositStep(d)
  BY DEF DepositsStep
<1>1. UNCHANGED <<transferVars, paymentVars, slip>> /\ Tellers
  BY <1>0, DepositKinds DEF DepositsStep, Endpoints
<1>2. /\ TransferEntries' = TransferEntries /\ TransferIds' = TransferIds
      /\ PaymentEntries' = PaymentEntries /\ DecisionIds' = DecisionIds
  BY <1>1, SameTransferEntries, SamePaymentEntries DEF transferVars, paymentVars
<1>3. CASE ~ServeDeposit(d)
  <2>1. UNCHANGED accountVars
    BY <1>0, <1>3, DepositKinds
  <2>2. \A c \in Deposits :
          /\ credit'[c] \in {"reading", "applied"} <=> credit[c] \in {"reading", "applied"}
          /\ credit'[c] = "wiped" <=> credit[c] = "wiped"
    BY <1>0, <1>1, <1>3 DEF Tellers, DepositTypeOK, DepositStep, Deposit, RefuseDeposit,
       DepositOk, DepositRaises, ServeDepositUnknown, ReadBalance, LoseDeposit
  <2>3. DepositEntries' = DepositEntries /\ DepositIds' = DepositIds
    BY <1>1, <2>2, SameDepositEntries
  <2>4. UNCHANGED B!vars
    BY <1>2, <2>1, <2>3 DEF B!vars, Entries, Spent, accountVars
  <2> QED
    BY <2>4 DEF Opened
<1>4. CASE ServeDeposit(d)
  <2>1. PICK e : e = DepositEntry(d)
    OBVIOUS
  <2>2. e.id = <<"deposit", d>> /\ e.account = slip[d].account /\ e.amount = slip[d].amount
    BY <2>1 DEF DepositEntry, Entry
  <2>3. e.account \in DOMAIN store /\ e.amount \in Int
    BY <1>1, <1>4, <2>2, DepositsAssumption DEF ServeDeposit, ApplyDelta, Known, Tellers, DepositTypeOK
  <2>4. store' = [store EXCEPT ![e.account] = @ + e.amount]
    BY <1>4, <2>2 DEF ServeDeposit, ApplyDelta
  <2>5. /\ credit[d] = "sent"
        /\ \A c \in Deposits : credit'[c] = IF c = d THEN "reading" ELSE credit[c]
    BY <1>1, <1>4 DEF ServeDeposit, Tellers, DepositTypeOK
  <2>6. DepositEntries' = DepositEntries \cup {e}
    BY <1>1, <2>1, <2>5 DEF DepositEntries, DepositEntry, Entry
  <2>7. DepositIds' = DepositIds \cup {e.id}
    BY <2>2, <2>5 DEF DepositIds, Performed
  <2>8. e.id \notin Spent
    <3>1. e.id \notin DepositIds
      BY <2>2, <2>5 DEF DepositIds, Performed
    <3> QED
      BY <3>1, <2>2, OwnIds DEF Spent
  <2> QED
    BY <1>2, <2>3, <2>4, <2>6, <2>7, <2>8 DEF Posting, B!Post, Entries, Spent
<1> QED
  BY <1>3, <1>4

\* Account-service that restarts forgets the entries, and the callers' orders stay spent.
LEMMA RestartBooks == AccountRestart => B!Restart
<1> SUFFICES ASSUME AccountRestart PROVE B!Restart
  OBVIOUS
<1>1. /\ \A t \in Transfers, l \in T!Leg :
           call'[t][l] = IF call[t][l] = "applied" THEN "wiped" ELSE call[t][l]
      /\ \A v \in Decisions : debit'[v] = IF debit[v] = "applied" THEN "wiped" ELSE debit[v]
      /\ \A d \in Deposits :
           credit'[d] = IF credit[d] \in {"reading", "applied"} THEN "wiped" ELSE credit[d]
  BY DEF AccountRestart, T!CallsForgotten, T!Wipe, P!DebitsForgotten, P!Wipe, CreditsForgotten, Wipe
<1>2. TransferEntries' = {} /\ PaymentEntries' = {} /\ DepositEntries' = {}
  BY <1>1 DEF TransferEntries, PaymentEntries, DepositEntries
<1>3. TransferIds' = TransferIds /\ DecisionIds' = DecisionIds /\ DepositIds' = DepositIds
  BY <1>1 DEF TransferIds, DecisionIds, DepositIds, Performed
<1> QED
  BY <1>2, <1>3 DEF Entries, Spent, AccountRestart, RestartStore, SeedStore, B!Restart, B!NewBooks

\* The steps that touch no call.
LEMMA OtherBooks ==
  ASSUME Endpoints, GatewayCrash \/ (\E a \in Accounts : Create(a)) \/ UNCHANGED vars
  PROVE  Opened
<1>1. UNCHANGED <<body, call, order, ruling, debit, slip, credit>>
  BY DEF GatewayCrash, T!HandlersStop, P!HandlersStop, TellersStop, Create, vars, depositVars,
     transferVars, paymentVars
<1>2. Entries' = Entries /\ Spent' = Spent
  BY <1>1, SameTransferEntries, SamePaymentEntries, SameDepositEntries DEF Entries, Spent
<1>3. CASE UNCHANGED store
  BY <1>2, <1>3 DEF Opened, B!vars
<1>4. ASSUME NEW a \in Accounts, Create(a) PROVE Opened
  BY <1>2, <1>4, StoreType DEF Opened, B!Open, Create, CreateAccount, AccountTypeOK
<1> QED
  BY <1>3, <1>4 DEF GatewayCrash, vars, accountVars

LEMMA StepKinds == Endpoints /\ [Next]_vars => Posting \/ Opened \/ AccountRestart
BY TransferStepBooks, PaymentStepBooks, DepositsStepBooks, OtherBooks DEF Next, Rest

LEMMA NothingPosted == Init => Entries = {} /\ Spent = {}
<1> SUFFICES ASSUME Init PROVE Entries = {} /\ Spent = {}
  OBVIOUS
<1>1. TransferEntries = {} /\ PaymentEntries = {} /\ DepositEntries = {}
  BY DEF Init, T!Init, T!Leg, P!Init, DepositInit, TransferEntries, PaymentEntries, DepositEntries
<1>2. TransferIds = {} /\ DecisionIds = {} /\ DepositIds = {}
  BY DEF Init, T!Init, T!Leg, P!Init, DepositInit, TransferIds, DecisionIds, DepositIds, Performed
<1> QED
  BY <1>1, <1>2 DEF Entries, Spent

\* Transfers, payments and deposits, under every fault, are one bank: each call is
\* posted once at most, even across restarts, and nothing else moves money.
THEOREM MeridianImplementsBank == Spec => ImplementsBank
<1>1. Init => B!Init
  BY NothingPosted DEF Init, T!Init, T!AccountInit, T!SeedStore, B!Init, B!NewBooks
<1>2. Posting => B!Next
  BY EntriesSpent DEF Posting, B!Next, B!Post
<1>3. Endpoints /\ [Next]_vars => [B!Next]_(B!vars)
  BY <1>2, StepKinds, RestartBooks DEF Opened, B!Next
<1> QED
  BY <1>1, <1>3, Invariance, PTL DEF Spec, ImplementsBank, B!Spec

LEMMA InitBooks == Init => Books /\ QuotedBalanceIncludesDeposit
<1> SUFFICES ASSUME Init PROVE Books /\ QuotedBalanceIncludesDeposit
  OBVIOUS
<1>1. Entries = {}
  BY NothingPosted
<1>2. EntriesKnown
  BY <1>1, FS_EmptySet DEF EntriesKnown
<1>3. \A a : EntriesOn(a) = {}
  BY <1>1 DEF EntriesOn
<1>4. \A a \in DOMAIN store : store[a] = Opening[a] /\ Opening[a] \in Int
  BY AccountsAssumption DEF Init, DepositInit, T!Init, T!AccountInit, T!SeedStore
<1>5. BooksBalance
  BY <1>3, <1>4, SumOfNone DEF BooksBalance
<1>6. QuotedBalanceIncludesDeposit
  BY DEF Init, DepositInit, QuotedBalanceIncludesDeposit
<1> QED
  BY <1>2, <1>5, <1>6 DEF Books

\* The balance q is one that an account opened with o has had with the entry own in
\* it, if E are its entries.
Quotable(q, o, own, E) == \E others \in SUBSET (E \ {own}) : q = {o + Sum(others \cup {own})}

\* It stays so while entries are added only.
LEMMA QuoteStays ==
  ASSUME NEW q, NEW o, NEW own, NEW E, NEW F, E \subseteq F, Quotable(q, o, own, E)
  PROVE  Quotable(q, o, own, F)
BY DEF Quotable

\* A balance read now is the opening one and every entry so far, the deposit's among them.
LEMMA QuoteRead ==
  ASSUME Endpoints, Books, NEW d \in Deposits, ReadBalance(d)
  PROVE  Quotable(quoted'[d], Opening[slip[d].account], DepositEntry(d), EntriesOn(slip[d].account))
<1> PICK a, own : a = slip[d].account /\ own = DepositEntry(d)
  OBVIOUS
<1>1. own \in EntriesOn(a)
  <2>1. own \in DepositEntries /\ own.account = a
    BY DEF ReadBalance, DepositEntries, DepositEntry, Entry
  <2> QED
    BY <2>1 DEF Entries, EntriesOn
<1>2. quoted'[d] = {store[a]} /\ a \in DOMAIN store
  BY DEF ReadBalance, Endpoints, Tellers, DepositTypeOK, Known
<1>3. store[a] = Opening[a] + Sum(EntriesOn(a))
  BY <1>2 DEF Books, BooksBalance
<1>4. (EntriesOn(a) \ {own}) \cup {own} = EntriesOn(a)
  BY <1>1
<1>5. quoted'[d] = {Opening[a] + Sum((EntriesOn(a) \ {own}) \cup {own})}
  BY <1>2, <1>3, <1>4
<1>6. Quotable(quoted'[d], Opening[a], own, EntriesOn(a))
  BY <1>5 DEF Quotable
<1> QED
  BY <1>6

LEMMA StepQuotes ==
  ASSUME Endpoints, Books, QuotedBalanceIncludesDeposit, [Next]_vars
  PROVE  QuotedBalanceIncludesDeposit'
<1> SUFFICES ASSUME NEW d \in Deposits, credit'[d] = "applied"
             PROVE  (LET a == slip[d].account
                         own == DepositEntry(d) IN
                     \E others \in SUBSET (EntriesOn(a) \ {own}) :
                       quoted[d] = {Opening[a] + Sum(others \cup {own})})'
  BY DEF QuotedBalanceIncludesDeposit
<1>1. UNCHANGED depositVars => UNCHANGED slip /\ credit[d] = "applied" /\ quoted'[d] = quoted[d]
  BY DEF depositVars
<1>2. ~AccountRestart
  BY DEF AccountRestart, CreditsForgotten, Wipe
<1>3. /\ UNCHANGED slip
      /\ \/ credit[d] = "applied" /\ quoted'[d] = quoted[d]
         \/ ReadBalance(d)
  <2>1. CASE GatewayCrash
    BY <2>1 DEF GatewayCrash, TellersStop
  <2>2. ASSUME NEW c \in Deposits, DepositStep(c)
        PROVE  /\ UNCHANGED slip
               /\ \/ credit[d] = "applied" /\ quoted'[d] = quoted[d]
                  \/ ReadBalance(d)
    BY <2>2 DEF Endpoints, Tellers, DepositTypeOK, DepositStep, Deposit, RefuseDeposit,
       DepositOk, DepositRaises, ServeDeposit, ServeDepositUnknown, ReadBalance, LoseDeposit
  <2> QED
    BY <1>1, <1>2, <2>1, <2>2 DEF Next, TransferStep, PaymentStep, DepositsStep, Create, Rest, vars
<1>4. PICK a, own, q, E, F : /\ a = slip[d].account /\ own = DepositEntry(d) /\ q = quoted'[d]
                             /\ E = EntriesOn(a) /\ F = EntriesOn(a)'
  OBVIOUS
<1>5. E \subseteq F
  BY <1>2, <1>4, StepKinds DEF Posting, B!Post, Opened, B!Open, B!vars, EntriesOn
<1>6. Quotable(q, Opening[a], own, E)
  <2>1. CASE credit[d] = "applied" /\ quoted'[d] = quoted[d]
    BY <2>1, <1>4 DEF QuotedBalanceIncludesDeposit, Quotable
  <2>2. CASE ReadBalance(d)
    BY <2>2, <1>4, QuoteRead
  <2> QED
    BY <1>3, <2>1, <2>2
<1>7. Quotable(q, Opening[a], own, F)
  BY <1>5, <1>6, QuoteStays
<1>8. /\ slip'[d].account = a /\ DepositEntry(d)' = own /\ EntriesOn(slip[d].account)' = F
      /\ quoted'[d] = q
  BY <1>3, <1>4 DEF DepositEntry, Entry, EntriesOn
<1> QED
  BY <1>7, <1>8 DEF Quotable, Sum

LEMMA InitInv == Init => Inv
BY InitEndpoints, InitBooks DEF Inv, Books

LEMMA StepInv == Inv /\ [Next]_vars => Inv'
<1> SUFFICES ASSUME Inv, [Next]_vars PROVE Inv'
  OBVIOUS
<1>1. Endpoints /\ Books /\ QuotedBalanceIncludesDeposit
  BY DEF Inv, Books
<1>2. Endpoints'
  BY <1>1, StepEndpoints
<1>3. Books'
  BY <1>1, StepKinds, StoreType, PostingBooks, OpenedBooks, RestartBooks, NewBooks
<1>4. QuotedBalanceIncludesDeposit'
  BY <1>1, StepQuotes
<1> QED
  BY <1>2, <1>3, <1>4 DEF Inv, Books

\* With all three endpoints at work a balance is the opening balance plus one
\* entry per call that this account-service has executed: none lost, none twice.
THEOREM BooksBalanceHolds == Spec => []BooksBalance
<1>1. Inv => BooksBalance
  BY DEF Inv
<1> QED
  BY <1>1, InitInv, StepInv, PTL DEF Spec

\* The balance a deposit is answered with is one the account had with the
\* deposit in it.
THEOREM QuotedBalanceIncludesDepositHolds == Spec => []QuotedBalanceIncludesDeposit
<1>1. Inv => QuotedBalanceIncludesDeposit
  BY DEF Inv
<1> QED
  BY <1>1, InitInv, StepInv, PTL DEF Spec
=======================================================================

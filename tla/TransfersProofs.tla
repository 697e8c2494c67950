------------------------ MODULE TransfersProofs ------------------------
(* What holds of Transfers for any accounts, requests, faults and number  *)
(* of restarts, proved by one inductive invariant.                        *)
EXTENDS Transfers, TLAPS

\* What the place a handler has reached says of its three calls.
Phase(t) ==
  /\ pc[t] \in {"idle", "refused"} => \A l \in Leg : call[t][l] = "unsent"
  /\ pc[t] \in {"debiting", "debit_failed"} => call[t]["credit"] = "unsent"
  /\ pc[t] \in {"debiting", "debit_failed", "crediting", "completed"} =>
       call[t]["reversal"] = "unsent"
  /\ pc[t] \in {"crediting", "completed", "reversing"} => Done(t, "debit")
  /\ pc[t] = "completed" => Done(t, "credit")
  /\ pc[t] = "debit_failed" => call[t]["debit"] \in Failed \/ <<t, "debit">> \in gaveUp
  /\ pc[t] = "reversed" => call[t]["reversal"] \in Performed \cup {"refused"}
  /\ pc[t] = "reversal_failed" =>
       call[t]["reversal"] = "lost" \/ <<t, "reversal">> \in gaveUp

\* One transfer of SagaOrder.
Ordered(t) ==
  /\ call[t]["credit"] # "unsent" => Done(t, "debit")
  /\ call[t]["reversal"] # "unsent" =>
       /\ Done(t, "debit")
       /\ call[t]["credit"] \in Failed \/ <<t, "credit">> \in gaveUp

\* Until account-service restarts, an account that could be debited is there to
\* be credited back: a reversal is not answered 404.
Refundable(t) ==
  restarts = 0 => /\ Done(t, "debit") => Known(body[t].from)
                  /\ call[t]["reversal"] # "refused"

Local(t) == Phase(t) /\ Ordered(t) /\ Refundable(t)

Inv == TypeOK /\ \A t \in Transfers : Local(t)

-------------------------------------------------------------------------
(* Type correctness.                                                     *)

LEMMA InitType == Init => TypeOK
  BY AccountsAssumption, TransfersAssumption
  DEF Init, TypeOK, AccountInit, AccountTypeOK, SeedStore, Leg, CallState

\* The moves of account-service keep the store's type, given an integer delta.
LEMMA AccountStepType ==
  ASSUME AccountTypeOK,
         NEW a \in Accounts, NEW delta \in Int,
         ApplyDelta(a, delta) \/ CreateAccount(a) \/ RestartStore
  PROVE  AccountTypeOK'
<1>1. CASE ApplyDelta(a, delta)
  BY <1>1 DEF AccountTypeOK, ApplyDelta, Known
<1>2. CASE CreateAccount(a)
  BY <1>2, AccountsAssumption DEF AccountTypeOK, CreateAccount
<1>3. CASE RestartStore
  BY <1>3, AccountsAssumption DEF AccountTypeOK, RestartStore, SeedStore
<1> QED
  BY <1>1, <1>2, <1>3

\* Call lives stay call lives.
LEMMA CallWrite ==
  ASSUME call \in [Transfers -> [Leg -> CallState]],
         NEW t \in Transfers, NEW l \in Leg, NEW c \in CallState,
         call' = [call EXCEPT ![t][l] = c]
  PROVE  /\ call' \in [Transfers -> [Leg -> CallState]]
         /\ call'[t][l] = c
         /\ \A m \in Leg \ {l} : call'[t][m] = call[t][m]
         /\ \A u \in Transfers \ {t} : call'[u] = call[u]
  OBVIOUS

\* The body, the delta and the two accounts of a transfer have their types.
LEMMA BodyType ==
  ASSUME TypeOK, NEW t \in Transfers, NEW l \in Leg
  PROVE  /\ body[t].from \in Accounts /\ body[t].to \in Accounts
         /\ Target(t, l) \in Accounts
         /\ Delta(t, l) \in Int
<1>1. body[t] \in Bodies
  BY DEF TypeOK
<1> QED
  BY <1>1, TransfersAssumption DEF Target, Delta

LEMMA StepType == TypeOK /\ [Next]_vars => TypeOK'
<1> SUFFICES ASSUME TypeOK, [Next]_vars PROVE TypeOK'
  OBVIOUS
<1> USE DEF TypeOK
<1>a. ASSUME NEW t \in Transfers, Submit(t) \/ Refuse(t) \/ Handler(t)
      PROVE  TypeOK'
  <2>1. UNCHANGED <<accountVars, body>> /\ AccountTypeOK'
    BY <1>a DEF Submit, Refuse, Handler, DebitOk, DebitRaises, CreditOk, CreditRaises,
       ReversalReplied, ReversalRaises, accountVars, AccountTypeOK
  <2>2. \/ call' = call
        \/ \E l \in Leg : call' = [call EXCEPT ![t][l] = "sent"]
    BY <1>a DEF Submit, Refuse, Handler, DebitOk, DebitRaises, CreditOk, CreditRaises,
       ReversalReplied, ReversalRaises, Send, Leg
  <2>3. call' \in [Transfers -> [Leg -> CallState]]
    BY <2>2, CallWrite DEF CallState
  <2>4. \E label \in {"idle"} \cup Waiting \cup Final : Goto(t, label)
    BY <1>a DEF Submit, Refuse, Handler, DebitOk, DebitRaises, CreditOk, CreditRaises,
       ReversalReplied, ReversalRaises, Waiting, Final, Answered
  <2>5. pc' \in [Transfers -> {"idle"} \cup Waiting \cup Final]
    BY <2>4 DEF Goto
  <2>6. gaveUp' \subseteq Transfers \X Leg
    BY <1>a DEF Submit, Refuse, Handler, DebitOk, DebitRaises, CreditOk, CreditRaises,
       ReversalReplied, ReversalRaises, Raises, Leg
  <2> QED
    BY <2>1, <2>3, <2>5, <2>6
<1>b. ASSUME NEW t \in Transfers, NEW l \in Leg, Serve(t, l) \/ LoseCall(t, l)
      PROVE  TypeOK'
  <2>1. UNCHANGED <<body, pc, gaveUp>>
    BY <1>b DEF Serve, ServeDelta, ServeUnknown, LoseCall
  <2>2. \E c \in CallState : call' = [call EXCEPT ![t][l] = c]
    BY <1>b DEF Serve, ServeDelta, ServeUnknown, LoseCall, CallState
  <2>3. AccountTypeOK'
    BY <1>b, BodyType, AccountStepType
    DEF Serve, ServeDelta, ServeUnknown, LoseCall, accountVars, AccountTypeOK
  <2> QED
    BY <2>1, <2>2, <2>3, CallWrite
<1>c. ASSUME NEW a \in Accounts, Create(a)
      PROVE  TypeOK'
  BY <1>c, AccountStepType DEF Create, handlerVars
<1>d. CASE GatewayCrash
  BY <1>d DEF GatewayCrash, HandlersStop, accountVars, AccountTypeOK, Waiting, Final, Answered
<1>e. CASE AccountRestart
  <2>1. AccountTypeOK'
    BY <1>e, AccountStepType, AccountsAssumption DEF AccountRestart, CallsForgotten
  <2> QED
    BY <1>e, <2>1 DEF AccountRestart, CallsForgotten, Wipe, CallState
<1>f. CASE UNCHANGED vars
  BY <1>f DEF vars, accountVars, handlerVars, AccountTypeOK
<1> QED
  BY <1>a, <1>b, <1>c, <1>d, <1>e, <1>f DEF Next, Step, Rest

\* The state keeps its types.
THEOREM TypeCorrect == Spec => []TypeOK
  BY InitType, StepType, PTL DEF Spec

-------------------------------------------------------------------------
(* The inductive invariant.                                              *)

LEMMA InitInv == Init => Inv
<1> SUFFICES ASSUME Init PROVE Inv
  OBVIOUS
<1>1. TypeOK
  BY InitType
<1>2. ASSUME NEW t \in Transfers PROVE Local(t)
  BY <1>2 DEF Init, Local, Phase, Ordered, Refundable, Done, Performed, Leg
<1> QED
  BY <1>1, <1>2 DEF Inv

\* A step of the others: the transfer's own state is left alone, what was given
\* up stays so, and account-service forgets an account only by restarting.
Others(t) ==
  /\ UNCHANGED <<body, pc[t], call[t]>>
  /\ gaveUp \subseteq gaveUp'
  /\ restarts' = 0 => restarts = 0 /\ DOMAIN store \subseteq DOMAIN store'

LEMMA Frame ==
  ASSUME NEW t \in Transfers, Local(t), Others(t)
  PROVE  Local(t)'
BY DEF Others, Local, Phase, Ordered, Refundable, Done, Known

\* What a step of t's handler leaves alone.
LEMMA HandlerLeaves ==
  ASSUME Inv, NEW t \in Transfers, Submit(t) \/ Refuse(t) \/ Handler(t)
  PROVE  /\ UNCHANGED <<accountVars, body>>
         /\ gaveUp \subseteq gaveUp'
         /\ \A u \in Transfers \ {t} : Others(u)
<1> USE DEF Inv, TypeOK
<1>1. UNCHANGED <<accountVars, body>> /\ gaveUp \subseteq gaveUp'
  BY DEF Submit, Refuse, Handler, DebitOk, DebitRaises, CreditOk, CreditRaises,
     ReversalReplied, ReversalRaises, Raises
<1>2. \A u \in Transfers \ {t} : pc'[u] = pc[u] /\ call'[u] = call[u]
  BY DEF Submit, Refuse, Handler, DebitOk, DebitRaises, CreditOk, CreditRaises,
     ReversalReplied, ReversalRaises, Goto, Send
<1> QED
  BY <1>1, <1>2 DEF Others, accountVars

\* A step of t's handler keeps what is known of t.
LEMMA HandlerStep ==
  ASSUME Inv, NEW t \in Transfers, Submit(t) \/ Refuse(t) \/ Handler(t)
  PROVE  Local(t)'
<1> USE DEF Inv, TypeOK
<1>0. /\ UNCHANGED <<accountVars, body>> /\ gaveUp \subseteq gaveUp'
      /\ Local(t)
      /\ {"debit", "credit", "reversal"} = Leg
  BY HandlerLeaves DEF Leg
<1>r. Refundable(t) /\ (call'[t]["debit"] \in Performed => call[t]["debit"] \in Performed)
        /\ (call'[t]["reversal"] = "refused" => call[t]["reversal"] = "refused")
      => Refundable(t)'
  BY <1>0 DEF Refundable, Done, Known, accountVars
<1> USE DEF Local, Phase, Ordered, Done, Performed, Failed, Goto, Send
<1>1. CASE Submit(t)
  BY <1>0, <1>1, <1>r DEF Submit
<1>2. CASE Refuse(t)
  BY <1>0, <1>2, <1>r DEF Refuse
<1>3. CASE DebitOk(t)
  BY <1>0, <1>3, <1>r DEF DebitOk
<1>4. CASE DebitRaises(t)
  BY <1>0, <1>4, <1>r DEF DebitRaises, Raises
<1>5. CASE CreditOk(t)
  BY <1>0, <1>5, <1>r DEF CreditOk
<1>6. CASE CreditRaises(t)
  BY <1>0, <1>6, <1>r DEF CreditRaises, Raises
<1>7. CASE ReversalReplied(t)
  BY <1>0, <1>7, <1>r DEF ReversalReplied
<1>8. CASE ReversalRaises(t)
  BY <1>0, <1>8, <1>r DEF ReversalRaises
<1> QED
  BY <1>1, <1>2, <1>3, <1>4, <1>5, <1>6, <1>7, <1>8 DEF Handler

\* So does the service of one of its calls, or its loss.
LEMMA ServiceStep ==
  ASSUME Inv, NEW t \in Transfers, NEW l \in Leg, Serve(t, l) \/ LoseCall(t, l)
  PROVE  \A u \in Transfers : Local(u)'
<1> USE DEF Inv, TypeOK
<1>1. /\ UNCHANGED <<body, pc, gaveUp, restarts>>
      /\ DOMAIN store' = DOMAIN store
      /\ call[t][l] = "sent"
  BY DEF Serve, ServeDelta, ServeUnknown, LoseCall, ApplyDelta, accountVars
<1>2. PICK c \in {"applied", "refused", "lost"} : call' = [call EXCEPT ![t][l] = c]
  BY DEF Serve, ServeDelta, ServeUnknown, LoseCall
<1>3. /\ call'[t][l] = c
      /\ \A m \in Leg \ {l} : call'[t][m] = call[t][m]
      /\ \A u \in Transfers \ {t} : call'[u] = call[u]
  BY <1>2, CallWrite DEF CallState
<1>4. ASSUME NEW u \in Transfers \ {t} PROVE Local(u)'
  <2>1. Others(u)
    BY <1>1, <1>3 DEF Others
  <2> QED
    BY <2>1, Frame
<1>5. Local(t)'
  <2> USE DEF Local
  <2>1. Phase(t)' /\ Ordered(t)'
    BY <1>1, <1>3 DEF Phase, Ordered, Done, Performed, Failed, Leg
  <2>2. l = "debit" /\ c = "applied" => Known(body[t].from)
    BY <1>2, <1>3 DEF Serve, ServeDelta, ServeUnknown, LoseCall, ApplyDelta, Target
  <2>3. restarts = 0 /\ l = "reversal" => c # "refused"
    <3>1. restarts = 0 /\ l = "reversal" => Known(Target(t, l))
      BY <1>1 DEF Ordered, Refundable, Target
    <3> QED
      BY <1>2, <1>3, <3>1 DEF Serve, ServeDelta, ServeUnknown, LoseCall
  <2>4. Refundable(t)'
    BY <1>1, <1>3, <2>2, <2>3 DEF Refundable, Done, Performed, Known, Leg
  <2> QED
    BY <2>1, <2>4
<1> QED
  BY <1>4, <1>5

LEMMA StepInv == Inv /\ [Next]_vars => Inv'
<1> SUFFICES ASSUME Inv, [Next]_vars PROVE Inv'
  OBVIOUS
<1>t. TypeOK /\ TypeOK'
  BY StepType DEF Inv
<1>l. \A t \in Transfers : Local(t)
  BY DEF Inv
<1> SUFFICES ASSUME NEW t \in Transfers PROVE Local(t)'
  BY <1>t DEF Inv
<1>a. ASSUME NEW u \in Transfers, Submit(u) \/ Refuse(u) \/ Handler(u)
      PROVE  Local(t)'
  BY <1>a, <1>l, HandlerLeaves, HandlerStep, Frame
<1>b. ASSUME NEW u \in Transfers, NEW l \in Leg, Serve(u, l) \/ LoseCall(u, l)
      PROVE  Local(t)'
  BY <1>b, ServiceStep
<1>c. ASSUME NEW a \in Accounts, Create(a)
      PROVE  Local(t)'
  <2>1. Others(t)
    BY <1>c DEF Create, CreateAccount, handlerVars, Others
  <2> QED
    BY <2>1, <1>l, Frame
<1>d. CASE GatewayCrash
  BY <1>d, <1>l, <1>t DEF GatewayCrash, HandlersStop, Local, Phase, Ordered, Refundable, Done, Known,
     accountVars, TypeOK, Waiting
<1>e. CASE AccountRestart
  <2>1. restarts' # 0
    BY <1>e, <1>t DEF AccountRestart, CallsForgotten, RestartStore, TypeOK, AccountTypeOK
  <2>2. \A l \in Leg : call'[t][l] = Wipe(call[t][l])
    BY <1>e DEF AccountRestart, CallsForgotten
  <2>3. UNCHANGED <<body, pc, gaveUp>>
    BY <1>e DEF AccountRestart, CallsForgotten
  <2>4. Phase(t)' /\ Ordered(t)'
    BY <2>2, <2>3, <1>l DEF Local, Phase, Ordered, Done, Performed, Failed, Wipe, Leg
  <2> QED
    BY <2>1, <2>4 DEF Local, Refundable
<1>f. CASE UNCHANGED vars
  <2>1. Others(t)
    BY <1>f DEF vars, accountVars, handlerVars, Others
  <2> QED
    BY <2>1, <1>l, Frame
<1> QED
  BY <1>a, <1>b, <1>c, <1>d, <1>e, <1>f DEF Next, Step, Rest

\* A step of another endpoint, which shares account-service only, keeps it too.
LEMMA NeighbourInv ==
  ASSUME Inv, AccountTypeOK', UNCHANGED <<handlerVars, restarts>>, DOMAIN store \subseteq DOMAIN store'
  PROVE  Inv'
<1>1. TypeOK'
  BY DEF Inv, TypeOK, handlerVars
<1>2. \A t \in Transfers : Others(t)
  BY DEF Others, handlerVars
<1> QED
  BY <1>1, <1>2, Frame DEF Inv

THEOREM Invariance == Spec => []Inv
  BY InitInv, StepInv, PTL DEF Spec

-------------------------------------------------------------------------
(* The properties the runs check.                                        *)

\* 201 "completed" is answered only over a debit and a credit that both took
\* place and that nobody takes back.
THEOREM CompletedMeansMovedHolds == Spec => []CompletedMeansMoved
<1>1. Inv => CompletedMeansMoved
  BY DEF Inv, Local, Phase, CompletedMeansMoved, Moved, Done, Performed
<1> QED
  BY <1>1, Invariance, PTL

\* No credit without its debit, no reversal without a debit and a credit that
\* failed or went unanswered.
THEOREM SagaOrderHolds == Spec => []SagaOrder
<1>1. Inv => SagaOrder
  BY DEF Inv, Local, Ordered, SagaOrder
<1> QED
  BY <1>1, Invariance, PTL

\* Money is created only by giving up on a credit that was executed.
THEOREM CreatedOnlyInDoubtHolds == Spec => []CreatedOnlyInDoubt
<1>1. Inv => CreatedOnlyInDoubt
  BY DEF Inv, Local, Ordered, CreatedOnlyInDoubt, Done, Performed, Failed
<1> QED
  BY <1>1, Invariance, PTL

LEMMA InvAllOrNothing == Inv => AllOrNothing
<1>1. ASSUME Inv, NEW t \in Transfers, Over(t), Clean(t)
      PROVE  /\ Moved(t) \/ Untouched(t)
             /\ pc[t] = "completed" <=> Moved(t)
  <2> USE <1>1 DEF Inv, Local, Over, Clean, Moved, Untouched, Done, Performed, Failed, Leg
  <2>1. CASE pc[t] = "completed"
    BY <2>1 DEF Phase
  <2>2. CASE pc[t] = "debit_failed"
    BY <2>2 DEF Phase
  <2>3. CASE pc[t] = "reversed"
    BY <2>3 DEF Phase, Ordered, Refundable
  <2>4. CASE pc[t] = "reversal_failed"
    BY <2>4 DEF Phase
  <2>5. CASE pc[t] = "refused"
    BY <2>5 DEF Phase
  <2> QED
    BY <2>1, <2>2, <2>3, <2>4, <2>5 DEF Answered
<1> QED
  BY <1>1 DEF AllOrNothing

\* A transfer over which nothing was missed is done entirely or not at all, and
\* its answer says which: it needs Refundable, that the account to be made whole
\* is still known.
THEOREM AllOrNothingHolds == Spec => []AllOrNothing
  BY InvAllOrNothing, Invariance, PTL
=======================================================================

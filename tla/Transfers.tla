--------------------------- MODULE Transfers ---------------------------
(* POST /v1/transfers of gateway-api: a debit, a credit and a best-effort *)
(* reversal, three calls to account-service with no transaction around    *)
(* them, run by an asyncio handler per request.                           *)
EXTENDS AccountService, Calls

CONSTANTS Transfers,    \* the requests; the handler makes up one transfer_id for each
          Bodies,       \* the request bodies (with the caller's role) clients send
          Faults        \* what may go wrong, a subset of FaultKinds

FaultKinds == {"timeout",          \* a reply takes longer than the client's 10 s
               "loss",             \* a connection fails before the callee sees the call
               "accountRestart",   \* account-service restarts and forgets
               "gatewayCrash"}     \* gateway-api dies, and its handlers with it

TransferRoles == {"finance-trader", "finance-admin"}

ASSUME TransfersAssumption ==
  /\ Faults \subseteq FaultKinds
  /\ \A b \in Bodies : /\ b.from \in Accounts /\ b.to \in Accounts
                       /\ b.amount \in Nat \ {0}
                       /\ b.role \in STRING

VARIABLES body,      \* body[t]: what the client of request t sent
          pc,        \* pc[t]: where the handler of t is, or how it ended
          call,      \* call[t][l]: the life of each of the three calls
          gaveUp     \* history: the calls <<t, l>> whose reply the handler went on without

handlerVars == <<body, pc, call, gaveUp>>
vars == <<accountVars, handlerVars>>

Leg == {"debit", "credit", "reversal"}

Waiting == {"debiting", "crediting", "reversing"}

\* 201; 502 without a debit reply; 502 after a reversal that was answered, or not;
\* 400 or 403; no answer at all.
Answered == {"completed", "debit_failed", "reversed", "reversal_failed", "refused"}
Final == Answered \cup {"crashed"}

TypeOK ==
  /\ AccountTypeOK
  /\ body \in [Transfers -> Bodies]
  /\ pc \in [Transfers -> {"idle"} \cup Waiting \cup Final]
  /\ call \in [Transfers -> [Leg -> CallState]]
  /\ gaveUp \subseteq Transfers \X Leg

Init ==
  /\ AccountInit
  /\ body \in [Transfers -> Bodies]
  /\ pc = [t \in Transfers |-> "idle"]
  /\ call = [t \in Transfers |-> [l \in Leg |-> "unsent"]]
  /\ gaveUp = {}

\* The account and the delta of each PATCH .../balance of the handler.
Target(t, l) == IF l = "credit" THEN body[t].to ELSE body[t].from

\* Mutant: the reversal repeats the debit.
DeltaUnsigned(t, l) == IF l = "credit" THEN body[t].amount ELSE -body[t].amount

Delta(t, l)  == IF l = "debit" THEN -body[t].amount ELSE body[t].amount

-------------------------------------------------------------------------
(* The handler. Each await suspends it, and any other handler may run.   *)

Goto(t, label)  == pc' = [pc EXCEPT ![t] = label]
Send(t, l)      == call' = [call EXCEPT ![t][l] = "sent"]

\* No reply comes, or none in time. The client's 10 s timer can fire whatever has
\* become of the call; one still "sent" then stays so, and the callee may serve it
\* after the handler left. A callee that restarts may take its reply with it.
Unanswered(t, l) ==
  \/ "timeout" \in Faults /\ call[t][l] \in {"sent", "applied", "refused"}
  \/ call[t][l] = "wiped"

\* Mutant: the handler insists on 201 Created.
RaisesOn200(t, l) ==
  \/ call[t][l] \in Failed \cup {"applied"} /\ UNCHANGED gaveUp
  \/ Unanswered(t, l) /\ gaveUp' = gaveUp \cup {<<t, l>>}

\* Mutant: a connection that failed is dialled again, for ever.
RaisesOnReplies(t, l) ==
  \/ call[t][l] = "refused" /\ UNCHANGED gaveUp
  \/ Unanswered(t, l) /\ gaveUp' = gaveUp \cup {<<t, l>>}

\* Leaving an await of leg l with an httpx.HTTPError.
Raises(t, l) ==
  \/ call[t][l] \in Failed /\ UNCHANGED gaveUp
  \/ Unanswered(t, l) /\ gaveUp' = gaveUp \cup {<<t, l>>}

Accepted(b) == b.role \in TransferRoles /\ b.from # b.to

Submit(t) ==
  /\ pc[t] = "idle"
  /\ Accepted(body[t])
  /\ Goto(t, "debiting")
  /\ Send(t, "debit")
  /\ UNCHANGED <<accountVars, body, gaveUp>>

Refuse(t) ==
  /\ pc[t] = "idle"
  /\ ~Accepted(body[t])
  /\ Goto(t, "refused")
  /\ UNCHANGED <<accountVars, body, call, gaveUp>>

\* Mutant: no raise_for_status on the debit.
DebitAnswered(t) ==
  /\ pc[t] = "debiting"
  /\ call[t]["debit"] \in Performed \cup {"refused"}
  /\ Goto(t, "crediting")
  /\ Send(t, "credit")
  /\ UNCHANGED <<accountVars, body, gaveUp>>

DebitOk(t) ==
  /\ pc[t] = "debiting"
  /\ call[t]["debit"] \in Performed
  /\ Goto(t, "crediting")
  /\ Send(t, "credit")
  /\ UNCHANGED <<accountVars, body, gaveUp>>

DebitRaises(t) ==
  /\ pc[t] = "debiting"
  /\ Raises(t, "debit")
  /\ Goto(t, "debit_failed")
  /\ UNCHANGED <<accountVars, body, call>>

\* Mutant: no raise_for_status on the credit.
CreditAnswered(t) ==
  /\ pc[t] = "crediting"
  /\ call[t]["credit"] \in Performed \cup {"refused"}
  /\ Goto(t, "completed")
  /\ UNCHANGED <<accountVars, body, call, gaveUp>>

CreditOk(t) ==
  /\ pc[t] = "crediting"
  /\ call[t]["credit"] \in Performed
  /\ Goto(t, "completed")
  /\ UNCHANGED <<accountVars, body, call, gaveUp>>

\* Mutant: the 502 goes out before the reversal.
CreditRaisesAtOnce(t) ==
  /\ pc[t] = "crediting"
  /\ Raises(t, "credit")
  /\ Goto(t, "reversed")
  /\ UNCHANGED <<accountVars, body, call>>

CreditRaises(t) ==
  /\ pc[t] = "crediting"
  /\ Raises(t, "credit")
  /\ Goto(t, "reversing")
  /\ Send(t, "reversal")
  /\ UNCHANGED <<accountVars, body>>

\* There is no raise_for_status on the reversal: a 404 or a 500 is logged as
\* "transfer.debit.reversed" like a 200. The client gets 502 either way.
ReversalReplied(t) ==
  /\ pc[t] = "reversing"
  /\ call[t]["reversal"] \in Performed \cup {"refused"}
  /\ Goto(t, "reversed")
  /\ UNCHANGED <<accountVars, body, call, gaveUp>>

ReversalRaises(t) ==
  /\ pc[t] = "reversing"
  /\ \/ call[t]["reversal"] = "lost" /\ UNCHANGED gaveUp
     \/ Unanswered(t, "reversal") /\ gaveUp' = gaveUp \cup {<<t, "reversal">>}
  /\ Goto(t, "reversal_failed")
  /\ UNCHANGED <<accountVars, body, call>>

Handler(t) ==
  \/ DebitOk(t) \/ DebitRaises(t)
  \/ CreditOk(t) \/ CreditRaises(t)
  \/ ReversalReplied(t) \/ ReversalRaises(t)

\* The saga's progress is in the handler's frame only: nothing resumes it.
HandlersStop ==
  /\ pc' = [t \in Transfers |-> IF pc[t] \in Waiting THEN "crashed" ELSE pc[t]]
  /\ UNCHANGED <<body, call, gaveUp>>

GatewayCrash ==
  /\ "gatewayCrash" \in Faults
  /\ \E t \in Transfers : pc[t] \in Waiting
  /\ HandlersStop
  /\ UNCHANGED accountVars

-------------------------------------------------------------------------
(* account-service, and the network in between.                          *)

ServeDelta(t, l) ==
  /\ call[t][l] = "sent"
  /\ ApplyDelta(Target(t, l), Delta(t, l))
  /\ call' = [call EXCEPT ![t][l] = "applied"]
  /\ UNCHANGED <<body, pc, gaveUp>>

ServeUnknown(t, l) ==
  /\ call[t][l] = "sent"
  /\ ~Known(Target(t, l))
  /\ call' = [call EXCEPT ![t][l] = "refused"]
  /\ UNCHANGED <<accountVars, body, pc, gaveUp>>

Serve(t, l) == ServeDelta(t, l) \/ ServeUnknown(t, l)

LoseCall(t, l) ==
  /\ "loss" \in Faults
  /\ call[t][l] = "sent"
  /\ call' = [call EXCEPT ![t][l] = "lost"]
  /\ UNCHANGED <<accountVars, body, pc, gaveUp>>

CallsForgotten ==
  /\ call' = [t \in Transfers |-> [l \in Leg |-> Wipe(call[t][l])]]
  /\ UNCHANGED <<body, pc, gaveUp>>

AccountRestart ==
  /\ "accountRestart" \in Faults
  /\ RestartStore
  /\ CallsForgotten

Create(a) == CreateAccount(a) /\ UNCHANGED handlerVars

-------------------------------------------------------------------------
\* A step of one transfer.
Step ==
  \/ \E t \in Transfers : Submit(t) \/ Refuse(t) \/ Handler(t)
  \/ \E t \in Transfers, l \in Leg : Serve(t, l) \/ LoseCall(t, l)

\* Every client has its answer and no call is left to serve.
AtRest == \A t \in Transfers : pc[t] \in Final /\ \A l \in Leg : Settled(call[t][l])

Rest == AtRest /\ UNCHANGED vars

Next ==
  \/ Step
  \/ \E a \in Accounts : Create(a)
  \/ GatewayCrash
  \/ AccountRestart
  \/ Rest

\* The event loop resumes a handler whose call has ended, by a reply or an
\* error; Tomcat's threads serve what has arrived. The timer need not fire,
\* clients need not send anything, and nothing makes a fault happen.
Fairness ==
  /\ \A t \in Transfers : WF_vars(Handler(t) /\ UNCHANGED gaveUp)
  /\ \A t \in Transfers, l \in Leg : WF_vars(Serve(t, l))

Spec == Init /\ [][Next]_vars /\ Fairness

-------------------------------------------------------------------------
(* What the endpoint promises.                                           *)

Done(t, l) == call[t][l] \in Performed

Moved(t)     == Done(t, "debit") /\ Done(t, "credit") /\ ~Done(t, "reversal")
Untouched(t) == ~Done(t, "credit") /\ (Done(t, "debit") <=> Done(t, "reversal"))

Over(t) == pc[t] \in Answered /\ \A l \in Leg : Settled(call[t][l])

\* The handler knew how every call of the transfer ended, and account-service
\* remembers them.
Clean(t) ==
  /\ restarts = 0
  /\ \A l \in Leg : <<t, l>> \notin gaveUp
  /\ call[t]["reversal"] # "lost"

\* A client is told 201 "completed" only for a transfer whose debit and credit
\* have both been executed and whose debit nobody takes back, whatever times
\* out, crashes or restarts: the handler awaits both replies before it answers.
CompletedMeansMoved ==
  \A t \in Transfers : pc[t] = "completed" => Moved(t) /\ call[t]["reversal"] = "unsent"

\* The handler never credits money it has not taken, and never returns money it
\* has not taken or has no reason to think undelivered: this is the order of
\* the three try blocks.
SagaOrder ==
  \A t \in Transfers :
    /\ call[t]["credit"] # "unsent" => Done(t, "debit")
    /\ call[t]["reversal"] # "unsent" =>
         /\ Done(t, "debit")
         /\ call[t]["credit"] \in Failed \/ <<t, "credit">> \in gaveUp

\* "Atomically debits the source and credits the destination", as far as the
\* code can: a transfer over which no reply was missed, no reversal lost and no
\* restart came is, once its calls are settled, done entirely or not at all,
\* and the answer says which.
AllOrNothing ==
  \A t \in Transfers : Over(t) /\ Clean(t) =>
    /\ Moved(t) \/ Untouched(t)
    /\ pc[t] = "completed" <=> Moved(t)

\* Money is created (the destination credited and the source made whole) in
\* one case only: the handler went on without the reply of a credit that was
\* executed.
CreatedOnlyInDoubt ==
  \A t \in Transfers :
    Done(t, "credit") /\ Done(t, "reversal") => <<t, "credit">> \in gaveUp

\* The docstring taken at its word, for every transfer that has been answered.
DocumentedAtomicity == \A t \in Transfers : Over(t) => Moved(t) \/ Untouched(t)

\* A transfer that started is answered, even if the client's timer never fires:
\* the handler has a way out of each await for every end its call can come to.
\* Only a crash of the gateway takes the handler away unanswered.
EveryTransferEnds ==
  \A t \in Transfers : pc[t] \in Waiting ~> pc[t] \in Final
=======================================================================

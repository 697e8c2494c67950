------------------- MODULE TransfersAccountingProofs -------------------
(* The money of Transfers: under every fault a balance is the sum of the  *)
(* executed legs, and without faults the saga is the atomic transfer.     *)
EXTENDS TransfersAccounting, TransfersProofs, Sums

\* Every executed leg is on an account the store has, and finitely many have
\* been executed.
LegsKnown ==
  /\ \A tl \in Legs : call[tl[1]][tl[2]] = "applied" => Known(Target(tl[1], tl[2]))
  /\ \A a \in Accounts : IsFiniteSet(LegsOn(a))

Ledger == Inv /\ LegsKnown /\ BalancesMatchLegs

LEMMA DeltasType == TypeOK => \A tl \in Legs : Deltas[tl] = Delta(tl[1], tl[2]) /\ Deltas[tl] \in Int
BY BodyType DEF Legs, Deltas

LEMMA InitLedger == Init => Ledger
<1> SUFFICES ASSUME Init PROVE Ledger
  OBVIOUS
<1>1. \A a : LegsOn(a) = {}
  BY DEF Init, LegsOn, Legs
<1>2. \A a \in DOMAIN store : store[a] = Opening[a] /\ Opening[a] \in Int
  BY AccountsAssumption DEF Init, AccountInit, SeedStore
<1>3. LegsKnown
  BY <1>1, FS_EmptySet DEF LegsKnown, LegsOn
<1>4. BalancesMatchLegs
  BY <1>1, <1>2, SumEmpty DEF BalancesMatchLegs
<1> QED
  BY <1>3, <1>4, InitInv DEF Ledger

\* A step that executes no call and forgets none, and leaves the accounts that
\* the store has as they are.
SameLegs ==
  \A tl \in Legs, c \in Performed : call'[tl[1]][tl[2]] = c <=> call[tl[1]][tl[2]] = c

LEMMA SameBooks ==
  ASSUME Ledger, UNCHANGED body, SameLegs,
         DOMAIN store \subseteq DOMAIN store',
         \A a \in DOMAIN store : store'[a] = store[a],
         \A a \in DOMAIN store' \ DOMAIN store : a \in Accounts /\ store'[a] = Opening[a]
  PROVE  LegsKnown' /\ BalancesMatchLegs'
<1>1. \A a : LegsOn(a)' = LegsOn(a)
  BY DEF LegsOn, SameLegs, Performed, Target
<1>2. Deltas' = Deltas
  BY DEF Deltas, Delta
<1>3. LegsKnown'
  BY <1>1 DEF Ledger, LegsKnown, SameLegs, Performed, Known, Target
<1>4. ASSUME NEW a \in DOMAIN store' \ DOMAIN store
      PROVE  LegsOn(a) = {} /\ Opening[a] \in Int
  BY <1>4, AccountsAssumption DEF Ledger, LegsKnown, LegsOn, Known
<1>5. ASSUME NEW a \in DOMAIN store'
      PROVE  store'[a] = Opening[a] + SumFunctionOnSet(Deltas, LegsOn(a))
  <2>1. CASE a \in DOMAIN store
    BY <2>1 DEF Ledger, BalancesMatchLegs
  <2>2. CASE a \notin DOMAIN store
    BY <2>2, <1>4, <1>5, SumEmpty
  <2> QED
    BY <2>1, <2>2
<1>6. BalancesMatchLegs'
  BY <1>1, <1>2, <1>5 DEF BalancesMatchLegs
<1> QED
  BY <1>3, <1>6

\* The handler sends a call at most once, so it never overwrites an executed one.
LEMMA HandlerKeepsLegs ==
  ASSUME Inv, NEW t \in Transfers, Submit(t) \/ Refuse(t) \/ Handler(t)
  PROVE  SameLegs
<1>1. TypeOK /\ Phase(t) /\ Leg = {"debit", "credit", "reversal"}
  BY DEF Inv, Local, Leg
<1>2. call' = call \/ \E l \in Leg : call[t][l] = "unsent" /\ call' = [call EXCEPT ![t][l] = "sent"]
  BY <1>1 DEF Submit, Refuse, Handler, DebitOk, DebitRaises, CreditOk, CreditRaises,
     ReversalReplied, ReversalRaises, Send, Phase
<1> QED
  BY <1>1, <1>2 DEF TypeOK, SameLegs, Performed, Legs

\* An executed call adds its delta to its account, and one leg to the account's legs.
LEMMA ServedLeg ==
  ASSUME Ledger, NEW t \in Transfers, NEW l \in Leg, ServeDelta(t, l)
  PROVE  LegsKnown' /\ BalancesMatchLegs'
<1> DEFINE tl == <<t, l>>
<1>0. PICK a \in Accounts : a = Target(t, l)
  BY BodyType DEF Ledger, Inv
<1>1. /\ TypeOK /\ Known(a) /\ tl \in Legs
      /\ UNCHANGED body
      /\ store' = [store EXCEPT ![a] = @ + Delta(t, l)]
      /\ call[t][l] = "sent" /\ call' = [call EXCEPT ![t][l] = "applied"]
  BY <1>0 DEF ServeDelta, ApplyDelta, Ledger, Inv, Legs
<1>2. \A m \in Legs : call'[m[1]][m[2]] = IF m = tl THEN "applied" ELSE call[m[1]][m[2]]
  BY <1>1 DEF TypeOK, Legs
<1>3. tl \notin LegsOn(a) /\ LegsOn(a)' = LegsOn(a) \cup {tl}
  BY <1>0, <1>1, <1>2 DEF LegsOn, Target
<1>4. \A b : b # a => LegsOn(b)' = LegsOn(b)
  BY <1>0, <1>1, <1>2 DEF LegsOn, Target
<1>5. Deltas' = Deltas /\ DOMAIN store' = DOMAIN store
  BY <1>1 DEF Deltas, Delta
<1>6. IsFiniteSet(LegsOn(a)) /\ LegsOn(a) \subseteq Legs
  BY <1>1 DEF Ledger, LegsKnown, LegsOn
<1>7. LegsKnown'
  <2>1. \A b \in Accounts : IsFiniteSet(LegsOn(b)')
    <3> HIDE DEF tl
    <3>1. IsFiniteSet(LegsOn(a)')
      BY <1>3, <1>6, FS_AddElement
    <3> QED
      BY <3>1, <1>4 DEF Ledger, LegsKnown
  <2> QED
    BY <2>1, <1>0, <1>1, <1>2, <1>5 DEF Ledger, LegsKnown, Known, Target
<1>8. /\ store[a] = Opening[a] + SumFunctionOnSet(Deltas, LegsOn(a))
      /\ Opening[a] \in Int /\ Delta(t, l) \in Int /\ Deltas[tl] = Delta(t, l)
      /\ SumFunctionOnSet(Deltas, LegsOn(a)) \in Int
      /\ SumFunctionOnSet(Deltas, LegsOn(a)') = Deltas[tl] + SumFunctionOnSet(Deltas, LegsOn(a))
  <2>1. \A m \in LegsOn(a) \cup {tl} : Deltas[m] \in Int
    BY <1>1, <1>6, DeltasType
  <2> QED
    BY <2>1, <1>1, <1>3, <1>6, DeltasType, SumType, SumAdd, AccountsAssumption
    DEF Ledger, BalancesMatchLegs, Known
<1>9. ASSUME NEW b \in DOMAIN store'
      PROVE  store'[b] = Opening[b] + SumFunctionOnSet(Deltas, LegsOn(b)')
  <2>1. CASE b = a
    <3>1. store'[a] = store[a] + Delta(t, l)
      BY <1>1 DEF Known
    <3> HIDE DEF tl
    <3> QED
      BY <2>1, <3>1, <1>8
  <2>2. CASE b # a
    BY <2>2, <1>1, <1>4, <1>5, <1>9 DEF Ledger, BalancesMatchLegs
  <2> QED
    BY <2>1, <2>2
<1> QED
  BY <1>5, <1>7, <1>9 DEF BalancesMatchLegs

\* A step of a transfer executes a call or leaves the money alone.
LEMMA StepLegs ==
  ASSUME Inv, Step
  PROVE  \/ UNCHANGED <<accountVars, body>> /\ SameLegs
         \/ \E t \in Transfers, l \in Leg : ServeDelta(t, l)
<1>a. ASSUME NEW t \in Transfers, Submit(t) \/ Refuse(t) \/ Handler(t)
      PROVE  UNCHANGED <<accountVars, body>> /\ SameLegs
  BY <1>a, HandlerLeaves, HandlerKeepsLegs
<1>b. ASSUME NEW t \in Transfers, NEW l \in Leg, ServeUnknown(t, l) \/ LoseCall(t, l)
      PROVE  UNCHANGED <<accountVars, body>> /\ SameLegs
  <2>1. /\ UNCHANGED <<accountVars, body>> /\ call[t][l] = "sent"
        /\ \E c \in {"refused", "lost"} : call' = [call EXCEPT ![t][l] = c]
    BY <1>b DEF ServeUnknown, LoseCall
  <2>2. call \in [Transfers -> [Leg -> CallState]]
    BY DEF Inv, TypeOK
  <2> QED
    BY <2>1, <2>2 DEF SameLegs, Performed, Legs
<1> QED
  BY <1>a, <1>b DEF Step, Serve

LEMMA StepLedger == Ledger /\ [Next]_vars => Ledger'
<1> SUFFICES ASSUME Ledger, [Next]_vars PROVE LegsKnown' /\ BalancesMatchLegs'
  BY StepInv DEF Ledger
<1>t. Inv /\ TypeOK
  BY DEF Ledger, Inv
<1>a. CASE UNCHANGED <<accountVars, body>> /\ SameLegs
  BY <1>a, SameBooks DEF accountVars
<1>b. ASSUME NEW a \in Accounts, Create(a)
      PROVE  LegsKnown' /\ BalancesMatchLegs'
  <2>1. /\ UNCHANGED body /\ SameLegs
        /\ DOMAIN store \subseteq DOMAIN store'
        /\ \A b \in DOMAIN store : store'[b] = store[b]
        /\ \A b \in DOMAIN store' \ DOMAIN store : b \in Accounts /\ store'[b] = Opening[b]
    BY <1>b, <1>t DEF Create, CreateAccount, handlerVars, SameLegs, Performed, TypeOK, AccountTypeOK
  <2> QED
    BY <2>1, SameBooks
<1>c. CASE GatewayCrash
  BY <1>c, SameBooks DEF GatewayCrash, HandlersStop, accountVars, SameLegs
<1>d. CASE AccountRestart
  <2>1. \A tl \in Legs : call'[tl[1]][tl[2]] # "applied"
    BY <1>d DEF AccountRestart, CallsForgotten, Wipe, Legs
  <2>2. \A a : LegsOn(a)' = {}
    BY <2>1 DEF LegsOn
  <2>3. \A a \in DOMAIN store' : store'[a] = Opening[a] /\ Opening[a] \in Int
    BY <1>d, AccountsAssumption DEF AccountRestart, RestartStore, SeedStore
  <2>4. LegsKnown'
    BY <2>1, <2>2, FS_EmptySet DEF LegsKnown
  <2>5. BalancesMatchLegs'
    BY <2>2, <2>3, SumEmpty DEF BalancesMatchLegs
  <2> QED
    BY <2>4, <2>5
<1>e. CASE UNCHANGED vars
  BY <1>e, SameBooks DEF vars, accountVars, handlerVars, SameLegs
<1> QED
  BY <1>t, <1>a, <1>b, <1>c, <1>d, <1>e, StepLegs, ServedLeg DEF Next, Rest

\* A balance is the opening balance plus the deltas of the calls executed since
\* account-service started, whatever interleaves, is late or is lost: applyDelta
\* is atomic and a call is sent once.
THEOREM BalancesMatchLegsHolds == Spec => []BalancesMatchLegs
<1>1. Ledger => BalancesMatchLegs
  BY DEF Ledger
<1> QED
  BY <1>1, InitLedger, StepLedger, PTL DEF Spec

-------------------------------------------------------------------------
(* Without faults.                                                       *)

\* With no fault, a call that is on its way has its handler waiting for it,
\* ends in an answer that the handler gets, and is not forgotten.
Undisturbed(t) ==
  /\ \A l \in Leg : call[t][l] \in {"unsent", "sent", "applied", "refused"}
  /\ pc[t] # "crashed"
  /\ pc[t] \notin {"idle", "refused"} => Accepted(body[t])
  /\ call[t]["debit"] = "sent" => pc[t] = "debiting"
  /\ call[t]["credit"] = "sent" => pc[t] = "crediting"
  /\ call[t]["reversal"] = "sent" => pc[t] = "reversing"

\* The transfer t is between its debit and its credit or reversal.
Held(t) ==
  /\ pc[t] \notin Final
  /\ call[t]["debit"] = "applied"
  /\ call[t]["credit"] # "applied"
  /\ call[t]["reversal"] # "applied"

Quiet ==
  /\ Ledger
  /\ restarts = 0 /\ gaveUp = {}
  /\ \A t \in Transfers : Undisturbed(t)
  /\ \A a \in Accounts : IsFiniteSet(HeldFrom(a))

LEMMA InitQuiet == Init => Quiet
<1> SUFFICES ASSUME Init PROVE Quiet
  OBVIOUS
<1>1. Ledger
  BY InitLedger
<1>2. \A a : HeldFrom(a) = {}
  BY DEF Init, HeldFrom, Leg
<1>3. \A t \in Transfers : Undisturbed(t)
  BY DEF Init, Undisturbed, Leg
<1> QED
  BY <1>1, <1>2, <1>3, FS_EmptySet DEF Quiet, Ledger, Init, AccountInit

\* What a step of t's handler does to the transfer, as the atomic one sees it.
LEMMA QuietHandler ==
  ASSUME Faults = {}, Quiet, NEW t \in Transfers, Submit(t) \/ Refuse(t) \/ Handler(t)
  PROVE  /\ UNCHANGED <<accountVars, body, gaveUp>>
         /\ Undisturbed(t)'
         /\ \A u \in Transfers : Held(u)' <=> Held(u)
         /\ \A u \in Transfers \ {t} : Undisturbed(u)' /\ Outcome'[u] = Outcome[u]
         /\ \/ Outcome'[t] = Outcome[t]
            \/ Outcome[t] = "open" /\ Outcome'[t] = "declined"
<1>0. /\ TypeOK /\ Local(t) /\ Undisturbed(t) /\ restarts = 0 /\ gaveUp = {}
      /\ Leg = {"debit", "credit", "reversal"}
  BY DEF Quiet, Ledger, Inv, Leg
<1>1. UNCHANGED <<accountVars, body>>
  BY HandlerLeaves DEF Quiet, Ledger
<1>2. \A u \in Transfers \ {t} : pc'[u] = pc[u] /\ call'[u] = call[u]
  BY HandlerLeaves DEF Quiet, Ledger, Others
<1>3. ASSUME NEW u \in Transfers \ {t}
      PROVE  (Held(u)' <=> Held(u)) /\ Undisturbed(u)' /\ Outcome'[u] = Outcome[u]
  BY <1>1, <1>2 DEF Held, Outcome, Quiet, Ledger, Undisturbed
<1>4. /\ gaveUp' = gaveUp
      /\ Undisturbed(t)'
      /\ Held(t)' <=> Held(t)
      /\ \/ Outcome'[t] = Outcome[t]
         \/ Outcome[t] = "open" /\ Outcome'[t] = "declined"
  <2> USE <1>0, <1>1 DEF TypeOK, Goto, Send, Held, Outcome, Undisturbed, Local, Phase, Ordered,
      Refundable, Done, Performed, Failed, Final, Answered
  <2>1. CASE Submit(t)
    BY <2>1 DEF Submit
  <2>2. CASE Refuse(t)
    BY <2>2 DEF Refuse
  <2>3. CASE DebitOk(t)
    BY <2>3 DEF DebitOk
  <2>4. CASE DebitRaises(t)
    BY <2>4 DEF DebitRaises, Raises, Unanswered
  <2>5. CASE CreditOk(t)
    BY <2>5 DEF CreditOk
  <2>6. CASE CreditRaises(t)
    BY <2>6 DEF CreditRaises, Raises, Unanswered
  <2>7. CASE ReversalReplied(t)
    BY <2>7 DEF ReversalReplied
  <2>8. CASE ReversalRaises(t)
    BY <2>8 DEF ReversalRaises, Unanswered
  <2> QED
    BY <2>1, <2>2, <2>3, <2>4, <2>5, <2>6, <2>7, <2>8 DEF Handler
<1> QED
  BY <1>1, <1>3, <1>4

\* The amounts are integers, and so is what they add up to.
LEMMA AmountsType == TypeOK => \A t \in Transfers : Amounts[t] = body[t].amount /\ Amounts[t] \in Nat
<1> SUFFICES ASSUME TypeOK, NEW t \in Transfers PROVE Amounts[t] = body[t].amount /\ Amounts[t] \in Nat
  OBVIOUS
<1>1. body[t] \in Bodies
  BY DEF TypeOK
<1> QED
  BY <1>1, TransfersAssumption DEF Amounts

LEMMA HeldSumType == Quiet => \A a \in Accounts : SumFunctionOnSet(Amounts, HeldFrom(a)) \in Int
<1> SUFFICES ASSUME Quiet, NEW a \in Accounts PROVE SumFunctionOnSet(Amounts, HeldFrom(a)) \in Int
  OBVIOUS
<1>1. IsFiniteSet(HeldFrom(a)) /\ \A t \in HeldFrom(a) : Amounts[t] \in Int
  BY AmountsType DEF Quiet, Ledger, Inv, HeldFrom
<1> QED
  BY <1>1, SumType

LEMMA FundsType == Quiet => Funds \in [DOMAIN store -> Int] /\ store \in [DOMAIN store -> Int]
BY HeldSumType DEF Quiet, Ledger, Inv, TypeOK, AccountTypeOK, Funds

\* What is held changes by the amount of the one transfer that begins or ends
\* to be held.
LEMMA HeldStep ==
  ASSUME Quiet, UNCHANGED body, NEW t \in Transfers, NEW f \in Accounts, f = body[t].from,
         \A u \in Transfers \ {t} : Held(u)' <=> Held(u)
  PROVE  LET sum(a) == SumFunctionOnSet(Amounts, HeldFrom(a)) IN
         /\ \A a \in Accounts : IsFiniteSet(HeldFrom(a)')
         /\ Amounts' = Amounts
         /\ \A a : a # f => HeldFrom(a)' = HeldFrom(a)
         /\ (Held(t) <=> Held(t)') => HeldFrom(f)' = HeldFrom(f)
         /\ ~Held(t) /\ Held(t)' => sum(f)' = sum(f) + body[t].amount
         /\ Held(t) /\ ~Held(t)' => sum(f)' = sum(f) - body[t].amount
<1> DEFINE H == HeldFrom(f)
           amount == body[t].amount
<1>0. Amounts' = Amounts
  BY DEF Amounts
<1>1. \A a : a # f => HeldFrom(a)' = HeldFrom(a)
  BY DEF HeldFrom, Held
<1>2. /\ (Held(t) <=> Held(t)') => H' = H
      /\ ~Held(t) /\ Held(t)' => H' = H \cup {t} /\ t \notin H
      /\ Held(t) /\ ~Held(t)' => H' = H \ {t} /\ t \in H
  BY DEF HeldFrom, Held
<1>3. /\ IsFiniteSet(H) /\ H \subseteq Transfers
      /\ SumFunctionOnSet(Amounts, H) \in Int
      /\ Amounts[t] = amount /\ amount \in Int
      /\ \A u \in H \cup {t} : Amounts[u] \in Int
  BY HeldSumType, AmountsType DEF Quiet, Ledger, Inv, HeldFrom
<1>4. IsFiniteSet(H')
  BY <1>2, <1>3, FS_AddElement, FS_RemoveElement
<1>5. ASSUME NEW a \in Accounts PROVE IsFiniteSet(HeldFrom(a)')
  BY <1>1, <1>4 DEF Quiet, Ledger
<1> HIDE DEF H, amount
<1>6. CASE ~Held(t) /\ Held(t)'
  <2>1. SumFunctionOnSet(Amounts, H') = Amounts[t] + SumFunctionOnSet(Amounts, H)
    BY <1>2, <1>3, <1>6, SumAdd
  <2> QED
    BY <2>1, <1>0, <1>1, <1>3, <1>5, <1>6 DEF H, amount
<1>7. CASE Held(t) /\ ~Held(t)'
  <2>1. SumFunctionOnSet(Amounts, H) = Amounts[t] + SumFunctionOnSet(Amounts, H')
    BY <1>2, <1>3, <1>7, SumTake
  <2>2. SumFunctionOnSet(Amounts, H') \in Int
    BY <1>2, <1>3, <1>4, <1>7, SumType
  <2> QED
    BY <2>1, <2>2, <1>0, <1>1, <1>3, <1>5, <1>7 DEF H, amount
<1>8. CASE Held(t) <=> Held(t)'
  BY <1>0, <1>1, <1>2, <1>5, <1>8 DEF H
<1> QED
  BY <1>6, <1>7, <1>8

-------------------------------------------------------------------------
(* Each step of the saga is a step of the atomic transfer or a stutter.  *)

Maps == Quiet' /\ [Abstract!Next]_(Abstract!vars)

\* A step of a handler declines the transfer or is invisible.
LEMMA HandlerMaps ==
  ASSUME Faults = {}, Quiet, NEW t \in Transfers, Submit(t) \/ Refuse(t) \/ Handler(t), Ledger'
  PROVE  Maps
<1>1. /\ UNCHANGED <<accountVars, body, gaveUp>>
      /\ \A u \in Transfers : Undisturbed(u)'
      /\ \A u \in Transfers : Held(u)' <=> Held(u)
      /\ \A u \in Transfers \ {t} : Outcome'[u] = Outcome[u]
      /\ \/ Outcome'[t] = Outcome[t]
         \/ Outcome[t] = "open" /\ Outcome'[t] = "declined"
  BY QuietHandler
<1>2. \A a : HeldFrom(a)' = HeldFrom(a)
  BY <1>1 DEF HeldFrom, Held
<1>3. Funds' = Funds
  BY <1>1, <1>2 DEF Funds, Amounts, accountVars
<1>4. Quiet'
  BY <1>1, <1>2 DEF Quiet, accountVars
<1>5. \/ Outcome' = Outcome
      \/ Outcome[t] = "open" /\ Outcome' = [Outcome EXCEPT ![t] = "declined"]
  <2> DEFINE O == Outcome
  <2>1. O = [u \in Transfers |-> O[u]] /\ O' = [u \in Transfers |-> O'[u]]
    BY DEF Outcome
  <2> HIDE DEF O
  <2> QED
    BY <1>1, <2>1 DEF O
<1> QED
  BY <1>1, <1>3, <1>4, <1>5 DEF Maps, Abstract!Next, Abstract!vars, Abstract!Decline

\* The service of a call moves the amount, if it is the credit, and is invisible otherwise.
LEMMA ServeMaps ==
  ASSUME Faults = {}, Quiet, NEW t \in Transfers, NEW l \in Leg, Serve(t, l), Ledger'
  PROVE  Maps
<1>0. /\ TypeOK /\ Local(t) /\ Undisturbed(t) /\ restarts = 0 /\ gaveUp = {}
      /\ Leg = {"debit", "credit", "reversal"}
  BY DEF Quiet, Ledger, Inv, Leg
<1>1. /\ UNCHANGED <<body, pc, gaveUp, restarts>>
      /\ DOMAIN store' = DOMAIN store
      /\ call[t][l] = "sent"
  BY DEF Serve, ServeDelta, ServeUnknown, ApplyDelta, accountVars
<1>2. PICK c \in {"applied", "refused"} :
        /\ call' = [call EXCEPT ![t][l] = c]
        /\ \/ c = "applied" /\ ApplyDelta(Target(t, l), Delta(t, l))
           \/ c = "refused" /\ UNCHANGED accountVars
  BY DEF Serve, ServeDelta, ServeUnknown
<1>3. /\ call'[t][l] = c
      /\ \A m \in Leg \ {l} : call'[t][m] = call[t][m]
      /\ \A u \in Transfers \ {t} : call'[u] = call[u]
  BY <1>0, <1>2, CallWrite DEF CallState, TypeOK
<1>4. ASSUME NEW u \in Transfers \ {t}
      PROVE  (Held(u)' <=> Held(u)) /\ Undisturbed(u)' /\ Outcome'[u] = Outcome[u]
  BY <1>1, <1>3 DEF Held, Outcome, Quiet, Ledger, Undisturbed
<1>5. Undisturbed(t)'
  BY <1>0, <1>1, <1>3 DEF Undisturbed
<1>6. PICK f \in Accounts, g \in Accounts : f = body[t].from /\ g = body[t].to
  BY <1>0, BodyType
<1> DEFINE sum(a) == SumFunctionOnSet(Amounts, HeldFrom(a))
           amount == body[t].amount
<1>7. /\ \A a \in Accounts : IsFiniteSet(HeldFrom(a)')
      /\ Amounts' = Amounts
      /\ \A a : a # f => HeldFrom(a)' = HeldFrom(a)
      /\ (Held(t) <=> Held(t)') => HeldFrom(f)' = HeldFrom(f)
      /\ ~Held(t) /\ Held(t)' => sum(f)' = sum(f) + amount
      /\ Held(t) /\ ~Held(t)' => sum(f)' = sum(f) - amount
  BY <1>1, <1>4, <1>6, HeldStep
<1>8. Quiet'
  BY <1>0, <1>1, <1>4, <1>5, <1>7 DEF Quiet, Ledger
<1>9. /\ store \in [DOMAIN store -> Int] /\ amount \in Int
      /\ \A a \in Accounts : sum(a) \in Int
      /\ DOMAIN store \subseteq Accounts
  BY <1>0, FundsType, HeldSumType, AmountsType DEF TypeOK, AccountTypeOK
<1>10. /\ DOMAIN Funds = DOMAIN store /\ DOMAIN Funds' = DOMAIN store
       /\ \A a \in DOMAIN store : Funds[a] = store[a] + sum(a) /\ Funds'[a] = store'[a] + sum(a)'
  BY <1>1 DEF Funds
<1> HIDE DEF sum, amount
<1>s. (\A a \in DOMAIN store : Funds'[a] = Funds[a]) => Funds' = Funds
  BY <1>1 DEF Funds
<1>o. Outcome'[t] = Outcome[t] => Outcome' = Outcome
  BY <1>4 DEF Outcome
<1>i. Outcome'[t] = Outcome[t] /\ (\A a \in DOMAIN store : Funds'[a] = Funds[a]) => Maps
  BY <1>1, <1>8, <1>s, <1>o DEF Maps, Abstract!vars
<1>a. CASE c = "refused"
  <2>1. store' = store /\ (Held(t)' <=> Held(t)) /\ Outcome'[t] = Outcome[t]
    BY <1>a, <1>0, <1>1, <1>2, <1>3 DEF accountVars, Held, Outcome
  <2>2. \A a : HeldFrom(a)' = HeldFrom(a)
    BY <2>1, <1>7
  <2>3. \A a \in DOMAIN store : Funds'[a] = Funds[a]
    BY <2>1, <2>2, <1>7, <1>10 DEF sum
  <2> QED
    BY <2>1, <2>3, <1>i
<1>b. CASE c = "applied" /\ l = "debit"
  <2>1. /\ f \in DOMAIN store /\ store' = [store EXCEPT ![f] = @ + (-amount)]
    BY <1>b, <1>2, <1>6 DEF ApplyDelta, Known, Target, Delta, amount
  <2>2. ~Held(t) /\ Held(t)' /\ Outcome'[t] = Outcome[t]
    BY <1>b, <1>0, <1>1, <1>3 DEF Held, Outcome, Undisturbed, Local, Phase, Final, Answered
  <2>3. \A a \in DOMAIN store : Funds'[a] = Funds[a]
    BY <2>1, <2>2, <1>7, <1>9, <1>10 DEF sum
  <2> QED
    BY <2>2, <2>3, <1>i
<1>c. CASE c = "applied" /\ l = "reversal"
  <2>1. /\ f \in DOMAIN store /\ store' = [store EXCEPT ![f] = @ + amount]
    BY <1>c, <1>2, <1>6 DEF ApplyDelta, Known, Target, Delta, amount
  <2>2. Held(t) /\ ~Held(t)' /\ Outcome'[t] = Outcome[t]
    BY <1>c, <1>0, <1>1, <1>3
    DEF Held, Outcome, Undisturbed, Local, Phase, Ordered, Done, Performed, Failed, Final, Answered
  <2>3. \A a \in DOMAIN store : Funds'[a] = Funds[a]
    BY <2>1, <2>2, <1>7, <1>9, <1>10 DEF sum
  <2> QED
    BY <2>2, <2>3, <1>i
<1>d. CASE c = "applied" /\ l = "credit"
  <2>1. /\ g \in DOMAIN store /\ store' = [store EXCEPT ![g] = @ + amount]
    BY <1>d, <1>2, <1>6 DEF ApplyDelta, Known, Target, Delta, amount
  <2>2. Held(t) /\ ~Held(t)' /\ Outcome[t] = "open" /\ Outcome'[t] = "moved"
    BY <1>d, <1>0, <1>1, <1>3
    DEF Held, Outcome, Undisturbed, Local, Phase, Ordered, Done, Performed, Failed, Final, Answered
  <2>3. f # g /\ f \in DOMAIN store
    BY <1>d, <1>0, <1>1, <1>6
    DEF Undisturbed, Accepted, Local, Ordered, Refundable, Done, Performed, Known
  <2>4. Outcome' = [Outcome EXCEPT ![t] = "moved"]
    BY <2>2, <1>4 DEF Outcome
  <2>5. Funds' = [Funds EXCEPT ![f] = @ - amount, ![g] = @ + amount]
    <3>1. \A a \in DOMAIN store :
            Funds'[a] = IF a = f THEN Funds[f] - amount
                        ELSE IF a = g THEN Funds[g] + amount ELSE Funds[a]
      BY <2>1, <2>2, <2>3, <1>7, <1>9, <1>10 DEF sum
    <3>2. Funds' = [a \in DOMAIN store |-> Funds'[a]]
      BY <1>1 DEF Funds
    <3> DEFINE F == Funds
    <3>3. DOMAIN F = DOMAIN store
      BY <1>10
    <3> HIDE DEF F
    <3>4. [F EXCEPT ![f] = @ - amount, ![g] = @ + amount]
            = [a \in DOMAIN store |-> IF a = f THEN F[f] - amount
                                      ELSE IF a = g THEN F[g] + amount ELSE F[a]]
      BY <2>1, <2>3, <3>3
    <3> QED
      BY <3>1, <3>2, <3>4 DEF F
  <2>6. Abstract!Move(t)
    BY <2>1, <2>2, <2>3, <2>4, <2>5, <1>1, <1>6, <1>10 DEF Abstract!Move, amount
  <2> QED
    BY <2>6, <1>8 DEF Maps, Abstract!Next
<1> QED
  BY <1>0, <1>2, <1>a, <1>b, <1>c, <1>d

\* Creating an account opens it.
LEMMA CreateMaps ==
  ASSUME Quiet, NEW a \in Accounts, Create(a), Ledger'
  PROVE  Maps
<1>1. /\ a \notin DOMAIN store
      /\ store' = [b \in DOMAIN store \cup {a} |-> IF b = a THEN Opening[a] ELSE store[b]]
      /\ UNCHANGED <<body, pc, call, gaveUp, restarts>>
  BY DEF Quiet, Ledger, Inv, TypeOK, AccountTypeOK, Create, CreateAccount, handlerVars
<1>2. (\A b : HeldFrom(b)' = HeldFrom(b)) /\ Amounts' = Amounts /\ Outcome' = Outcome
  BY <1>1 DEF HeldFrom, Amounts, Outcome
<1>3. Quiet'
  BY <1>1, <1>2 DEF Quiet, Ledger, Undisturbed
<1>4. HeldFrom(a) = {}
  BY <1>1 DEF Quiet, Ledger, Inv, Local, Refundable, Done, Performed, Known, HeldFrom
<1>5. Opening[a] + SumFunctionOnSet(Amounts, HeldFrom(a)) = Opening[a]
  BY <1>4, SumEmpty, AccountsAssumption
<1>6. Funds' = [b \in DOMAIN Funds \cup {a} |-> IF b = a THEN Opening[a] ELSE Funds[b]]
  BY <1>1, <1>2, <1>5 DEF Funds
<1>7. Abstract!Open(a)
  BY <1>1, <1>2, <1>6 DEF Abstract!Open, Funds
<1> QED
  BY <1>3, <1>7 DEF Maps, Abstract!Next

LEMMA StepMaps == Faults = {} /\ Quiet /\ [Next]_vars => Maps
<1> SUFFICES ASSUME Faults = {}, Quiet, [Next]_vars PROVE Maps
  OBVIOUS
<1>1. Ledger'
  BY StepLedger DEF Quiet
<1>a. ASSUME NEW t \in Transfers, Submit(t) \/ Refuse(t) \/ Handler(t)
      PROVE  Maps
  BY <1>a, <1>1, HandlerMaps
<1>b. ASSUME NEW t \in Transfers, NEW l \in Leg, Serve(t, l) \/ LoseCall(t, l)
      PROVE  Maps
  BY <1>b, <1>1, ServeMaps DEF LoseCall
<1>c. ASSUME NEW a \in Accounts, Create(a)
      PROVE  Maps
  BY <1>c, <1>1, CreateMaps
<1>d. CASE GatewayCrash \/ AccountRestart
  BY <1>d DEF GatewayCrash, AccountRestart
<1>e. CASE UNCHANGED vars
  <2>1. /\ UNCHANGED <<store, body, pc, call, gaveUp, restarts>>
        /\ \A a : HeldFrom(a)' = HeldFrom(a)
    BY <1>e DEF vars, accountVars, handlerVars, HeldFrom
  <2>2. Quiet'
    BY <2>1, <1>1 DEF Quiet, Undisturbed
  <2>3. UNCHANGED <<body, Funds, Outcome>>
    BY <2>1 DEF Funds, Amounts, Outcome
  <2> QED
    BY <2>2, <2>3 DEF Maps, Abstract!vars
<1> QED
  BY <1>a, <1>b, <1>c, <1>d, <1>e DEF Next, Step, Rest

LEMMA InitMaps == Init => Abstract!Init
<1> SUFFICES ASSUME Init PROVE Abstract!Init
  OBVIOUS
<1>1. HeldFrom(Seed) = {} /\ Opening[Seed] \in Int
  BY AccountsAssumption DEF Init, HeldFrom, Leg
<1>2. Opening[Seed] + SumFunctionOnSet(Amounts, HeldFrom(Seed)) = Opening[Seed]
  BY <1>1, SumEmpty
<1>3. Funds = [a \in {Seed} |-> Opening[a]]
  BY <1>2 DEF Init, AccountInit, SeedStore, Funds
<1>4. Outcome = [t \in Transfers |-> "open"]
  BY DEF Init, Outcome, Leg, Answered
<1> QED
  BY <1>3, <1>4 DEF Abstract!Init

\* Without faults the saga is the atomic transfer of the docstring, for any
\* requests and accounts, however the handlers interleave: every step is a step
\* of AtomicTransfers or is invisible there.
THEOREM SagaImplementsAtomicTransfers ==
  ASSUME Faults = {}
  PROVE  Spec => ImplementsAtomicTransfers
<1>1. Quiet /\ [Next]_vars => Quiet' /\ [Abstract!Next]_(Abstract!vars)
  BY StepMaps DEF Maps
<1> QED
  BY <1>1, InitMaps, InitQuiet, PTL DEF Spec, ImplementsAtomicTransfers, Abstract!Spec

-------------------------------------------------------------------------
(* Conservation, a fact about the atomic transfer that the saga inherits. *)

\* A step of the atomic transfer keeps the sum of the funds, counting what a
\* new account is opened with.
LEMMA AtomicConserves ==
  ASSUME IsFiniteSet(DOMAIN store), IsFiniteSet(DOMAIN store'),
         DOMAIN store' \subseteq Accounts,
         Funds \in [DOMAIN store -> Int], Funds' \in [DOMAIN store' -> Int],
         \A t \in Transfers : body[t].amount \in Int,
         Conservation,
         [Abstract!Next]_(Abstract!vars)
  PROVE  Conservation'
<1> USE DEF Conservation
<1> DEFINE F == Funds
           D == DOMAIN store
<1>0. D = DOMAIN F /\ D' = DOMAIN F' /\ \A a \in D' : Opening[a] \in Int
  BY AccountsAssumption
<1>1. ASSUME NEW t \in Transfers, Abstract!Move(t)
      PROVE  Conservation'
  <2>1. PICK f, g, m : f = body[t].from /\ g = body[t].to /\ m = body[t].amount
    OBVIOUS
  <2>2. /\ f \in D /\ g \in D /\ f # g /\ m \in Int
        /\ F' = [F EXCEPT ![f] = @ - m, ![g] = @ + m]
    BY <1>0, <1>1, <2>1 DEF Abstract!Move
  <2> HIDE DEF F
  <2>3. D' = D
    BY <1>0, <2>2
  <2>4. F \in [D -> Int] /\ IsFiniteSet(D)
    BY DEF F
  <2> HIDE DEF D
  <2>5. PICK d : d = D /\ f \in d /\ g \in d /\ IsFiniteSet(d)
    BY <2>2, <2>4
  <2>6. /\ \A a \in d : F[a] \in Int /\ F'[a] \in Int
        /\ F'[f] - F[f] = F[g] - F'[g]
        /\ \A a \in d \ {f, g} : F'[a] = F[a]
    BY <2>2, <2>4, <2>5
  <2>7. SumFunctionOnSet(F', d) = SumFunctionOnSet(F, d)
    <3>1. PICK e, h : e = F /\ h = F'
      OBVIOUS
    <3>2. Shifted(e, h, d, f, g)
      BY <3>1, <2>2, <2>5, <2>6 DEF Shifted
    <3>3. SumFunctionOnSet(h, d) = SumFunctionOnSet(e, d)
      BY <2>5, <3>2, SumShift
    <3> QED
      BY <3>1, <3>3
  <2> QED
    BY <2>3, <2>5, <2>7 DEF F, D
<1>2. ASSUME NEW a \in Accounts, Abstract!Open(a)
      PROVE  Conservation'
  <2>1. /\ a \notin D
        /\ F' = [b \in D \cup {a} |-> IF b = a THEN Opening[a] ELSE F[b]]
    BY <1>0, <1>2 DEF Abstract!Open
  <2> HIDE DEF F
  <2>2. D' = D \cup {a}
    BY <1>0, <2>1
  <2>3. /\ \A b \in D \cup {a} : F'[b] \in Int /\ Opening[b] \in Int
        /\ F'[a] = Opening[a]
        /\ \A b \in D : F'[b] = F[b]
    BY <1>0, <2>1, <2>2 DEF F
  <2> HIDE DEF D
  <2>4. SumFunctionOnSet(F', D \cup {a}) = F'[a] + SumFunctionOnSet(F', D)
    BY <2>1, <2>3, SumAdd DEF D
  <2>5. SumFunctionOnSet(F', D) = SumFunctionOnSet(F, D)
    BY <2>3, SumSame DEF D
  <2>6. SumFunctionOnSet(Opening, D \cup {a}) = Opening[a] + SumFunctionOnSet(Opening, D)
    BY <2>1, <2>3, SumAdd DEF D
  <2> QED
    BY <2>2, <2>3, <2>4, <2>5, <2>6 DEF F, D
<1>3. CASE UNCHANGED Funds
  <2>1. DOMAIN F' = DOMAIN F
    BY <1>3
  <2> QED
    BY <2>1, <1>0, <1>3
<1> QED
  BY <1>1, <1>2, <1>3 DEF Abstract!Next, Abstract!vars, Abstract!Decline

Conserved == Quiet /\ IsFiniteSet(used) /\ Conservation

LEMMA UsedStaysFinite == IsFiniteSet(used) /\ [Next]_vars => IsFiniteSet(used)'
<1> SUFFICES ASSUME IsFiniteSet(used), [Next]_vars PROVE IsFiniteSet(used')
  OBVIOUS
<1>1. used' = used \/ \E a \in Accounts : used' = used \cup {a}
  BY DEF Next, Step, Submit, Refuse, Handler, DebitOk, DebitRaises, CreditOk, CreditRaises,
     ReversalReplied, ReversalRaises, Serve, ServeDelta, ServeUnknown, LoseCall, ApplyDelta,
     Create, CreateAccount, GatewayCrash, AccountRestart, RestartStore, Rest, vars, accountVars
<1> QED
  BY <1>1, FS_AddElement

LEMMA InitConserved == Init => Conserved
<1> SUFFICES ASSUME Init PROVE Conserved
  OBVIOUS
<1>1. IsFiniteSet(used)
  BY FS_Singleton DEF Init, AccountInit
<1>2. Funds = [a \in {Seed} |-> Opening[a]] /\ DOMAIN store = {Seed}
  BY InitMaps DEF Abstract!Init, Init, AccountInit, SeedStore
<1>3. IsFiniteSet({Seed}) /\ \A a \in {Seed} : Funds[a] = Opening[a]
  BY <1>2, FS_Singleton
<1>4. SumFunctionOnSet(Funds, {Seed}) = SumFunctionOnSet(Opening, {Seed})
  BY <1>3, SumSame
<1> QED
  BY <1>1, <1>2, <1>4, InitQuiet DEF Conserved, Conservation

LEMMA StepConserved == Faults = {} /\ Conserved /\ [Next]_vars => Conserved'
<1> SUFFICES ASSUME Faults = {}, Conserved, [Next]_vars PROVE Conserved'
  OBVIOUS
<1>1. Quiet /\ Quiet' /\ [Abstract!Next]_(Abstract!vars)
  BY StepMaps DEF Conserved, Maps
<1>2. IsFiniteSet(used) /\ IsFiniteSet(used')
  BY UsedStaysFinite DEF Conserved
<1>3. /\ DOMAIN store \subseteq used /\ DOMAIN store' \subseteq used'
      /\ used' \subseteq Accounts
      /\ TypeOK
  BY <1>1 DEF Quiet, Ledger, Inv, TypeOK, AccountTypeOK
<1>4. IsFiniteSet(DOMAIN store) /\ IsFiniteSet(DOMAIN store')
  BY <1>2, <1>3, FS_Subset
<1>5. \A t \in Transfers : body[t].amount \in Int
  BY <1>3, AmountsType
<1>6. Funds \in [DOMAIN store -> Int] /\ Funds' \in [DOMAIN store' -> Int]
  <2>1. (Quiet => Funds \in [DOMAIN store -> Int])'
    BY FundsType, PTL
  <2> QED
    BY <2>1, <1>1, FundsType
<1>7. Conservation'
  BY <1>1, <1>3, <1>4, <1>5, <1>6, AtomicConserves DEF Conserved
<1> QED
  BY <1>1, <1>2, <1>7 DEF Conserved

\* No money appears or disappears while nothing fails.
THEOREM ConservationHolds ==
  ASSUME Faults = {}
  PROVE  Spec => []Conservation
<1>1. Conserved /\ [Next]_vars => Conserved'
  BY StepConserved
<1>2. Conserved => Conservation
  BY DEF Conserved
<1> QED
  BY <1>1, <1>2, InitConserved, PTL DEF Spec
=======================================================================

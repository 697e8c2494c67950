---------------------- MODULE TransfersAccounting ----------------------
(* The money side of Transfers: balances as sums over the calls that      *)
(* account-service has executed, and the refinement of AtomicTransfers.   *)
EXTENDS Transfers, Functions

Legs == Transfers \X Leg

Deltas == [tl \in Legs |-> Delta(tl[1], tl[2])]

\* The executed legs that the current account-service remembers, on account a.
LegsOn(a) == {tl \in Legs : Target(tl[1], tl[2]) = a /\ call[tl[1]][tl[2]] = "applied"}

\* No delta is lost, applied twice or applied to the wrong account: under any
\* interleaving of handlers, late deliveries and restarts, a balance is the
\* opening balance plus the deltas of the calls executed since.
BalancesMatchLegs ==
  \A a \in DOMAIN store : store[a] = Opening[a] + SumFunctionOnSet(Deltas, LegsOn(a))

-------------------------------------------------------------------------
(* Between the debit and the credit, or the reversal, the amount is in    *)
(* neither account: the transfer under way holds it. Counting what is     *)
(* held as still the source's, the saga is an atomic transfer.            *)

HeldFrom(a) ==
  {t \in Transfers : /\ body[t].from = a
                     /\ pc[t] \notin Final
                     /\ call[t]["debit"] = "applied"
                     /\ call[t]["credit"] # "applied"
                     /\ call[t]["reversal"] # "applied"}

Amounts == [t \in Transfers |-> body[t].amount]

Funds == [a \in DOMAIN store |-> store[a] + SumFunctionOnSet(Amounts, HeldFrom(a))]

Outcome ==
  [t \in Transfers |->
     IF call[t]["credit"] = "applied" THEN "moved"
     ELSE IF pc[t] \in Answered THEN "declined" ELSE "open"]

Abstract == INSTANCE AtomicTransfers WITH funds <- Funds, outcome <- Outcome

\* With no fault to face, the three calls of each handler, interleaved with the
\* calls of the others, implement the atomic transfer of the docstring.
ImplementsAtomicTransfers == Abstract!Spec

\* No money appears or disappears: what the accounts hold and what is held for
\* the transfers under way is what the accounts were opened with.
Conservation ==
  SumFunctionOnSet(Funds, DOMAIN store) = SumFunctionOnSet(Opening, DOMAIN store)
=======================================================================

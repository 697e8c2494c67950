------------------------ MODULE AtomicTransfers ------------------------
(* What the docstring of POST /v1/transfers promises: a transfer moves    *)
(* its amount in one step or moves nothing, and an account's funds        *)
(* change in no other way than by transfers and by account creation.      *)
EXTENDS Integers

CONSTANTS Accounts, Opening, Seed, Transfers

VARIABLES body,      \* the requests
          funds,     \* the money of each known account
          outcome    \* how each transfer stands

vars == <<body, funds, outcome>>

Init ==
  /\ funds = [a \in {Seed} |-> Opening[a]]
  /\ outcome = [t \in Transfers |-> "open"]

\* One step: the source loses what the destination gains.
Move(t) ==
  /\ outcome[t] = "open"
  /\ {body[t].from, body[t].to} \subseteq DOMAIN funds
  /\ body[t].from # body[t].to
  /\ funds' = [funds EXCEPT ![body[t].from] = @ - body[t].amount,
                            ![body[t].to]   = @ + body[t].amount]
  /\ outcome' = [outcome EXCEPT ![t] = "moved"]
  /\ UNCHANGED body

Decline(t) ==
  /\ outcome[t] = "open"
  /\ outcome' = [outcome EXCEPT ![t] = "declined"]
  /\ UNCHANGED <<body, funds>>

\* Accounts come into being with their opening balance and never leave.
Open(a) ==
  /\ a \notin DOMAIN funds
  /\ funds' = [b \in DOMAIN funds \cup {a} |-> IF b = a THEN Opening[a] ELSE funds[b]]
  /\ UNCHANGED <<body, outcome>>

Next ==
  \/ \E t \in Transfers : Move(t) \/ Decline(t)
  \/ \E a \in Accounts : Open(a)

Spec == Init /\ [][Next]_vars
=======================================================================

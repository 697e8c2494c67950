------------------------------ MODULE Bank ------------------------------
(* What the money-moving endpoints promise together: every order for      *)
(* money is posted once at most, whatever restarts in between, and        *)
(* balances change by postings only, until the books are begun anew.      *)
EXTENDS Integers

CONSTANTS Accounts, Seed, Opening

VARIABLES balance,  \* the balance of each account that is open
          entries,  \* what has been posted in the present books
          spent     \* the ids of everything that was ever posted

vars == <<balance, entries, spent>>

NewBooks == [a \in {Seed} |-> Opening[a]]

Init ==
  /\ balance = NewBooks
  /\ entries = {}
  /\ spent = {}

Open(a) ==
  /\ a \notin DOMAIN balance
  /\ balance' = [b \in DOMAIN balance \cup {a} |-> IF b = a THEN Opening[a] ELSE balance[b]]
  /\ UNCHANGED <<entries, spent>>

\* An entry names its order, its account and its amount.
Post(e) ==
  /\ e.id \notin spent
  /\ e.account \in DOMAIN balance
  /\ balance' = [balance EXCEPT ![e.account] = @ + e.amount]
  /\ entries' = entries \cup {e}
  /\ spent' = spent \cup {e.id}

\* The books are in memory only. An order already posted stays spent.
Restart ==
  /\ balance' = NewBooks
  /\ entries' = {}
  /\ UNCHANGED spent

Next ==
  \/ \E a \in Accounts : Open(a)
  \/ \E e \in entries' \ entries : Post(e)
  \/ Restart

Spec == Init /\ [][Next]_vars
=======================================================================

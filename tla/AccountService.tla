------------------------ MODULE AccountService ------------------------
(* account-service: the in-memory account store behind                  *)
(* PATCH /v1/accounts/{id}/balance and POST /v1/accounts.               *)
EXTENDS Integers

CONSTANTS Accounts,     \* every account id a request may name
          Seed,         \* the account the constructor puts in the store
          Opening,      \* the balance each id has when its account is created
          BrokerFails,  \* whether the event of a new account may fail to be published
          MaxRestarts   \* bound: how often account-service restarts in a behaviour

ASSUME AccountsAssumption ==
  /\ Seed \in Accounts
  /\ Opening \in [Accounts -> Int]
  /\ BrokerFails \in BOOLEAN
  /\ MaxRestarts \in Nat

VARIABLES store,     \* the ConcurrentHashMap: a function from the known ids to balances
          used,      \* ids handed out so far; UUID fragments are not handed out again
          announced, \* accounts whose account-created event is on fraud.score.queue
          restarts   \* restarts of account-service so far

accountVars == <<store, used, announced, restarts>>

AccountTypeOK ==
  /\ DOMAIN store \subseteq used
  /\ store \in [DOMAIN store -> Int]
  /\ Seed \in used /\ used \subseteq Accounts
  /\ announced \subseteq used
  /\ restarts \in 0..MaxRestarts

SeedStore == [a \in {Seed} |-> Opening[a]]

AccountInit ==
  /\ store = SeedStore
  /\ used = {Seed}
  /\ announced = {}
  /\ restarts = 0

Known(a) == a \in DOMAIN store

\* Mutant: an unknown account springs up with the delta as its balance.
ApplyDeltaUpserting(a, delta) ==
  /\ store' = [b \in DOMAIN store \cup {a} |->
                 (IF Known(b) THEN store[b] ELSE 0) + IF b = a THEN delta ELSE 0]
  /\ UNCHANGED <<used, announced, restarts>>

\* Mutant: no balance below zero.
ApplyDeltaClamping(a, delta) ==
  /\ Known(a)
  /\ store' = [store EXCEPT ![a] = IF @ + delta < 0 THEN 0 ELSE @ + delta]
  /\ UNCHANGED <<used, announced, restarts>>

\* ConcurrentHashMap#compute: one atomic read-modify-write. There is no check
\* of the resulting balance, which may become negative.
ApplyDelta(a, delta) ==
  /\ Known(a)
  /\ store' = [store EXCEPT ![a] = @ + delta]
  /\ UNCHANGED <<used, announced, restarts>>

\* The id is fresh; the event follows, and its failure goes unnoticed.
CreateAccount(a) ==
  /\ a \notin used
  /\ used' = used \cup {a}
  /\ store' = [b \in DOMAIN store \cup {a} |-> IF b = a THEN Opening[a] ELSE store[b]]
  /\ announced' \in {announced \cup {a}} \cup IF BrokerFails THEN {announced} ELSE {}
  /\ UNCHANGED restarts

\* A new JVM runs the constructor again: what was created or moved is gone.
RestartStore ==
  /\ restarts < MaxRestarts
  /\ restarts' = restarts + 1
  /\ store' = SeedStore
  /\ UNCHANGED <<used, announced>>
=======================================================================
